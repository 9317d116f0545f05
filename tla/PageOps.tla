------------------------------ MODULE PageOps ------------------------------
(***************************************************************************)
(* What the methods of Page, Element, PageInner and ChaserPage do to the   *)
(* browser.  A method is a script: commands that are sent one at a time,   *)
(* each after the answer to the one before; the first that fails ends the  *)
(* call.  Around it the page navigates, frames go, answers get lost and    *)
(* the caller drops the call.                                              *)
(*                                                                         *)
(* Kept of the browser: which keys and buttons are down, the overrides     *)
(* for a screenshot, one cookie, the documents.  Coordinates, delays and   *)
(* the text of scripts are left out.                                       *)
(***************************************************************************)
EXTENDS Naturals, Sequences

CONSTANTS
  Methods,   \* the methods that are called
  MaxCalls,  \* bound: calls, one after the other
  MaxDoc     \* bound: documents of a frame

VARIABLES
  call,      \* the call under way or the last one
  calls,     \* how many calls were made
  input,     \* browser: keys and button that are down
  overrides, \* browser: device metrics, background, emulation
  cookie,    \* browser: the cookie
  docs,      \* browser: the number of each frame's document, 0 without the frame
  ran,       \* history: where scripts ran
  mishap     \* history: "none", "failed" or "lost" for all calls so far

browserVars == <<input, overrides, cookie, docs>>
pageOpsVars == <<call, calls, browserVars, ran, mishap>>

-----------------------------------------------------------------------------
(* Scripts *)

Cmd(do, arg) == [do |-> do, arg |-> arg]
Down(key) == Cmd("keyDown", key)
Up(key) == Cmd("keyUp", key)

\* Keyboard.  A typed character has a text and no key.
TypeChar == <<Down("text"), Up("text")>>
TypeText == TypeChar \o TypeChar
PressKey(key) == <<Down(key), Up(key)>>
TypeWithTypo == TypeChar \o PressKey("Backspace") \o TypeChar
PressDefined(key) == <<Cmd("lookup", key)>> \o PressKey(key)
TypeStr == PressDefined("a") \o PressDefined("b")

Modifiers == <<"Control", "Shift">>
HoldKeys == [i \in 1..Len(Modifiers) |-> Down(Modifiers[i])]
ReleaseLast(n) == [i \in 1..n |-> Up(Modifiers[n])] \* Mutant: always the last one
ReleaseKeys(n) == [i \in 1..n |-> Up(Modifiers[n + 1 - i])]
PressKeyCombo == HoldKeys \o PressDefined("Tab") \o ReleaseKeys(Len(Modifiers))

\* Mouse
Move == <<Cmd("mouse", "moved")>>
ClickWith == Move \o <<Cmd("mouse", "left"), Cmd("mouse", "up")>>
MoveMouseHuman == Move \o Move
ClickHuman == MoveMouseHuman \o ClickWith
RightClick == <<Cmd("mouse", "right"), Cmd("mouse", "up")>>
DoubleClick == Tail(ClickWith) \o Tail(ClickWith)
ScrollHuman == <<Cmd("mouse", "moved"), Cmd("mouse", "moved")>>
DragHuman == MoveMouseHuman \o <<Cmd("mouse", "left")>> \o Move \o <<Cmd("mouse", "up")>>

\* Elements
NewElement == <<Cmd("describe", "none"), Cmd("resolve", "none")>>
FindInRoot(selector) == <<Cmd("query", selector)>> \o NewElement
FindElement(selector) == <<Cmd("getDocument", "none")>> \o FindInRoot(selector)
FindXpath(query) ==
  <<Cmd("getDocument", "none"), Cmd("performSearch", query), Cmd("command", "getSearchResults"),
    Cmd("command", "discardSearchResults"), Cmd("first", "none")>> \o NewElement
InLightOf(selector) == FindInRoot(selector) \* Mutant: the host's shadow root is not asked for
InShadowOf(selector) == <<Cmd("shadowRoot", "none")>> \o FindInRoot(selector)
FindInShadowDeep == FindElement("outer") \o InShadowOf("inner") \o InShadowOf("target")

CallJsFn == <<Cmd("callOn", "none")>>
ClickablePoint == <<Cmd("onBackend", "none")>>
Hover == CallJsFn \o ClickablePoint \o Move
ClickElement == CallJsFn \o ClickablePoint \o ClickWith
Property == CallJsFn
IterAttributes == <<Cmd("onBackend", "none")>> \o CallJsFn \o CallJsFn
SetInputFiles == FindElement("input") \o <<Cmd("onBackend", "none")>>

\* Screenshots
Screenshot(full_page, omit_background) ==
  <<Cmd("command", "activateTarget")>>
  \o (IF full_page THEN <<Cmd("command", "getLayoutMetrics"), Cmd("set", "metrics")>> ELSE <<>>)
  \o (IF omit_background THEN <<Cmd("set", "background")>> ELSE <<>>)
  \o <<Cmd("command", "captureScreenshot")>>
  \o (IF omit_background THEN <<Cmd("clear", "background")>> ELSE <<>>)
  \o (IF full_page THEN <<Cmd("clear", "metrics")>> ELSE <<>>)
ElementScreenshot ==
  CallJsFn \o <<Cmd("onBackend", "none"), Cmd("command", "getLayoutMetrics")>>
  \o Screenshot(FALSE, FALSE)

\* Cookies.  Every url is validated before the first command.
SetCookies(valid) ==
  <<Cmd("ask", "url"), Cmd("validate", valid), Cmd("cookie", "none"), Cmd("cookie", "new")>>
DeleteCookies == <<Cmd("ask", "url"), Cmd("cookie", "none")>>

\* JavaScript.  The Target is asked for a context, and once more, for one of the main
\* world, if it knew none.  An expression that turns out to be a function is called, in
\* the context of the first answer or one that is asked for again.
InWorld(world) == <<Cmd("context", world), Cmd("contextAgain", "main")>>
Evaluate == InWorld("main") \o <<Cmd("evaluate", "none")>>
EvaluateFunction == Evaluate \o <<Cmd("contextOfFirst", "main"), Cmd("callIn", "none")>>
SetContent == InWorld("util") \o <<Cmd("callIn", "none"), Cmd("ask", "waitForNavigation")>>
EvaluateInPage(f) == <<Cmd("evaluate", "none")>> \* Mutant: no world of its own
EvaluateInFrame(f) == <<Cmd("isolate", f), Cmd("evaluate", "none")>>
EvaluateStealth == <<Cmd("ask", "mainframe")>> \o EvaluateInFrame("main")
FindFrame == <<Cmd("ask", "frames"), Cmd("ask", "mainframe"), Cmd("ask", "frameUrl"),
               Cmd("ask", "frameName")>>
InFrame == FindFrame \o EvaluateInFrame("sub")
GetTitle == Evaluate
Content == Evaluate
SelectOption == FindElement("select") \o ClickElement \o EvaluateStealth

\* A locator looks its element up again before everything it does.
LocatorClick == FindElement("a") \o ClickElement
LocatorText == FindElement("a") \o Property

\* Navigation.  The page may go on to its next document at any time.
Reload == <<Cmd("command", "reload"), Cmd("ask", "waitForNavigation")>>

\* Identity.  A native profile keeps the browser's own client hints; that its screen
\* cannot be set is ignored.
Emulate(what) == Cmd("set", what)
ApplyProfile(native, bootstrap) ==
  <<Emulate("userAgent")>>
  \o (IF ~native \/ bootstrap THEN <<Emulate("script")>> ELSE <<>>)
  \o (IF native THEN <<Cmd("try", "screen")>> ELSE <<>>)
  \o <<Emulate("focus")>>
ApplyNativeProfile == <<Cmd("command", "getVersion")>> \o ApplyProfile(TRUE, FALSE)
HideAll == [i \in 1..6 |-> Emulate("script")]
EnableStealthMode(headless) ==
  HideAll \o <<Cmd("command", "getVersion")>>
  \o (IF headless THEN <<Emulate("userAgent")>> ELSE <<>>)
EnableGeolocation == <<Emulate("permission"), Emulate("geolocation")>>
GrantPermissions == <<Emulate("permission"), Emulate("permission")>>
ExposeFunction == <<Emulate("binding"), Emulate("script")>>
EmulateAll == <<Emulate("media"), Emulate("timezone"), Emulate("locale"), Emulate("geolocation")>>

Script(m) ==
  CASE m = "type_text" -> TypeText
    [] m = "type_text_with_typos" -> TypeWithTypo
    [] m = "type_str" -> TypeStr
    [] m = "press_key_combo" -> PressKeyCombo
    [] m = "click_human" -> ClickHuman
    [] m = "right_click" -> RightClick
    [] m = "double_click" -> DoubleClick
    [] m = "drag_human" -> DragHuman
    [] m = "scroll_human" -> ScrollHuman
    [] m = "hover" -> FindElement("a") \o Hover
    [] m = "click_by_text" -> FindXpath("text") \o ClickElement
    [] m = "find_in_shadow_deep" -> FindInShadowDeep
    [] m = "set_input_files" -> SetInputFiles
    [] m = "iter_attributes" -> FindElement("a") \o IterAttributes
    [] m = "locator_click" -> LocatorClick
    [] m = "locator_text" -> LocatorText
    [] m = "screenshot" -> Screenshot(TRUE, TRUE)
    [] m = "element_screenshot" -> FindElement("a") \o ElementScreenshot
    [] m = "set_cookies" -> SetCookies(TRUE)
    [] m = "set_cookies_invalid" -> SetCookies(FALSE)
    [] m = "delete_cookies" -> DeleteCookies
    [] m = "evaluate" -> Evaluate
    [] m = "evaluate_function" -> EvaluateFunction
    [] m = "get_title" -> GetTitle
    [] m = "content" -> Content
    [] m = "reload" -> Reload
    [] m = "set_content" -> SetContent
    [] m = "evaluate_stealth" -> EvaluateStealth
    [] m = "frame" -> InFrame
    [] m = "select_option" -> SelectOption
    [] m = "apply_profile" -> ApplyProfile(FALSE, TRUE)
    [] m = "apply_native_profile" -> ApplyNativeProfile
    [] m = "enable_stealth_mode" -> EnableStealthMode(TRUE)
    [] m = "enable_geolocation" -> EnableGeolocation
    [] m = "grant_permissions" -> GrantPermissions
    [] m = "expose_function" -> ExposeFunction
    [] m = "emulate" -> EmulateAll

\* The methods that have a script.
AllMethods == {
  "type_text", "type_text_with_typos", "type_str", "press_key_combo", "click_human",
  "right_click", "double_click", "drag_human", "scroll_human", "hover",
  "click_by_text", "find_in_shadow_deep", "set_input_files", "iter_attributes",
  "locator_click", "locator_text", "screenshot", "element_screenshot", "set_cookies",
  "set_cookies_invalid", "delete_cookies", "evaluate", "evaluate_function", "get_title",
  "content", "reload", "set_content", "evaluate_stealth", "frame", "select_option",
  "apply_profile", "apply_native_profile", "enable_stealth_mode", "enable_geolocation",
  "grant_permissions", "expose_function", "emulate"}

ASSUME MethodsHaveScripts == Methods \subseteq AllMethods
ASSUME CallsAreBounded == MaxCalls \in Nat

-----------------------------------------------------------------------------
(* A node is the document it is in and the way to it: selectors, "#" for a shadow
   root.  The results of a call's commands are in its registers. *)

NoNode == [doc |-> 0, path |-> <<>>]
NoScriptContext == [frame |-> "none", doc |-> 0, world |-> "none"]
Registers == [root |-> NoNode, node |-> NoNode, backend |-> NoNode, object |-> NoNode,
              context |-> NoScriptContext, first |-> NoScriptContext]
Document == [doc |-> docs["main"], path |-> <<>>]
Under(node, step) == [node EXCEPT !.path = Append(@, step)]

Running == call.status = "running"
Cleaning == call.status = "cleaning"
Busy == Running \/ Cleaning
Current == Head(call.script)
IsLive(node) == node.doc = docs["main"]
HasContext(c) == c # NoScriptContext /\ docs[c.frame] = c.doc
InMain(doc, world) == [frame |-> "main", doc |-> doc, world |-> world]
OrDefault(c) == IF c = NoScriptContext THEN InMain(docs["main"], "main") ELSE c

\* What a command needs to be served.
CanServe(cmd) ==
  CASE cmd.do \in {"query", "shadowRoot"} ->
         IsLive(IF cmd.do = "query" THEN call.regs.root ELSE call.regs.node)
    [] cmd.do = "describe" -> IsLive(call.regs.node)
    [] cmd.do \in {"resolve", "onBackend"} -> IsLive(call.regs.backend)
    [] cmd.do = "callOn" -> IsLive(call.regs.object)
    [] cmd.do = "isolate" -> docs[cmd.arg] > 0
    [] cmd.do = "evaluate" -> call.regs.context = NoScriptContext \/ HasContext(call.regs.context)
    [] cmd.do = "callIn" -> HasContext(call.regs.context)
    [] cmd.do = "validate" -> cmd.arg
    [] OTHER -> TRUE

\* One override of the device metrics replaces the other, and clearing is for both.
Metrics == {"metrics", "screen"}

\* What it changes in the browser
Effect(cmd) ==
  /\ input' = CASE cmd.do = "keyDown" -> [input EXCEPT !.keys = @ \cup {cmd.arg}]
                [] cmd.do = "keyUp" -> [input EXCEPT !.keys = @ \ {cmd.arg}]
                [] cmd.do = "mouse" /\ cmd.arg # "moved" -> [input EXCEPT !.button = cmd.arg]
                [] OTHER -> input
  /\ overrides' =
       LET others == IF cmd.arg \in Metrics THEN overrides \ Metrics ELSE overrides
       IN CASE cmd.do \in {"set", "try"} -> others \cup {cmd.arg}
            [] cmd.do = "clear" -> others \ {cmd.arg}
            [] OTHER -> overrides
  /\ cookie' = IF cmd.do = "cookie" THEN cmd.arg ELSE cookie
  /\ ran' = IF cmd.do \in {"evaluate", "callIn"}
            THEN ran \cup {[method |-> call.method,
                            frame |-> OrDefault(call.regs.context).frame,
                            world |-> OrDefault(call.regs.context).world,
                            found |-> call.regs.first.world]}
            ELSE ran
  /\ UNCHANGED docs

\* The Target knows contexts by events and may be late.
Known(world) == {NoScriptContext} \cup {InMain(d, world) : d \in 1..docs["main"]}

\* The context c, or one that is looked up in its place
LookedUp(r, c, world) ==
  {[r EXCEPT !.context = k] : k \in IF c = NoScriptContext THEN Known(world) ELSE {c}}

\* What the caller learns
Learnt(cmd, r) ==
  CASE cmd.do = "getDocument" -> {[r EXCEPT !.root = Document]}
    [] cmd.do = "query" -> {[r EXCEPT !.node = Under(r.root, cmd.arg)]}
    [] cmd.do = "performSearch" -> {[r EXCEPT !.node = Under(Document, cmd.arg)]}
    [] cmd.do = "shadowRoot" -> {[r EXCEPT !.root = Under(r.node, "#")]}
    [] cmd.do = "describe" -> {[r EXCEPT !.backend = r.node]}
    [] cmd.do = "resolve" -> {[r EXCEPT !.object = r.backend]}
    [] cmd.do = "isolate" ->
         {[r EXCEPT !.context = [frame |-> cmd.arg, doc |-> docs[cmd.arg], world |-> "chaser"]]}
    [] cmd.do = "context" -> {[r EXCEPT !.context = c, !.first = c] : c \in Known(cmd.arg)}
    [] cmd.do = "contextAgain" -> LookedUp(r, r.context, cmd.arg)
    [] cmd.do = "contextOfFirst" -> LookedUp(r, r.first, cmd.arg)
    [] OTHER -> {r}

-----------------------------------------------------------------------------
(* Actions *)

StartCall(m) ==
  /\ ~Busy /\ calls < MaxCalls /\ calls' = calls + 1
  /\ call' = [method |-> m, script |-> Script(m), done |-> 0, regs |-> Registers,
              cookie |-> cookie, status |-> "running"]
  /\ UNCHANGED <<browserVars, ran, mishap>>

\* A command is sent, served and answered.
Served ==
  /\ Busy /\ CanServe(Current)
  /\ Effect(Current)
  /\ \E r \in Learnt(Current, call.regs) :
       call' = [call EXCEPT !.script = Tail(@), !.done = @ + 1, !.regs = r,
                  !.status = IF Tail(call.script) # <<>> THEN @
                             ELSE IF Running THEN "ok" ELSE "failed"]
  /\ UNCHANGED <<calls, mishap>>

\* wait_for_selector tries again, from the document on, while there is time.
Lookup == FindElement("a")
LookingUp == call.method \in {"locator_click", "locator_text"} /\ call.done < Len(Lookup)
WaitForSelector ==
  call' = [call EXCEPT !.script = Script(call.method), !.done = 0, !.regs = Registers]

\* The caller sees an error, which ends the call unless it is ignored.  press_key_combo
\* releases what it holds; find_xpath takes the first of no results.
HeldCount == IF call.done < Len(Modifiers) THEN call.done ELSE Len(Modifiers)
Ends ==
  call' =
    IF Cleaning \/ Current.do = "try"
    THEN [call EXCEPT !.script = Tail(@),
            !.status = IF Tail(call.script) = <<>> THEN "failed" ELSE @]
    ELSE IF call.method = "press_key_combo" /\ HeldCount > 0
    THEN [call EXCEPT !.script = ReleaseKeys(HeldCount), !.status = "cleaning"]
    ELSE [call EXCEPT !.status = IF Current.do = "first" THEN "panicked" ELSE "failed"]

Failed == Ends \/ (LookingUp /\ WaitForSelector)

LooksUp(cmd) == cmd.do \in {"context", "contextAgain", "contextOfFirst"}
CanFail(cmd) == ~LooksUp(cmd) /\ cmd.do # "validate"

\* The browser refuses it, the element is not there, or it never gets out.
Refused ==
  /\ Busy /\ (CanFail(Current) \/ ~CanServe(Current))
  /\ Failed
  /\ mishap' = IF mishap = "lost" \/ Cleaning THEN "lost" ELSE "failed"
  /\ UNCHANGED <<calls, browserVars, ran>>

\* It is served, and the answer is not seen in time.
AnswerLost ==
  /\ Busy /\ CanServe(Current)
  /\ CanFail(Current) /\ Current.do \notin {"lookup", "first"}
  /\ Effect(Current) /\ Failed /\ mishap' = "lost"
  /\ UNCHANGED calls

\* The future of the call is dropped.
Dropped ==
  /\ Busy /\ call' = [call EXCEPT !.status = "dropped"] /\ mishap' = "lost"
  /\ UNCHANGED <<calls, browserVars, ran>>

\* The main frame's next document takes the sub-frame with it.
DocumentNavigates ==
  /\ docs["main"] < MaxDoc
  /\ docs' = [docs EXCEPT !["main"] = @ + 1, !["sub"] = 0]
  /\ UNCHANGED <<call, calls, input, overrides, cookie, ran, mishap>>

SubFrameChanges ==
  /\ \E n \in {0, docs["main"]} : docs["sub"] # n /\ docs' = [docs EXCEPT !["sub"] = n]
  /\ UNCHANGED <<call, calls, input, overrides, cookie, ran, mishap>>

OpsInit ==
  /\ call = [method |-> "none", script |-> <<>>, done |-> 0, regs |-> Registers,
             cookie |-> "old", status |-> "ok"]
  /\ calls = 0
  /\ input = [keys |-> {}, button |-> "up"] /\ overrides = {} /\ cookie = "old"
  /\ docs = [f \in {"main", "sub"} |-> 1]
  /\ ran = {} /\ mishap = "none"

OpsNext ==
  \/ \E m \in Methods : StartCall(m)
  \/ Served \/ Refused \/ AnswerLost \/ Dropped \/ DocumentNavigates \/ SubFrameChanges

OpsSpec == OpsInit /\ [][OpsNext]_pageOpsVars

-----------------------------------------------------------------------------
(* Properties *)

OpsTypeOK ==
  /\ call.status \in {"running", "cleaning", "ok", "failed", "panicked", "dropped"}
  /\ DOMAIN call.regs = DOMAIN Registers /\ calls \in 0..MaxCalls
  /\ input.button \in {"up", "left", "right"} /\ DOMAIN docs = {"main", "sub"}
  /\ cookie \in {"old", "none", "new"} /\ mishap \in {"none", "failed", "lost"}

\* Between calls the browser's input is neutral again and no override for a screenshot
\* is left, if the calls succeeded.  If some failed, but no answer was lost, no call
\* dropped and no release refused, at least no modifier is still down.  A set_cookies
\* that is turned away has deleted nothing.
NothingStaysBehind ==
  ~Busy =>
    /\ mishap = "none" => /\ input = [keys |-> {}, button |-> "up"]
                          /\ overrides \cap {"metrics", "background"} = {}
    /\ mishap # "lost" => \A i \in 1..Len(Modifiers) : Modifiers[i] \notin input.keys
    /\ call.method = "set_cookies_invalid" => cookie = call.cookie

\* The way a lookup should have taken.
Way(m) ==
  CASE m = "find_in_shadow_deep" -> <<"outer", "#", "inner", "#", "target">>
    [] m = "click_by_text" -> <<"text">>
    [] m = "set_input_files" -> <<"input">>
    [] m = "select_option" -> <<"select">>
    [] OTHER -> <<"a">>

\* The three handles of an element a finished call has worked on are those of one node,
\* the one its selectors lead to, though documents were replaced during the lookup.
HandlesAgree ==
  call.status = "ok" /\ call.regs.object # NoNode =>
    /\ call.regs.node = call.regs.backend /\ call.regs.backend = call.regs.object
    /\ call.regs.node.path = Way(call.method)

\* set_content is meant for the utility world, and for the main one if the Target knew
\* of no utility world; ChaserPage has a world of its own.
WorldAsked(r) ==
  CASE r.method \in {"evaluate_stealth", "frame", "select_option"} -> "chaser"
    [] r.method = "set_content" /\ r.found # "none" -> "util"
    [] OTHER -> "main"

\* Scripts ran in the frame and in the world they were meant for, those of ChaserPage
\* never in the world of the page, though frames and contexts go while they are on their
\* way, the Target knows of a context late, and an expression is tried as a function.
ScriptsRunWhereAsked ==
  \A r \in ran :
    /\ r.frame = IF r.method = "frame" THEN "sub" ELSE "main"
    /\ r.world = WorldAsked(r)
=============================================================================
