----------------------------- MODULE PageProofs -----------------------------
(***************************************************************************)
(* The methods of Page, Element and ChaserPage for every number of calls,  *)
(* of documents and of mishaps, and the waits and the dialog handlers of   *)
(* ChaserPage for every set of items, any length of the queues and any     *)
(* order of the page, the tasks and the clock.                             *)
(*                                                                         *)
(* The first part is about scripts as sequences: each is put together from *)
(* pieces, and every piece gives back what it takes.                       *)
(***************************************************************************)
EXTENDS PageOps, Waits, TLAPS


-----------------------------------------------------------------------------
(* Scripts.  A command and what undoes it *)

Keys == {"text", "Backspace", "a", "b", "Control", "Shift", "Tab"}
Buttons == {"moved", "up", "left", "right"}
Selectors == {"a", "outer", "inner", "target", "input", "select", "text", "#"}
Questions == {
  "url", "mainframe", "frames", "frameUrl", "frameName", "waitForNavigation", "reload",
  "getSearchResults", "discardSearchResults", "activateTarget", "getLayoutMetrics",
  "captureScreenshot", "getVersion"}
Overrides == {
  "metrics", "background", "screen", "userAgent", "script", "focus", "permission",
  "geolocation", "binding", "media", "timezone", "locale"}
Cookies == {"old", "none", "new"}
Worlds == {"main", "sub", "util", "chaser", "none"}
Args == Keys \cup Buttons \cup Selectors \cup Questions \cup Overrides \cup Cookies \cup Worlds \cup BOOLEAN
Deeds == {"keyDown", "keyUp", "mouse", "lookup", "set", "clear", "command", "ask", "onBackend",
          "callOn", "cookie", "validate"}
Finding == {"getDocument", "query", "performSearch", "first", "shadowRoot", "describe", "resolve"}
Looking == {"isolate", "context", "contextAgain", "contextOfFirst"}
Scripting == Looking \cup {"evaluate", "callIn"}
Dos == Deeds \cup Finding \cup Scripting \cup {"try"}

Commands ==
  {c \in [do : Dos, arg : Args] :
     /\ c.do = "isolate" => c.arg \in {"main", "sub"}
     /\ c.do = "try" => c.arg = "screen"
     /\ c.do = "mouse" => c.arg \in Buttons
     /\ c.do = "cookie" => c.arg \in Cookies}
IsModifier(key) == key \in {"Control", "Shift"}

IsOpening(c) ==
  \/ c.do = "keyDown"
  \/ c.do = "mouse" /\ c.arg \notin {"moved", "up"}
  \/ c.do = "set" /\ c.arg \in {"metrics", "background"}
Undoes(d, c) ==
  \/ c.do = "keyDown" /\ d.do = "keyUp" /\ d.arg = c.arg
  \/ c.do = "mouse" /\ d.do = "mouse" /\ d.arg = "up"
  \/ c.do = "set" /\ d.do = "clear" /\ d.arg = c.arg

\* What a script presses or sets it releases or clears again.
ClosedScript(s) ==
  \A i \in 1..Len(s) : IsOpening(s[i]) => \E j \in 1..Len(s) : j > i /\ Undoes(s[j], s[i])

Piece(s, dos) ==
  /\ s \in Seq(Commands) /\ ClosedScript(s)
  /\ \A n \in 1..Len(s) : s[n].do \in dos /\ (s[n].do = "keyDown" => ~IsModifier(s[n].arg))

Part(s, dos) == Piece(s, dos) /\ s # <<>>

\* A piece that leaves some of it to what follows.
ClosedBut(s, open) ==
  \A i \in 1..Len(s) : IsOpening(s[i]) =>
    s[i] \in open \/ \E j \in 1..Len(s) : j > i /\ Undoes(s[j], s[i])
Loose(s, dos, open) ==
  /\ s \in Seq(Commands) /\ ClosedBut(s, open) /\ s # <<>>
  /\ \A n \in 1..Len(s) : s[n].do \in dos /\ (s[n].do = "keyDown" => ~IsModifier(s[n].arg))

-----------------------------------------------------------------------------
(* What the calls keep: the invariant *)

Nodes == [doc : Nat, path : Seq(Args)]
ScriptContexts == [frame : Args, doc : Nat, world : Args]
RegisterRecords ==
  [root : Nodes, node : Nodes, backend : Nodes, object : Nodes, context : ScriptContexts,
   first : ScriptContexts]
Calls ==
  [method : Methods \cup {"none"}, script : Seq(Commands), done : Nat, regs : RegisterRecords,
   cookie : Args, status : {"running", "cleaning", "ok", "failed", "panicked", "dropped"}]
Inputs == [keys : SUBSET Args, button : Buttons \ {"moved"}]

OpsTypes ==
  /\ call \in Calls /\ input \in Inputs /\ overrides \in SUBSET Args /\ cookie \in Cookies
  /\ calls \in 0..MaxCalls /\ docs \in [{"main", "sub"} -> Nat] /\ mishap \in {"none", "failed", "lost"}

\* The script is what is left of the method's after `done` commands, or what is left of
\* the modifiers' release; only a native profile skips a command.
LeftOf(s, whole, n) ==
  /\ Len(s) + n = Len(whole)
  /\ \A k \in 1..Len(s) : s[k] = whole[k + n]

ScriptInv ==
  /\ Busy => call.method \in Methods /\ call.script # <<>> /\ ClosedScript(call.script)
  /\ call.status = "ok" => call.script = <<>>
  /\ call.status \in {"running", "ok"} /\ call.method \notin {"none", "apply_native_profile"} =>
       LeftOf(call.script, Script(call.method), call.done)
  /\ Running /\ call.method = "apply_native_profile" =>
       Piece(call.script, Deeds \cup {"try"})
  /\ Cleaning => /\ call.method = "press_key_combo" /\ mishap # "none"
                 /\ \A n \in 1..Len(call.script) : call.script[n].do = "keyUp"

\* What the script still releases or clears.
LetsUp(key) == \E n \in 1..Len(call.script) : call.script[n] = Up(key)
Clears(what) == \E n \in 1..Len(call.script) : call.script[n] = Cmd("clear", what)
LetsGo == \E n \in 1..Len(call.script) : call.script[n] = Cmd("mouse", "up")

\* Without a mishap everything is released by what is left of the script.
OwedInv ==
  mishap = "none" =>
    /\ call.status \in {"running", "ok"}
    /\ \A key \in input.keys : LetsUp(key)
    /\ input.button = "up" \/ LetsGo
    /\ \A what \in overrides \cap {"metrics", "background"} : Clears(what)

\* Unless an answer is lost the modifiers are.
HeldInv ==
  mishap # "lost" =>
    /\ ~Busy => \A key \in input.keys : ~IsModifier(key)
    /\ Busy => \A key \in input.keys : IsModifier(key) => LetsUp(key)
    /\ Running => \A key \in input.keys : IsModifier(key) =>
                     /\ call.method = "press_key_combo"
                     /\ (key = "Control" /\ call.done > 0) \/ (key = "Shift" /\ call.done > 1)

\* The urls are validated before the first cookie is touched.
CookieInv ==
  call.method = "set_cookies_invalid" => cookie = call.cookie /\ (Busy => call.done < 2)

-----------------------------------------------------------------------------
(* Where scripts run *)

Stealthy == {"evaluate_stealth", "frame", "select_option"}
AskedFrame(m) == IF m = "frame" THEN "sub" ELSE "main"
Suits(m, first) ==
  \/ first = NoScriptContext
  \/ first.frame = "main" /\ first.world = IF m = "set_content" THEN "util" ELSE "main"

\* The registers hold a context a script may run in.
Fits(m, r) ==
  \/ /\ r.context = NoScriptContext /\ m \notin Stealthy
     /\ m = "set_content" => r.first = NoScriptContext
  \/ /\ r.context.frame = AskedFrame(m)
     /\ r.context.world = WorldAsked([method |-> m, found |-> r.first.world])

\* Commands after which they do
Settling == {"isolate", "contextAgain", "contextOfFirst"}

GuardedAt(m, s, r, n) ==
  /\ s[n].do \in {"evaluate", "callIn"} =>
       Fits(m, r) \/ \E j \in 1..(n - 1) : s[j].do \in Settling
  /\ s[n].do = "isolate" => m \in Stealthy /\ s[n].arg = AskedFrame(m)
  /\ s[n].do = "context" =>
       /\ m \notin Stealthy /\ s[n].arg = IF m = "set_content" THEN "util" ELSE "main"
       /\ n < Len(s) /\ s[n + 1].do = "contextAgain"
  /\ s[n].do = "contextAgain" =>
       /\ m \notin Stealthy /\ s[n].arg = "main"
       /\ IF n = 1 THEN r.context = r.first ELSE s[n - 1].do = "context"
  /\ s[n].do = "contextOfFirst" =>
       m \notin Stealthy \cup {"set_content"} /\ s[n].arg = "main"
Guarded(m, s, r) == \A n \in 1..Len(s) : GuardedAt(m, s, r, n)

WorldInv ==
  /\ ScriptsRunWhereAsked
  /\ Running => /\ Guarded(call.method, call.script, call.regs)
                /\ Suits(call.method, call.regs.first)

-----------------------------------------------------------------------------
(* The handles of an element *)

ElementFinders == {"hover", "set_input_files", "iter_attributes", "locator_click", "locator_text",
                   "element_screenshot", "select_option"}
Finders == ElementFinders \cup {"click_by_text", "find_in_shadow_deep"}

\* After n commands of FindElement.
FoundElement(way, n, r) ==
  /\ n = 1 => r.root.path = <<>>
  /\ n >= 2 => r.node.path = way
  /\ n >= 3 => r.backend = r.node
  /\ IF n >= 4 THEN r.object = r.node ELSE r.object = NoNode

FoundXpath(way, n, r) ==
  /\ n >= 2 => r.node.path = way
  /\ n >= 6 => r.backend = r.node
  /\ IF n >= 7 THEN r.object = r.node ELSE r.object = NoNode

FoundInShadow(n, r) ==
  /\ n = 1 => r.root.path = <<>>
  /\ n \in 2..5 => r.node.path = <<"outer">>
  /\ n = 5 => r.root.path = <<"outer", "#">>
  /\ n \in 6..9 => r.node.path = <<"outer", "#", "inner">>
  /\ n = 9 => r.root.path = <<"outer", "#", "inner", "#">>
  /\ n >= 10 => r.node.path = <<"outer", "#", "inner", "#", "target">>
  /\ n >= 11 => r.backend = r.node
  /\ n >= 12 => r.object = r.node

HandleInv ==
  call.status \in {"running", "ok"} =>
    /\ call.method \in ElementFinders =>
         FoundElement(Way(call.method), call.done, call.regs)
    /\ call.method = "click_by_text" => FoundXpath(Way(call.method), call.done, call.regs)
    /\ call.method = "find_in_shadow_deep" => FoundInShadow(call.done, call.regs)
    /\ call.method \notin Finders => call.regs.object = NoNode

OpsInv == OpsTypes /\ ScriptInv /\ OwedInv /\ HeldInv /\ CookieInv /\ WorldInv /\ HandleInv

-----------------------------------------------------------------------------
(* Pieces of scripts *)

LEMMA ConcatParts ==
  ASSUME NEW a \in Seq(Commands), NEW b \in Seq(Commands)
  PROVE  /\ a \o b \in Seq(Commands) /\ Len(a \o b) = Len(a) + Len(b)
         /\ \A n \in 1..Len(a) : (a \o b)[n] = a[n]
         /\ \A n \in 1..Len(b) : (a \o b)[Len(a) + n] = b[n]
         /\ \A n \in 1..Len(a \o b) : n \in 1..Len(a) \/ n - Len(a) \in 1..Len(b)
OBVIOUS

\* What the first leaves open the second undoes or leaves open too.
LEMMA ConcatBut ==
  ASSUME NEW a \in Seq(Commands), NEW b \in Seq(Commands), NEW X, NEW Y, NEW Z,
         ClosedBut(a, X), ClosedBut(b, Y), Y \subseteq Z,
         \A c \in X : c \in Z \/ \E j \in 1..Len(b) : Undoes(b[j], c)
  PROVE  ClosedBut(a \o b, Z)
<1> SUFFICES ASSUME NEW i \in 1..Len(a \o b), IsOpening((a \o b)[i]), (a \o b)[i] \notin Z
             PROVE  \E j \in 1..Len(a \o b) : j > i /\ Undoes((a \o b)[j], (a \o b)[i])
  BY DEF ClosedBut
<1>1. Len(a) \in Nat /\ Len(b) \in Nat
  OBVIOUS
<1>4. \A j \in 1..Len(b) :
        Len(a) + j \in 1..Len(a \o b) /\ (a \o b)[Len(a) + j] = b[j]
  BY <1>1, ConcatParts
<1>2. CASE i \in 1..Len(a)
  <2>1. (a \o b)[i] = a[i]
    BY <1>2, ConcatParts
  <2>2. CASE a[i] \in X
    <3>1. PICK j \in 1..Len(b) : Undoes(b[j], a[i])
      BY <2>1, <2>2
    <3>2. Len(a) + j \in 1..Len(a \o b) /\ (a \o b)[Len(a) + j] = b[j]
      BY <1>4
    <3>3. Len(a) + j > i
      BY <1>1, <1>2
    <3> QED BY <2>1, <3>1, <3>2, <3>3
  <2>3. CASE a[i] \notin X
    <3>1. PICK j \in 1..Len(a) : j > i /\ Undoes(a[j], a[i])
      BY <1>2, <2>1, <2>3 DEF ClosedBut
    <3> QED BY <1>1, <1>2, <3>1, ConcatParts
  <2> QED BY <2>2, <2>3
<1>3. CASE i - Len(a) \in 1..Len(b)
  <2>1. (a \o b)[i] = b[i - Len(a)]
    <3>1. i = Len(a) + (i - Len(a))
      BY <1>1
    <3> QED BY <1>3, <1>4, <3>1
  <2>2. PICK j \in 1..Len(b) : j > i - Len(a) /\ Undoes(b[j], b[i - Len(a)])
    BY <1>3, <2>1 DEF ClosedBut
  <2>3. Len(a) + j \in 1..Len(a \o b) /\ Len(a) + j > i /\ (a \o b)[Len(a) + j] = b[j]
    BY <1>1, <1>4, <2>2
  <2> QED BY <2>1, <2>2, <2>3
<1> QED BY <1>2, <1>3, ConcatParts

LEMMA LooseConcat ==
  ASSUME NEW a, NEW b, NEW D, NEW X, NEW Y, NEW Z, Loose(a, D, X), Loose(b, D, Y),
         Y \subseteq Z, \A c \in X : c \in Z \/ \E j \in 1..Len(b) : Undoes(b[j], c)
  PROVE  Loose(a \o b, D, Z)
<1>1. a \in Seq(Commands) /\ b \in Seq(Commands) /\ a # <<>>
  BY DEF Loose
<1>2. a \o b \in Seq(Commands) /\ ClosedBut(a \o b, Z)
  BY <1>1, ConcatParts, ConcatBut DEF Loose
<1>3. ASSUME NEW n \in 1..Len(a \o b)
      PROVE  (a \o b)[n].do \in D /\ ((a \o b)[n].do = "keyDown" => ~IsModifier((a \o b)[n].arg))
  <2>1. CASE n \in 1..Len(a)
    BY <1>1, <2>1, ConcatParts DEF Loose
  <2>2. CASE n - Len(a) \in 1..Len(b)
    <3>1. n = Len(a) + (n - Len(a))
      BY <1>1
    <3>2. (a \o b)[n] = b[n - Len(a)]
      BY <1>1, <2>2, <3>1, ConcatParts
    <3> QED BY <2>2, <3>2 DEF Loose
  <2> QED BY <1>1, <2>1, <2>2, ConcatParts
<1>4. a \o b # <<>>
  <2>1. Len(a) \in Nat \ {0} /\ Len(b) \in Nat
    BY <1>1
  <2> QED BY <1>1, <1>2, <2>1, ConcatParts
<1> QED BY <1>2, <1>3, <1>4 DEF Loose

LEMMA PartIsLoose == ASSUME NEW s, NEW D PROVE Part(s, D) <=> Loose(s, D, {})
BY DEF Part, Piece, Loose, ClosedScript, ClosedBut

LEMMA LooseOne ==
  ASSUME NEW D, NEW c \in Commands, c.do \in D, c.do # "keyDown" PROVE Loose(<<c>>, D, {c})
<1>1. <<c>> \in Seq(Commands) /\ Len(<<c>>) = 1 /\ <<c>>[1] = c
  OBVIOUS
<1> QED BY <1>1 DEF Loose, ClosedBut

\* The empty piece adds nothing.
LEMMA NoPart == ASSUME NEW s \in Seq(Commands) PROVE s \o <<>> = s
OBVIOUS

LEMMA PartConcat ==
  ASSUME NEW a, NEW b, NEW D, Part(a, D), Part(b, D) PROVE Part(a \o b, D)
<1>1. Loose(a, D, {}) /\ Loose(b, D, {})
  BY PartIsLoose
<1>2. Loose(a \o b, D, {})
  BY <1>1, LooseConcat
<1> QED BY <1>2, PartIsLoose

LEMMA PartWider ==
  ASSUME NEW s, NEW D, NEW E, Part(s, D), D \subseteq E PROVE Part(s, E)
BY DEF Part, Piece

LEMMA Pair ==
  ASSUME NEW c \in Commands, NEW d \in Commands, NEW D, c.do \in D, d.do \in D,
         ~IsOpening(c) \/ Undoes(d, c), ~IsOpening(d), c.do = "keyDown" => ~IsModifier(c.arg)
  PROVE  Piece(<<c, d>>, D)
<1>1. <<c, d>> \in Seq(Commands) /\ Len(<<c, d>>) = 2 /\ <<c, d>>[1] = c /\ <<c, d>>[2] = d
  OBVIOUS
<1>2. ClosedScript(<<c, d>>)
  BY <1>1 DEF ClosedScript
<1> QED BY <1>1, <1>2 DEF Piece, IsOpening

LEMMA Fields == ASSUME NEW do, NEW arg PROVE Cmd(do, arg).do = do /\ Cmd(do, arg).arg = arg
BY DEF Cmd

LEMMA AreCommands ==
  ASSUME NEW do \in Dos, NEW arg \in Args, do = "isolate" => arg \in {"main", "sub"},
         do = "try" => arg = "screen", do = "mouse" => arg \in Buttons,
         do = "cookie" => arg \in Cookies
  PROVE  Cmd(do, arg) \in Commands
<1>1. Cmd(do, arg) \in [do : Dos, arg : Args]
  BY DEF Cmd
<1> QED BY <1>1, Fields DEF Commands

\* A command and what undoes it.
LEMMA Undone ==
  ASSUME NEW do \in Dos, NEW arg \in Args, NEW undo \in Dos, NEW back \in Args,
         NEW D, do \in D, undo \in D,
         \/ do = "keyDown" /\ undo = "keyUp" /\ back = arg /\ ~IsModifier(arg)
         \/ do = "mouse" /\ arg \in Buttons /\ undo = "mouse" /\ back = "up"
         \/ do = "set" /\ undo = "clear" /\ back = arg
  PROVE  Piece(<<Cmd(do, arg), Cmd(undo, back)>>, D)
<1> DEFINE c == Cmd(do, arg)
           d == Cmd(undo, back)
<1>1. c \in Commands /\ d \in Commands
  BY AreCommands DEF Buttons
<1>2. c.do = do /\ c.arg = arg /\ d.do = undo /\ d.arg = back
  BY Fields
<1> HIDE DEF c, d
<1>3. ~IsOpening(d) /\ Undoes(d, c)
  BY <1>2 DEF IsOpening, Undoes
<1>4. c.do = "keyDown" => ~IsModifier(c.arg)
  BY <1>2
<1>5. Piece(<<c, d>>, D)
  BY <1>1, <1>2, <1>3, <1>4, Pair
<1> QED BY <1>5 DEF c, d

LEMMA TailParts ==
  ASSUME NEW s \in Seq(Commands), s # <<>>
  PROVE  /\ Tail(s) \in Seq(Commands) /\ Len(Tail(s)) = Len(s) - 1 /\ Len(s) \in Nat \ {0}
         /\ \A n \in 1..Len(Tail(s)) : n + 1 \in 1..Len(s) /\ Tail(s)[n] = s[n + 1]
         /\ \A n \in 1..Len(s) : n = 1 \/ (n - 1 \in 1..Len(Tail(s)) /\ Tail(s)[n - 1] = s[n])
         /\ Head(s) = s[1] /\ Head(s) \in Commands
OBVIOUS

LEMMA ClosedTail ==
  ASSUME NEW s \in Seq(Commands), s # <<>>, ClosedScript(s) PROVE ClosedScript(Tail(s))
<1> SUFFICES ASSUME NEW i \in 1..Len(Tail(s)), IsOpening(Tail(s)[i])
             PROVE  \E j \in 1..Len(Tail(s)) : j > i /\ Undoes(Tail(s)[j], Tail(s)[i])
  BY DEF ClosedScript
<1>1. i + 1 \in 1..Len(s) /\ Tail(s)[i] = s[i + 1]
  BY TailParts
<1>2. PICK j \in 1..Len(s) : j > i + 1 /\ Undoes(s[j], s[i + 1])
  BY <1>1 DEF ClosedScript
<1>3. j - 1 \in 1..Len(Tail(s)) /\ Tail(s)[j - 1] = s[j] /\ j - 1 > i
  BY <1>2, TailParts
<1> QED BY <1>1, <1>2, <1>3

LEMMA PieceTail ==
  ASSUME NEW s, NEW D, Piece(s, D), s # <<>> PROVE Piece(Tail(s), D)
<1>1. s \in Seq(Commands) /\ ClosedScript(s)
  BY DEF Piece
<1>2. Tail(s) \in Seq(Commands) /\ ClosedScript(Tail(s))
  BY <1>1, TailParts, ClosedTail
<1>3. \A n \in 1..Len(Tail(s)) : n + 1 \in 1..Len(s) /\ Tail(s)[n] = s[n + 1]
  BY <1>1, TailParts
<1> QED BY <1>2, <1>3 DEF Piece

LEMMA SomeDeeds ==
  /\ "keyDown" \in Deeds /\ "keyUp" \in Deeds /\ "mouse" \in Deeds /\ "lookup" \in Deeds
  /\ "set" \in Deeds /\ "clear" \in Deeds /\ "command" \in Deeds /\ "ask" \in Deeds
  /\ "onBackend" \in Deeds /\ "callOn" \in Deeds /\ "cookie" \in Deeds /\ "validate" \in Deeds
  /\ Deeds \subseteq Dos
BY DEF Deeds, Dos

LEMMA SomeArgs ==
  /\ Keys \subseteq Args /\ Buttons \subseteq Args /\ Selectors \subseteq Args
  /\ Questions \subseteq Args /\ Overrides \subseteq Args /\ Cookies \subseteq Args
  /\ Worlds \subseteq Args /\ BOOLEAN \subseteq Args /\ "none" \in Args
BY DEF Args, Worlds

Inert(c, dos) == c \in Commands /\ ~IsOpening(c) /\ c.do \in dos

LEMMA InertCmd ==
  ASSUME NEW D, NEW do \in Dos, do \in D, NEW arg \in Args,
         \/ do \notin {"isolate", "keyDown", "mouse", "set", "try", "cookie"}
         \/ do = "cookie" /\ arg \in Cookies
         \/ do = "try" /\ arg = "screen"
         \/ do = "isolate" /\ arg \in {"main", "sub"}
         \/ do = "mouse" /\ arg \in {"moved", "up"}
         \/ do = "set" /\ arg \notin {"metrics", "background"}
  PROVE  Inert(Cmd(do, arg), D)
<1> DEFINE c == Cmd(do, arg)
<1>1. c \in Commands
  BY AreCommands DEF Buttons
<1>2. c.do = do /\ c.arg = arg
  BY Fields
<1> HIDE DEF c
<1>3. Inert(c, D)
  BY <1>1, <1>2 DEF IsOpening, Inert
<1> QED BY <1>3 DEF c

LEMMA InertParts ==
  ASSUME NEW D, NEW s \in Seq(Commands), s # <<>>, \A n \in 1..Len(s) : Inert(s[n], D)
  PROVE  Part(s, D)
BY DEF Part, Piece, ClosedScript, Inert, IsOpening

LEMMA Inert1 == ASSUME NEW D, NEW a, Inert(a, D) PROVE Part(<<a>>, D)
<1>1. <<a>> \in Seq(Commands) /\ <<a>> # <<>> /\ \A n \in 1..Len(<<a>>) : <<a>>[n] = a
  BY DEF Inert
<1> QED BY <1>1, InertParts

LEMMA Inert2 == ASSUME NEW D, NEW a, NEW b, Inert(a, D), Inert(b, D) PROVE Part(<<a, b>>, D)
<1>1. <<a, b>> \in Seq(Commands) /\ <<a, b>> # <<>>
      /\ \A n \in 1..Len(<<a, b>>) : <<a, b>>[n] \in {a, b}
  BY DEF Inert
<1> QED BY <1>1, InertParts

LEMMA Inert4 ==
  ASSUME NEW D, NEW a, NEW b, NEW c, NEW d, Inert(a, D), Inert(b, D), Inert(c, D), Inert(d, D)
  PROVE  Part(<<a, b, c, d>>, D)
<1>1. <<a, b, c, d>> \in Seq(Commands) /\ <<a, b, c, d>> # <<>>
      /\ \A n \in 1..Len(<<a, b, c, d>>) : <<a, b, c, d>>[n] \in {a, b, c, d}
  BY DEF Inert
<1> QED BY <1>1, InertParts

LEMMA Inert5 ==
  ASSUME NEW D, NEW a, NEW b, NEW c, NEW d, NEW e,
         Inert(a, D), Inert(b, D), Inert(c, D), Inert(d, D), Inert(e, D)
  PROVE  Part(<<a, b, c, d, e>>, D)
<1>1. <<a, b, c, d, e>> \in Seq(Commands) /\ <<a, b, c, d, e>> # <<>>
      /\ \A n \in 1..Len(<<a, b, c, d, e>>) : <<a, b, c, d, e>>[n] \in {a, b, c, d, e}
  BY DEF Inert
<1> QED BY <1>1, InertParts

LEMMA OnePart ==
  ASSUME NEW do \in Deeds, NEW arg \in Args,
         \/ do \notin {"keyDown", "mouse", "set", "cookie"}
         \/ do = "cookie" /\ arg \in Cookies
         \/ do = "mouse" /\ arg \in {"moved", "up"}
         \/ do = "set" /\ arg \notin {"metrics", "background"}
  PROVE  Inert(Cmd(do, arg), Deeds) /\ Part(<<Cmd(do, arg)>>, Deeds)
<1>1. do # "isolate" /\ do # "try" /\ do \in Dos
  BY SomeDeeds DEF Deeds
<1>2. Inert(Cmd(do, arg), Deeds)
  BY <1>1, InertCmd
<1> QED BY <1>2, Inert1

LEMMA UndonePart ==
  ASSUME NEW do \in Deeds, NEW arg \in Args, NEW undo \in Deeds, NEW back \in Args,
         \/ do = "keyDown" /\ undo = "keyUp" /\ back = arg /\ ~IsModifier(arg)
         \/ do = "mouse" /\ arg \in Buttons /\ undo = "mouse" /\ back = "up"
         \/ do = "set" /\ undo = "clear" /\ back = arg
  PROVE  Part(<<Cmd(do, arg), Cmd(undo, back)>>, Deeds)
<1>1. do \in Dos /\ undo \in Dos
  BY SomeDeeds
<1>2. Piece(<<Cmd(do, arg), Cmd(undo, back)>>, Deeds)
  BY <1>1, Undone
<1> QED BY <1>2 DEF Part

LEMMA Keyboard ==
  /\ Part(TypeChar, Deeds)
  /\ \A key \in Keys : ~IsModifier(key) => Part(PressKey(key), Deeds) /\ Part(PressDefined(key), Deeds)
<1>1. ASSUME NEW key \in Keys, ~IsModifier(key)
      PROVE  Part(<<Down(key), Up(key)>>, Deeds) /\ Part(PressDefined(key), Deeds)
  <2>1. Part(<<Cmd("keyDown", key), Cmd("keyUp", key)>>, Deeds)
    BY <1>1, SomeDeeds, SomeArgs, UndonePart
  <2>2. Part(<<Cmd("lookup", key)>>, Deeds)
    BY SomeDeeds, SomeArgs, OnePart
  <2>3. Part(PressKey(key), Deeds)
    BY <2>1 DEF Down, Up, PressKey
  <2> QED BY <2>1, <2>2, <2>3, PartConcat DEF Down, Up, PressDefined
<1>2. "text" \in Keys /\ ~IsModifier("text")
  BY DEF IsModifier, Keys
<1> QED BY <1>1, <1>2 DEF TypeChar, PressKey

LEMMA Mouse ==
  /\ Part(Move, Deeds) /\ Part(ClickWith, Deeds) /\ Part(Tail(ClickWith), Deeds)
  /\ Part(RightClick, Deeds) /\ Part(DragHuman, Deeds)
<1> DEFINE left == Cmd("mouse", "left")
           up == Cmd("mouse", "up")
<1>0. \A b \in {"moved", "up", "left", "right"} : b \in Args
  BY SomeArgs DEF Buttons
<1>1. Part(Move, Deeds)
  BY <1>0, SomeDeeds, OnePart DEF Move
<1>2. Part(<<left, up>>, Deeds) /\ Part(RightClick, Deeds)
  BY <1>0, SomeDeeds, UndonePart DEF RightClick, Buttons
<1>3. Part(ClickWith, Deeds)
  BY <1>1, <1>2, PartConcat DEF ClickWith
<1>4. Part(Tail(ClickWith), Deeds)
  <2>1. Len(<<Cmd("mouse", "moved")>> \o <<left, up>>) = 3
    OBVIOUS
  <2>2. ClickWith \in Seq(Commands) /\ ClickWith # <<>> /\ Len(ClickWith) = 3
    BY <1>3, <2>1 DEF Part, Piece, ClickWith, Move
  <2>3. Len(Tail(ClickWith)) = 2
    BY <2>2, TailParts
  <2>4. Tail(ClickWith) # <<>>
    BY <2>3
  <2> QED BY <1>3, <2>4, PieceTail DEF Part
<1>5. Part(DragHuman, Deeds)
  <2>1. Part(MoveMouseHuman, Deeds)
    BY <1>1, PartConcat DEF MoveMouseHuman
  <2>2. left \in Commands /\ Undoes(up, left) /\ left.do = "mouse"
    BY <1>0, AreCommands, Fields, SomeDeeds DEF Undoes, Buttons
  <2>3. Loose(<<left>>, Deeds, {left})
    BY <2>2, SomeDeeds, LooseOne
  <2>4. Loose(Move, Deeds, {}) /\ Loose(MoveMouseHuman, Deeds, {})
    BY <1>1, <2>1, PartIsLoose
  <2>5. Loose(MoveMouseHuman \o <<left>>, Deeds, {left})
    BY <2>3, <2>4, LooseConcat
  <2>6. Loose((MoveMouseHuman \o <<left>>) \o Move, Deeds, {left})
    BY <2>4, <2>5, LooseConcat
  <2>7. Loose(<<up>>, Deeds, {})
    BY <1>0, SomeDeeds, OnePart, PartIsLoose
  <2>8. Len(<<up>>) = 1 /\ <<up>>[1] = up
    OBVIOUS
  <2>9. Loose(((MoveMouseHuman \o <<left>>) \o Move) \o <<up>>, Deeds, {})
    BY <2>2, <2>6, <2>7, <2>8, LooseConcat
  <2> QED BY <2>9, PartIsLoose DEF DragHuman
<1> QED BY <1>1, <1>2, <1>3, <1>4, <1>5

\* Methods of a few deeds.
LEMMA KeyboardScripts ==
  \A m \in {"type_text", "type_text_with_typos", "type_str"} : Part(Script(m), Deeds)
<1>1. Part(TypeText, Deeds)
  BY Keyboard, PartConcat DEF TypeText
<1>2. "Backspace" \in Keys /\ ~IsModifier("Backspace") /\ "a" \in Keys /\ ~IsModifier("a")
      /\ "b" \in Keys /\ ~IsModifier("b")
  BY DEF Keys, IsModifier
<1>3. Part(TypeWithTypo, Deeds)
  BY <1>2, Keyboard, PartConcat DEF TypeWithTypo
<1>4. Part(TypeStr, Deeds)
  BY <1>2, Keyboard, PartConcat DEF TypeStr
<1>5. /\ Script("type_text") = TypeText /\ Script("type_text_with_typos") = TypeWithTypo
      /\ Script("type_str") = TypeStr
  BY DEF Script
<1> QED BY <1>1, <1>3, <1>4, <1>5

LEMMA MouseScripts ==
  \A m \in {"click_human", "right_click", "double_click", "drag_human", "scroll_human"} :
    Part(Script(m), Deeds)
<1>1. Part(MoveMouseHuman, Deeds)
  BY Mouse, PartConcat DEF MoveMouseHuman
<1>2. Part(ClickHuman, Deeds) /\ Part(DoubleClick, Deeds)
  BY <1>1, Mouse, PartConcat DEF ClickHuman, DoubleClick
<1>3. Part(ScrollHuman, Deeds)
  <2>1. "moved" \in Args
    BY SomeArgs DEF Buttons
  <2> QED BY <2>1, SomeDeeds, OnePart, Inert2 DEF ScrollHuman
<1>4. /\ Script("click_human") = ClickHuman /\ Script("right_click") = RightClick
      /\ Script("double_click") = DoubleClick /\ Script("drag_human") = DragHuman
      /\ Script("scroll_human") = ScrollHuman
  BY DEF Script
<1> QED BY <1>2, <1>3, <1>4, Mouse


LEMMA CookieScripts ==
  \A m \in {"set_cookies", "set_cookies_invalid", "delete_cookies"} : Part(Script(m), Deeds)
<1>1. \A a \in {"url", "none", "new", TRUE, FALSE} : a \in Args
  BY SomeArgs DEF Questions, Cookies
<1>2. \A valid \in BOOLEAN : Part(SetCookies(valid), Deeds)
  BY <1>1, SomeDeeds, OnePart, Inert4 DEF SetCookies, Cookies
<1>3. Part(DeleteCookies, Deeds)
  BY <1>1, SomeDeeds, OnePart, Inert2 DEF DeleteCookies, Cookies
<1>4. /\ Script("set_cookies") = SetCookies(TRUE) /\ Script("delete_cookies") = DeleteCookies
      /\ Script("set_cookies_invalid") = SetCookies(FALSE)
  BY DEF Script
<1> QED BY <1>2, <1>3, <1>4

\* A setting that is no override for a screenshot.
LEMMA EmulatePart ==
  ASSUME NEW what \in Overrides, what \notin {"metrics", "background"}
  PROVE  Inert(Emulate(what), Deeds) /\ Part(<<Emulate(what)>>, Deeds)
BY SomeDeeds, SomeArgs, OnePart DEF Emulate

LEMMA IdentityScripts ==
  \A m \in {"reload", "apply_profile", "enable_stealth_mode", "enable_geolocation",
            "grant_permissions", "expose_function", "emulate"} : Part(Script(m), Deeds)
<1>1. \A a \in {"userAgent", "script", "focus", "permission", "geolocation", "binding", "media",
                "timezone", "locale"} : Inert(Emulate(a), Deeds) /\ Part(<<Emulate(a)>>, Deeds)
  BY EmulatePart DEF Overrides
<1>2. \A a \in {"reload", "waitForNavigation", "getVersion"} : a \in Args
  BY SomeArgs DEF Questions
<1>3. Part(Reload, Deeds)
  BY <1>2, SomeDeeds, OnePart, Inert2 DEF Reload
<1>4. Part(ApplyProfile(FALSE, TRUE), Deeds)
  <2>1. ApplyProfile(FALSE, TRUE)
          = <<Emulate("userAgent")>> \o <<Emulate("script")>> \o <<>> \o <<Emulate("focus")>>
    BY DEF ApplyProfile
  <2>2. Part(<<Emulate("userAgent")>> \o <<Emulate("script")>>, Deeds)
    BY <1>1, PartConcat
  <2>3. (<<Emulate("userAgent")>> \o <<Emulate("script")>>) \o <<>>
          = <<Emulate("userAgent")>> \o <<Emulate("script")>>
    BY <2>2, NoPart DEF Part, Piece
  <2> QED BY <1>1, <2>1, <2>2, <2>3, PartConcat
<1>5. Part(EnableStealthMode(TRUE), Deeds)
  <2>1. Part(HideAll, Deeds)
    <3> DEFINE c == Emulate("script")
    <3>1. Inert(c, Deeds)
      BY <1>1
    <3> HIDE DEF c
    <3>2. [i \in 1..6 |-> c] \in Seq(Commands) /\ Len([i \in 1..6 |-> c]) = 6
          /\ \A n \in 1..6 : [i \in 1..6 |-> c][n] = c
      BY <3>1 DEF Inert
    <3>3. [i \in 1..6 |-> c] # <<>>
      BY <3>2
    <3> QED BY <3>1, <3>2, <3>3, InertParts DEF HideAll, c
  <2>2. Part(<<Cmd("command", "getVersion")>>, Deeds)
    BY <1>2, SomeDeeds, OnePart
  <2>3. EnableStealthMode(TRUE)
          = HideAll \o <<Cmd("command", "getVersion")>> \o <<Emulate("userAgent")>>
    BY DEF EnableStealthMode
  <2> QED BY <1>1, <2>1, <2>2, <2>3, PartConcat
<1>6. Part(EnableGeolocation, Deeds) /\ Part(GrantPermissions, Deeds) /\ Part(ExposeFunction, Deeds)
  BY <1>1, Inert2 DEF EnableGeolocation, GrantPermissions, ExposeFunction
<1>7. Part(EmulateAll, Deeds)
  BY <1>1, Inert4 DEF EmulateAll
<1>8. /\ Script("reload") = Reload /\ Script("apply_profile") = ApplyProfile(FALSE, TRUE)
      /\ Script("enable_stealth_mode") = EnableStealthMode(TRUE)
      /\ Script("enable_geolocation") = EnableGeolocation
      /\ Script("grant_permissions") = GrantPermissions
      /\ Script("expose_function") = ExposeFunction /\ Script("emulate") = EmulateAll
  BY DEF Script
<1> QED BY <1>3, <1>4, <1>5, <1>6, <1>7, <1>8

LEMMA NativeScript == Part(Script("apply_native_profile"), Deeds \cup {"try"})
<1> DEFINE D == Deeds \cup {"try"}
<1>1. Part(<<Emulate("userAgent")>>, D) /\ Part(<<Emulate("focus")>>, D)
  BY EmulatePart, PartWider DEF Overrides
<1>2. Part(<<Cmd("try", "screen")>>, D)
  BY InertCmd, Inert1, SomeArgs DEF Dos, Overrides
<1>3. Part(<<Cmd("command", "getVersion")>>, D)
  <2>1. "getVersion" \in Args
    BY SomeArgs DEF Questions
  <2> QED BY <2>1, SomeDeeds, OnePart, PartWider
<1>4. ApplyProfile(TRUE, FALSE)
        = <<Emulate("userAgent")>> \o <<>> \o <<Cmd("try", "screen")>> \o <<Emulate("focus")>>
  BY DEF ApplyProfile
<1>5. <<Emulate("userAgent")>> \o <<>> = <<Emulate("userAgent")>>
  BY <1>1, NoPart DEF Part, Piece
<1>6. Part(ApplyProfile(TRUE, FALSE), D)
  BY <1>1, <1>2, <1>4, <1>5, PartConcat
<1>7. Script("apply_native_profile") = ApplyNativeProfile
  BY DEF Script
<1> QED BY <1>3, <1>6, <1>7, PartConcat DEF ApplyNativeProfile


LEMMA ScreenshotParts == Part(Screenshot(TRUE, TRUE), Deeds) /\ Part(Screenshot(FALSE, FALSE), Deeds)
<1> DEFINE activate == Cmd("command", "activateTarget")
           layout == Cmd("command", "getLayoutMetrics")
           capture == Cmd("command", "captureScreenshot")
           metrics == Cmd("set", "metrics")
           background == Cmd("set", "background")
           restored == Cmd("clear", "background")
           resized == Cmd("clear", "metrics")
<1>1. \A a \in {"activateTarget", "getLayoutMetrics", "captureScreenshot", "metrics", "background"} :
        a \in Args
  BY SomeArgs DEF Questions, Overrides
<1>2. \A c \in {activate, layout, capture, restored, resized} :
        Inert(c, Deeds) /\ Part(<<c>>, Deeds)
  BY <1>1, SomeDeeds, OnePart
<1>3. \A c \in {metrics, background} : c \in Commands /\ c.do = "set"
  BY <1>1, SomeDeeds, AreCommands, Fields
<1>4. Undoes(restored, background) /\ Undoes(resized, metrics)
  BY Fields DEF Undoes
<1>5. Screenshot(TRUE, TRUE)
        = <<activate>> \o <<layout, metrics>> \o <<background>> \o <<capture>> \o <<restored>>
          \o <<resized>>
  BY DEF Screenshot
<1>6. Screenshot(FALSE, FALSE) = <<activate>> \o <<>> \o <<>> \o <<capture>> \o <<>> \o <<>>
  BY DEF Screenshot
<1> HIDE DEF activate, layout, capture, metrics, background, restored, resized
<1>7. \A c \in {activate, layout, capture, restored, resized} : Loose(<<c>>, Deeds, {})
  BY <1>2, PartIsLoose
<1>8. Loose(<<background>>, Deeds, {background})
  BY <1>3, SomeDeeds, LooseOne
<1>9. Loose(<<layout, metrics>>, Deeds, {metrics})
  <2>1. <<layout, metrics>> \in Seq(Commands) /\ Len(<<layout, metrics>>) = 2
        /\ <<layout, metrics>>[1] = layout /\ <<layout, metrics>>[2] = metrics
    BY <1>2, <1>3 DEF Inert
  <2> QED BY <1>2, <1>3, <2>1, SomeDeeds DEF Loose, ClosedBut, Inert, IsOpening
<1>10. Loose(<<activate>> \o <<layout, metrics>>, Deeds, {metrics})
  BY <1>7, <1>9, LooseConcat
<1>11. Loose(<<activate>> \o <<layout, metrics>> \o <<background>>, Deeds, {metrics, background})
  BY <1>8, <1>10, LooseConcat
<1>12. Loose(<<activate>> \o <<layout, metrics>> \o <<background>> \o <<capture>>, Deeds,
             {metrics, background})
  BY <1>7, <1>11, LooseConcat
<1>13. Loose(<<activate>> \o <<layout, metrics>> \o <<background>> \o <<capture>> \o <<restored>>,
             Deeds, {metrics})
  <2>1. Len(<<restored>>) = 1 /\ <<restored>>[1] = restored
    OBVIOUS
  <2> QED BY <1>4, <1>7, <1>12, <2>1, LooseConcat
<1>14. Loose(<<activate>> \o <<layout, metrics>> \o <<background>> \o <<capture>> \o <<restored>>
             \o <<resized>>, Deeds, {})
  <2>1. Len(<<resized>>) = 1 /\ <<resized>>[1] = resized
    OBVIOUS
  <2> QED BY <1>4, <1>7, <1>13, <2>1, LooseConcat
<1>15. <<activate>> \o <<>> \o <<>> \o <<capture>> \o <<>> \o <<>> = <<activate>> \o <<capture>>
  <2>1. <<activate>> \in Seq(Commands) /\ <<capture>> \in Seq(Commands)
    BY <1>2 DEF Part, Piece
  <2>2. <<activate>> \o <<>> = <<activate>>
    BY <2>1, NoPart
  <2>3. <<activate>> \o <<capture>> \in Seq(Commands)
    BY <2>1, ConcatParts
  <2> QED BY <2>2, <2>3, NoPart
<1>16. Part(<<activate>> \o <<capture>>, Deeds)
  BY <1>2, PartConcat
<1> QED BY <1>5, <1>6, <1>14, <1>15, <1>16, PartIsLoose

\* The modifiers are released in the order they are given back.
LEMMA Releasing ==
  ASSUME NEW n \in 1..2
  PROVE  /\ ReleaseKeys(n) \in Seq(Commands) /\ Len(ReleaseKeys(n)) = n
         /\ \A i \in 1..n : ReleaseKeys(n)[i] = Up(Modifiers[n + 1 - i])
         /\ \A i \in 1..n : ReleaseKeys(n)[i].do = "keyUp"
<1>1. \A i \in 1..n : n + 1 - i \in 1..2
  OBVIOUS
<1>2. Modifiers[1] = "Control" /\ Modifiers[2] = "Shift"
  BY DEF Modifiers
<1>3. "Control" \in Args /\ "Shift" \in Args
  BY SomeArgs DEF Keys
<1>4. Up("Control") \in Commands /\ Up("Shift") \in Commands
      /\ Up("Control").do = "keyUp" /\ Up("Shift").do = "keyUp"
  BY <1>3, SomeDeeds, AreCommands, Fields DEF Up
<1>5. \A i \in 1..n : Up(Modifiers[n + 1 - i]) \in {Up("Control"), Up("Shift")}
  <2>1. \A k \in 1..2 : Modifiers[k] = "Control" \/ Modifiers[k] = "Shift"
    BY <1>2
  <2> QED BY <1>1, <2>1
<1> HIDE DEF Up
<1>6. \A i \in 1..n : Up(Modifiers[n + 1 - i]) \in Commands
  BY <1>4, <1>5
<1> QED BY <1>4, <1>5, <1>6 DEF ReleaseKeys

LEMMA Combo ==
  /\ PressKeyCombo \in Seq(Commands) /\ PressKeyCombo # <<>> /\ ClosedScript(PressKeyCombo)
  /\ \A n \in 1..Len(PressKeyCombo) : PressKeyCombo[n].do \in Deeds
  /\ PressKeyCombo[1] = Down("Control") /\ PressKeyCombo[2] = Down("Shift")
  /\ \A n \in 3..Len(PressKeyCombo) :
       PressKeyCombo[n].do = "keyDown" => ~IsModifier(PressKeyCombo[n].arg)
<1> DEFINE control == Down("Control")
           shift == Down("Shift")
           R == ReleaseKeys(2)
           P == PressDefined("Tab")
<1>1. "Control" \in Args /\ "Shift" \in Args /\ "Tab" \in Keys /\ ~IsModifier("Tab")
  BY SomeArgs DEF Keys, IsModifier
<1>2. /\ control \in Commands /\ control.do = "keyDown" /\ control.arg = "Control"
      /\ shift \in Commands /\ shift.do = "keyDown" /\ shift.arg = "Shift"
  BY <1>1, SomeDeeds, AreCommands, Fields DEF Down
<1>3. /\ R \in Seq(Commands) /\ Len(R) = 2 /\ R[1] = Up("Shift") /\ R[2] = Up("Control")
      /\ \A n \in 1..2 : R[n].do = "keyUp"
  <2>1. Modifiers[1] = "Control" /\ Modifiers[2] = "Shift"
    BY DEF Modifiers
  <2> HIDE DEF R
  <2>2. Modifiers[2 + 1 - 1] = "Shift" /\ Modifiers[2 + 1 - 2] = "Control"
    BY <2>1
  <2> QED BY <2>2, Releasing DEF R
<1>4. Part(P, Deeds)
  BY <1>1, Keyboard
<1>5. HoldKeys \in Seq(Commands) /\ Len(HoldKeys) = 2 /\ HoldKeys[1] = control /\ HoldKeys[2] = shift
  <2>1. Modifiers[1] = "Control" /\ Modifiers[2] = "Shift" /\ Len(Modifiers) = 2
    BY DEF Modifiers
  <2>2. HoldKeys = [i \in 1..2 |-> Down(Modifiers[i])]
    BY <2>1 DEF HoldKeys
  <2>3. \A i \in 1..2 : Down(Modifiers[i]) = control \/ Down(Modifiers[i]) = shift
    BY <2>1
  <2> HIDE DEF control, shift
  <2>4. \A i \in 1..2 : Down(Modifiers[i]) \in Commands
    BY <1>2, <2>3
  <2>5. Down(Modifiers[1]) = control /\ Down(Modifiers[2]) = shift
    BY <2>1 DEF control, shift
  <2> QED BY <2>2, <2>4, <2>5
<1>6. Undoes(R[1], shift) /\ Undoes(R[2], control)
  BY <1>2, <1>3, Fields DEF Undoes, Up
<1>7. PressKeyCombo = HoldKeys \o P \o R
  <2>1. Len(Modifiers) = 2
    BY DEF Modifiers
  <2> QED BY <2>1 DEF PressKeyCombo
<1> HIDE DEF control, shift, R, P
<1>8. ClosedBut(HoldKeys, {control, shift})
  BY <1>5 DEF ClosedBut
<1>9. P \in Seq(Commands) /\ ClosedBut(P, {}) /\ P # <<>>
  BY <1>4, PartIsLoose DEF Loose
<1>10. ClosedBut(R, {})
  BY <1>3 DEF ClosedBut, IsOpening
<1> DEFINE A == HoldKeys \o P
<1>11. A \in Seq(Commands) /\ ClosedBut(A, {control, shift})
  BY <1>5, <1>8, <1>9, ConcatBut, ConcatParts
<1>13. /\ Len(A) = 2 + Len(P) /\ Len(P) \in Nat
       /\ A[1] = control /\ A[2] = shift
       /\ \A n \in 3..Len(A) : n - 2 \in 1..Len(P) /\ A[n] = P[n - 2]
  <2>1. /\ Len(A) = Len(HoldKeys) + Len(P) /\ Len(P) \in Nat
        /\ \A n \in 1..Len(HoldKeys) : A[n] = HoldKeys[n]
        /\ \A n \in 1..Len(P) : A[Len(HoldKeys) + n] = P[n]
    <3>1. /\ Len(HoldKeys \o P) = Len(HoldKeys) + Len(P)
          /\ \A n \in 1..Len(HoldKeys) : (HoldKeys \o P)[n] = HoldKeys[n]
          /\ \A n \in 1..Len(P) : (HoldKeys \o P)[Len(HoldKeys) + n] = P[n]
      BY <1>5, <1>9, ConcatParts
    <3> QED BY <1>9, <3>1
  <2> HIDE DEF A
  <2>2. A[1] = control /\ A[2] = shift
    BY <1>5, <2>1
  <2>4. ASSUME NEW n \in 3..Len(A) PROVE n - 2 \in 1..Len(P) /\ A[n] = P[n - 2]
    <3>1. n - 2 \in 1..Len(P) /\ n = 2 + (n - 2)
      BY <1>5, <2>1
    <3> QED BY <1>5, <2>1, <3>1
  <2> QED BY <1>5, <2>1, <2>2, <2>4
<1>12. PressKeyCombo = A \o R
  BY <1>7
<1> HIDE DEF A
<1>19. /\ PressKeyCombo \in Seq(Commands) /\ ClosedBut(PressKeyCombo, {})
       /\ Len(PressKeyCombo) = Len(A) + 2
       /\ \A n \in 1..Len(A) : PressKeyCombo[n] = A[n]
       /\ \A n \in 1..2 : PressKeyCombo[Len(A) + n] = R[n]
  <2>1. \A c \in {control, shift} : \E j \in 1..Len(R) : Undoes(R[j], c)
    BY <1>3, <1>6
  <2>2. ClosedBut(A \o R, {})
    BY <1>3, <1>10, <1>11, <2>1, ConcatBut
  <2>3. /\ A \o R \in Seq(Commands) /\ Len(A \o R) = Len(A) + Len(R)
        /\ \A n \in 1..Len(A) : (A \o R)[n] = A[n]
        /\ \A n \in 1..Len(R) : (A \o R)[Len(A) + n] = R[n]
    BY <1>3, <1>11, ConcatParts
  <2> QED BY <1>3, <1>12, <2>2, <2>3
<1>14. ASSUME NEW n \in 1..Len(PressKeyCombo)
       PROVE  \/ n = 1 /\ PressKeyCombo[n] = control
              \/ n = 2 /\ PressKeyCombo[n] = shift
              \/ n > 2 /\ \E k \in 1..Len(P) : PressKeyCombo[n] = P[k]
              \/ n > 2 /\ \E k \in 1..2 : PressKeyCombo[n] = R[k]
  <2>1. CASE n \in 1..Len(A)
    <3>1. n = 1 \/ n = 2 \/ n \in 3..Len(A)
      BY <2>1
    <3> QED BY <1>13, <1>19, <2>1, <3>1
  <2>2. CASE n \notin 1..Len(A)
    <3> DEFINE k == n - Len(A)
    <3>1. k \in 1..2 /\ n = Len(A) + k /\ n > 2
      BY <1>13, <1>19, <2>2
    <3>2. PressKeyCombo[n] = R[k]
      BY <1>19, <3>1
    <3> QED BY <3>1, <3>2
  <2> QED BY <2>1, <2>2
<1>15. Len(PressKeyCombo) \in Nat /\ Len(PressKeyCombo) >= 2
  BY <1>13, <1>19
<1>16. PressKeyCombo[1] = control /\ PressKeyCombo[2] = shift
  BY <1>14, <1>15
<1>17. \A n \in 1..Len(PressKeyCombo) : PressKeyCombo[n].do \in Deeds
  BY <1>2, <1>3, <1>4, <1>14, SomeDeeds DEF Part, Piece
<1>18. \A n \in 3..Len(PressKeyCombo) :
         PressKeyCombo[n].do = "keyDown" => ~IsModifier(PressKeyCombo[n].arg)
  BY <1>3, <1>4, <1>14 DEF Part, Piece
<1> QED BY <1>15, <1>16, <1>17, <1>18, <1>19 DEF ClosedScript, ClosedBut, control, shift


\* Scripts that run JavaScript.  Each makes its context before it uses it.
LEMMA NoScripts ==
  ASSUME NEW m, NEW s, NEW c, \A n \in 1..Len(s) : s[n].do \notin Scripting
  PROVE  Guarded(m, s, c)
BY DEF Guarded, GuardedAt, Scripting, Looking

LEMMA GuardedConcat ==
  ASSUME NEW m, NEW a \in Seq(Commands), NEW b \in Seq(Commands),
         \A n \in 1..Len(a) : a[n].do \notin Scripting, \A c : Guarded(m, b, c)
  PROVE  \A c : Guarded(m, a \o b, c)
<1> DEFINE s == a \o b
<1>1. /\ Len(a) \in Nat /\ Len(b) \in Nat /\ Len(s) = Len(a) + Len(b)
      /\ \A n \in 1..Len(a) : s[n] = a[n]
      /\ \A n \in 1..Len(b) : s[Len(a) + n] = b[n]
  BY ConcatParts
<1> HIDE DEF s
<1> SUFFICES ASSUME NEW c, NEW n \in 1..Len(s) PROVE GuardedAt(m, s, c, n)
  BY DEF Guarded, s
<1>2. CASE n \in 1..Len(a)
  <2>1. s[n].do \notin Scripting
    BY <1>1, <1>2
  <2> QED BY <2>1 DEF Scripting, Looking, GuardedAt
<1>3. CASE n \notin 1..Len(a)
  <2> DEFINE k == n - Len(a)
             r == [context |-> 1, first |-> 2]
  <2>1. k \in 1..Len(b) /\ n = Len(a) + k /\ s[n] = b[k]
    <3>1. k \in 1..Len(b) /\ n = Len(a) + k
      BY <1>1, <1>3
    <3> QED BY <1>1, <3>1
  <2>2. GuardedAt(m, b, c, k) /\ GuardedAt(m, b, r, k)
    BY <2>1 DEF Guarded
  <2>3. ASSUME NEW j \in 1..(k - 1), b[j].do \in Settling
        PROVE  \E i \in 1..(n - 1) : s[i].do \in Settling
    <3>1. j \in 1..Len(b) /\ Len(a) + j \in 1..(n - 1)
      BY <1>1, <2>1
    <3>2. s[Len(a) + j] = b[j]
      BY <1>1, <3>1
    <3> QED BY <2>3, <3>1, <3>2
  <2>4. s[n].do = "contextAgain" => n # 1 /\ s[n - 1].do = "context"
    <3> SUFFICES ASSUME b[k].do = "contextAgain" PROVE n # 1 /\ s[n - 1].do = "context"
      BY <2>1
    <3>1. k # 1 /\ b[k - 1].do = "context"
      BY <2>2 DEF GuardedAt
    <3>2. k - 1 \in 1..Len(b) /\ n - 1 = Len(a) + (k - 1) /\ n # 1
      BY <1>1, <2>1, <3>1
    <3>3. s[n - 1] = b[k - 1]
      BY <1>1, <3>2
    <3> QED BY <3>1, <3>2, <3>3
  <2>5. k < Len(b) => n < Len(s) /\ s[n + 1] = b[k + 1]
    <3> SUFFICES ASSUME k < Len(b) PROVE n < Len(s) /\ s[n + 1] = b[k + 1]
      OBVIOUS
    <3>1. k + 1 \in 1..Len(b) /\ n + 1 = Len(a) + (k + 1) /\ n < Len(s)
      BY <1>1, <2>1
    <3> QED BY <1>1, <3>1
  <2> HIDE DEF k, r
  <2> QED BY <2>1, <2>2, <2>3, <2>4, <2>5 DEF GuardedAt
<1> QED BY <1>2, <1>3

Rest == Deeds \cup Scripting
ScriptWith(m, s) == Part(s, Rest) /\ \A c : Guarded(m, s, c)

LEMMA ConcatAny ==
  ASSUME NEW S, NEW a \in Seq(S), NEW b \in Seq(S)
  PROVE  /\ a \o b \in Seq(S) /\ Len(a \o b) = Len(a) + Len(b)
         /\ \A n \in 1..Len(a) : (a \o b)[n] = a[n]
         /\ \A n \in 1..Len(b) : (a \o b)[Len(a) + n] = b[n]
OBVIOUS

\* A sequence that is two others in a row.
LEMMA InARow ==
  \A S : \A a, b, r \in Seq(S) :
    /\ Len(r) = Len(a) + Len(b)
    /\ \A i \in 1..Len(a) : r[i] = a[i]
    /\ \A i \in 1..Len(b) : r[Len(a) + i] = b[i]
    => a \o b = r
<1> SUFFICES ASSUME NEW S, NEW a \in Seq(S), NEW b \in Seq(S), NEW r \in Seq(S),
                    Len(r) = Len(a) + Len(b), \A i \in 1..Len(a) : r[i] = a[i],
                    \A i \in 1..Len(b) : r[Len(a) + i] = b[i]
             PROVE  a \o b = r
  OBVIOUS
<1>1. Len(a) \in Nat /\ Len(b) \in Nat
  OBVIOUS
<1>2. a \o b \in Seq(S) /\ Len(a \o b) = Len(a) + Len(b) /\ Len(a \o b) = Len(r)
  BY ConcatAny
<1>3. ASSUME NEW i \in 1..Len(a \o b) PROVE (a \o b)[i] = r[i]
  <2>1. CASE i \in 1..Len(a)
    BY <2>1, ConcatAny
  <2>2. CASE i \notin 1..Len(a)
    <3>1. i - Len(a) \in 1..Len(b) /\ Len(a) + (i - Len(a)) = i
      BY <1>1, <1>2, <2>2
    <3>2. r[Len(a) + (i - Len(a))] = b[i - Len(a)]
      BY <3>1
    <3>3. (a \o b)[Len(a) + (i - Len(a))] = b[i - Len(a)]
      BY <3>1, ConcatAny
    <3> QED BY <3>1, <3>2, <3>3
  <2> QED BY <2>1, <2>2
<1> QED BY <1>2, <1>3

LEMMA TwoAndOne ==
  ASSUME NEW a, NEW b, NEW c PROVE <<a, b>> \o <<c>> = <<a, b, c>>
<1> DEFINE S == {a, b, c}
           l == <<a, b>>
           m == <<c>>
           r == <<a, b, c>>
<1>1. l \in Seq(S) /\ m \in Seq(S) /\ r \in Seq(S) /\ Len(r) = Len(l) + Len(m)
  OBVIOUS
<1>2. \A i \in 1..Len(l) : r[i] = l[i]
  OBVIOUS
<1>3. \A i \in 1..Len(m) : r[Len(l) + i] = m[i]
  OBVIOUS
<1>4. l \o m = r
  <2> HIDE DEF l, m, r, S
  <2> QED BY <1>1, <1>2, <1>3, InARow, Zenon
<1> QED BY <1>4

LEMMA TwoAndTwo ==
  ASSUME NEW a, NEW b, NEW c, NEW d PROVE <<a, b>> \o <<c, d>> = <<a, b, c, d>>
<1> DEFINE S == {a, b, c, d}
           l == <<a, b>>
           m == <<c, d>>
           r == <<a, b, c, d>>
<1>1. l \in Seq(S) /\ m \in Seq(S) /\ r \in Seq(S) /\ Len(r) = Len(l) + Len(m)
  OBVIOUS
<1>2. \A i \in 1..Len(l) : r[i] = l[i]
  OBVIOUS
<1>3. \A i \in 1..Len(m) : r[Len(l) + i] = m[i]
  OBVIOUS
<1>4. l \o m = r
  <2> HIDE DEF l, m, r, S
  <2> QED BY <1>1, <1>2, <1>3, InARow, Zenon
<1> QED BY <1>4

LEMMA ThreeAndTwo ==
  ASSUME NEW a, NEW b, NEW c, NEW d, NEW e PROVE <<a, b, c>> \o <<d, e>> = <<a, b, c, d, e>>
<1> DEFINE S == {a, b, c, d, e}
           l == <<a, b, c>>
           m == <<d, e>>
           r == <<a, b, c, d, e>>
<1>1. l \in Seq(S) /\ m \in Seq(S) /\ r \in Seq(S) /\ Len(r) = Len(l) + Len(m)
  OBVIOUS
<1>2. \A i \in 1..Len(l) : r[i] = l[i]
  OBVIOUS
<1>3. \A i \in 1..Len(m) : r[Len(l) + i] = m[i]
  OBVIOUS
<1>4. l \o m = r
  <2> HIDE DEF l, m, r, S
  <2> QED BY <1>1, <1>2, <1>3, InARow, Zenon
<1> QED BY <1>4

LEMMA ContextScripts ==
  /\ \A m \in {"evaluate", "get_title", "content"} : ScriptWith(m, Evaluate)
  /\ ScriptWith("evaluate_function", EvaluateFunction)
  /\ ScriptWith("set_content", SetContent)
  /\ \A m \in {"evaluate_stealth", "select_option"} : ScriptWith(m, EvaluateInFrame("main"))
  /\ ScriptWith("frame", EvaluateInFrame("sub"))
<1> DEFINE main == Cmd("context", "main")
           util == Cmd("context", "util")
           again == Cmd("contextAgain", "main")
           eval == Cmd("evaluate", "none")
           first == Cmd("contextOfFirst", "main")
           in == Cmd("callIn", "none")
           wait == Cmd("ask", "waitForNavigation")
<1>1. \A a \in {"main", "sub", "util", "none", "waitForNavigation"} : a \in Args
  BY SomeArgs DEF Worlds, Questions
<1>2. \A do \in {"context", "contextAgain", "contextOfFirst", "evaluate", "callIn", "ask", "isolate"} :
        do \in Dos /\ do \in Rest
  BY DEF Dos, Rest, Scripting, Looking, Deeds
<1>3. \A f \in {"main", "sub"} : Inert(Cmd("isolate", f), Rest)
  BY <1>1, <1>2, InertCmd
<1>4. /\ Inert(main, Rest) /\ Inert(util, Rest) /\ Inert(again, Rest) /\ Inert(eval, Rest)
      /\ Inert(first, Rest) /\ Inert(in, Rest) /\ Inert(wait, Rest)
  BY <1>1, <1>2, InertCmd
<1>5. /\ main.do = "context" /\ main.arg = "main" /\ util.do = "context" /\ util.arg = "util"
      /\ again.do = "contextAgain" /\ again.arg = "main" /\ eval.do = "evaluate"
      /\ first.do = "contextOfFirst" /\ first.arg = "main" /\ in.do = "callIn" /\ wait.do = "ask"
  BY DEF Cmd
<1>6. /\ Evaluate = <<main, again, eval>>
      /\ EvaluateFunction = <<main, again, eval, first, in>>
      /\ SetContent = <<util, again, in, wait>>
  <2>1. InWorld("main") = <<main, again>> /\ InWorld("util") = <<util, again>>
    BY DEF InWorld
  <2>2. /\ Evaluate = <<main, again>> \o <<eval>>
        /\ SetContent = <<util, again>> \o <<in, wait>>
    BY <2>1 DEF Evaluate, SetContent
  <2>3. Evaluate = <<main, again, eval>>
    BY <2>2, TwoAndOne
  <2>4. SetContent = <<util, again, in, wait>>
    BY <2>2, TwoAndTwo
  <2>5. EvaluateFunction = <<main, again, eval>> \o <<first, in>>
    BY <2>3 DEF EvaluateFunction
  <2>6. EvaluateFunction = <<main, again, eval, first, in>>
    BY <2>5, ThreeAndTwo
  <2> QED BY <2>3, <2>4, <2>6
<1> HIDE DEF main, util, again, eval, first, in, wait
<1>7. /\ Part(Evaluate, Rest) /\ Part(EvaluateFunction, Rest) /\ Part(SetContent, Rest)
      /\ \A f \in {"main", "sub"} : Part(EvaluateInFrame(f), Rest)
  <2>1. Part(<<main, again, eval>>, Rest)
    <3>1. /\ <<main, again, eval>> \in Seq(Commands) /\ <<main, again, eval>> # <<>>
          /\ \A n \in 1..Len(<<main, again, eval>>) :
               <<main, again, eval>>[n] \in {main, again, eval}
      BY <1>4 DEF Inert
    <3> QED BY <1>4, <3>1, InertParts
  <2>2. Part(<<main, again, eval, first, in>>, Rest) /\ Part(<<util, again, in, wait>>, Rest)
    BY <1>4, Inert4, Inert5
  <2>3. \A f \in {"main", "sub"} : Part(EvaluateInFrame(f), Rest)
    BY <1>3, <1>4, Inert2 DEF EvaluateInFrame, eval
  <2> QED BY <1>6, <2>1, <2>2, <2>3
<1>8. /\ \A m \in {"evaluate", "get_title", "content", "evaluate_function"} :
           m # "set_content" /\ m \notin Stealthy
      /\ "set_content" \notin Stealthy
  BY DEF Stealthy
<1>12. ASSUME NEW m \in {"evaluate", "get_title", "content"}, NEW c PROVE Guarded(m, Evaluate, c)
  <2> DEFINE s == <<main, again, eval>>
  <2>1. Len(s) = 3 /\ s[1] = main /\ s[2] = again /\ s[3] = eval
    OBVIOUS
  <2> HIDE DEF s
  <2> SUFFICES ASSUME NEW n \in 1..3 PROVE GuardedAt(m, s, c, n)
    BY <1>6, <2>1 DEF Guarded, s
  <2>2. CASE n = 1
    BY <1>5, <1>8, <2>1, <2>2 DEF GuardedAt
  <2>3. CASE n = 2
    BY <1>5, <1>8, <2>1, <2>3 DEF GuardedAt
  <2>4. CASE n = 3
    <3>1. 2 \in 1..(n - 1)
      BY <2>4
    <3> QED BY <1>5, <1>8, <2>1, <2>4, <3>1 DEF GuardedAt, Settling
  <2> QED BY <2>2, <2>3, <2>4
<1>13. ASSUME NEW c PROVE Guarded("evaluate_function", EvaluateFunction, c)
  <2> DEFINE s == <<main, again, eval, first, in>>
  <2>1. Len(s) = 5 /\ s[1] = main /\ s[2] = again /\ s[3] = eval /\ s[4] = first /\ s[5] = in
    OBVIOUS
  <2> HIDE DEF s
  <2> SUFFICES ASSUME NEW n \in 1..5 PROVE GuardedAt("evaluate_function", s, c, n)
    BY <1>6, <2>1 DEF Guarded, s
  <2>2. CASE n = 1
    BY <1>5, <1>8, <2>1, <2>2 DEF GuardedAt
  <2>3. CASE n = 2
    BY <1>5, <1>8, <2>1, <2>3 DEF GuardedAt
  <2>4. CASE n \in {3, 5}
    <3>1. 2 \in 1..(n - 1)
      BY <2>4
    <3> QED BY <1>5, <1>8, <2>1, <2>4, <3>1 DEF GuardedAt, Settling
  <2>5. CASE n = 4
    BY <1>5, <1>8, <2>1, <2>5 DEF GuardedAt
  <2> QED BY <2>2, <2>3, <2>4, <2>5
<1>14. ASSUME NEW c PROVE Guarded("set_content", SetContent, c)
  <2> DEFINE s == <<util, again, in, wait>>
  <2>1. Len(s) = 4 /\ s[1] = util /\ s[2] = again /\ s[3] = in /\ s[4] = wait
    OBVIOUS
  <2> HIDE DEF s
  <2> SUFFICES ASSUME NEW n \in 1..4 PROVE GuardedAt("set_content", s, c, n)
    BY <1>6, <2>1 DEF Guarded, s
  <2>2. CASE n = 1
    BY <1>5, <1>8, <2>1, <2>2 DEF GuardedAt
  <2>3. CASE n = 2
    BY <1>5, <1>8, <2>1, <2>3 DEF GuardedAt
  <2>4. CASE n = 3
    <3>1. 2 \in 1..(n - 1)
      BY <2>4
    <3> QED BY <1>5, <1>8, <2>1, <2>4, <3>1 DEF GuardedAt, Settling
  <2>5. CASE n = 4
    BY <1>5, <2>1, <2>5 DEF GuardedAt
  <2> QED BY <2>2, <2>3, <2>4, <2>5
<1>9. ASSUME NEW m \in Stealthy, NEW c PROVE Guarded(m, EvaluateInFrame(AskedFrame(m)), c)
  <2> DEFINE s == EvaluateInFrame(AskedFrame(m))
  <2>1. /\ Len(s) = 2 /\ s[1].do = "isolate" /\ s[1].arg = AskedFrame(m) /\ s[2].do = "evaluate"
    BY DEF EvaluateInFrame, Cmd
  <2>2. m # "set_content" /\ 1 \in 1..(2 - 1)
    BY DEF Stealthy
  <2> HIDE DEF s
  <2>3. 1 \in 1..Len(s) /\ \A n \in 1..Len(s) : n = 1 \/ n = 2
    BY <2>1
  <2>4. GuardedAt(m, s, c, 1) /\ GuardedAt(m, s, c, 2)
    BY <2>1, <2>2 DEF GuardedAt, Settling
  <2> QED BY <2>3, <2>4 DEF Guarded, s
<1>10. /\ AskedFrame("evaluate_stealth") = "main" /\ AskedFrame("select_option") = "main"
       /\ AskedFrame("frame") = "sub"
       /\ "evaluate_stealth" \in Stealthy /\ "select_option" \in Stealthy /\ "frame" \in Stealthy
  BY DEF AskedFrame, Stealthy
<1>11. \A c : Guarded("evaluate_stealth", EvaluateInFrame("main"), c)
              /\ Guarded("select_option", EvaluateInFrame("main"), c)
              /\ Guarded("frame", EvaluateInFrame("sub"), c)
  <2> TAKE c
  <2>1. Guarded("evaluate_stealth", EvaluateInFrame(AskedFrame("evaluate_stealth")), c)
    BY <1>9, <1>10
  <2>2. Guarded("select_option", EvaluateInFrame(AskedFrame("select_option")), c)
    BY <1>9, <1>10
  <2>3. Guarded("frame", EvaluateInFrame(AskedFrame("frame")), c)
    BY <1>9, <1>10
  <2> QED BY <1>10, <2>1, <2>2, <2>3
<1> QED BY <1>7, <1>11, <1>12, <1>13, <1>14 DEF ScriptWith

\* Deeds before a script change nothing about it.
LEMMA DeedsFirst ==
  ASSUME NEW m, NEW a, NEW b, Part(a, Deeds), ScriptWith(m, b)
  PROVE  ScriptWith(m, a \o b)
<1>1. Part(a, Rest)
  BY PartWider DEF Rest
<1>2. Part(a \o b, Rest)
  BY <1>1, PartConcat DEF ScriptWith
<1>3. \A n \in 1..Len(a) : a[n].do \notin Scripting
  BY DEF Part, Piece, Deeds, Scripting, Looking
<1>4. a \in Seq(Commands) /\ b \in Seq(Commands)
  BY DEF Part, Piece, ScriptWith
<1> QED BY <1>2, <1>3, <1>4, GuardedConcat DEF ScriptWith

LEMMA JavaScripts ==
  \A m \in {"evaluate", "evaluate_function", "get_title", "content", "set_content",
            "evaluate_stealth", "frame"} :
    ScriptWith(m, Script(m))
<1>1. \A a \in {"mainframe", "frames", "frameUrl", "frameName"} : Inert(Cmd("ask", a), Deeds)
  BY OnePart, SomeDeeds, SomeArgs DEF Questions
<1>2. Part(<<Cmd("ask", "mainframe")>>, Deeds) /\ Part(FindFrame, Deeds)
  BY <1>1, Inert1, Inert4 DEF FindFrame
<1>3. ScriptWith("evaluate_stealth", EvaluateStealth) /\ ScriptWith("frame", InFrame)
  BY <1>2, ContextScripts, DeedsFirst DEF EvaluateStealth, InFrame
<1>4. /\ Script("evaluate") = Evaluate /\ Script("get_title") = Evaluate
      /\ Script("evaluate_function") = EvaluateFunction
      /\ Script("content") = Evaluate /\ Script("set_content") = SetContent
      /\ Script("evaluate_stealth") = EvaluateStealth /\ Script("frame") = InFrame
  BY DEF Script, GetTitle, Content
<1> QED BY <1>3, <1>4, ContextScripts


-----------------------------------------------------------------------------
(* Lookups *)

\* A command before a way: its place in the script.
Prepends(c, s, t) == t = <<c>> \o s

LEMMA Before ==
  ASSUME NEW D, NEW c, NEW s, NEW t, Prepends(c, s, t), Inert(c, D), Part(s, D)
  PROVE  /\ Part(t, D) /\ Len(t) = Len(s) + 1 /\ t[1] = c /\ Len(s) \in Nat
         /\ \A n \in 1..Len(s) : t[n + 1] = s[n]
<1> DEFINE a == <<c>>
<1>1. Len(a) = 1 /\ a[1] = c
  OBVIOUS
<1>2. Part(a, D)
  BY Inert1
<1>0. t = a \o s
  BY DEF Prepends
<1> HIDE DEF a
<1>3. a \in Seq(Commands) /\ s \in Seq(Commands) /\ Len(s) \in Nat
  BY <1>2 DEF Part, Piece
<1>4. /\ Len(t) = Len(a) + Len(s)
      /\ \A n \in 1..Len(a) : t[n] = a[n]
      /\ \A n \in 1..Len(s) : t[Len(a) + n] = s[n]
  <2>1. /\ Len(a \o s) = Len(a) + Len(s)
        /\ \A n \in 1..Len(a) : (a \o s)[n] = a[n]
        /\ \A n \in 1..Len(s) : (a \o s)[Len(a) + n] = s[n]
    BY <1>3, ConcatParts
  <2> QED BY <1>0, <2>1
<1>5. Part(t, D)
  BY <1>0, <1>2, PartConcat
<1>6. \A n \in 1..Len(s) : 1 + n = n + 1
  BY <1>3
<1>7. /\ Len(t) = Len(s) + 1 /\ t[1] = c
      /\ \A n \in 1..Len(s) : t[n + 1] = s[n]
  BY ONLY <1>1, <1>3, <1>4, <1>6
<1> QED BY <1>3, <1>5, <1>7

LEMMA Shifted2 ==
  ASSUME NEW s, NEW t, Len(s) = 2, \A n \in 1..Len(s) : t[n + 1] = s[n]
  PROVE  t[2] = s[1] /\ t[3] = s[2]
<1>1. t[1 + 1] = s[1] /\ t[2 + 1] = s[2]
  OBVIOUS
<1> QED BY <1>1

LEMMA Shifted3 ==
  ASSUME NEW s, NEW t, Len(s) = 3, \A n \in 1..Len(s) : t[n + 1] = s[n]
  PROVE  t[2] = s[1] /\ t[3] = s[2] /\ t[4] = s[3]
<1>1. t[1 + 1] = s[1] /\ t[2 + 1] = s[2] /\ t[3 + 1] = s[3]
  OBVIOUS
<1> QED BY <1>1

\* The way of FindInRoot: a selector, then the element's handles.
LEMMA InRoot ==
  ASSUME NEW sel \in Selectors
  PROVE  /\ Part(FindInRoot(sel), Finding) /\ Len(FindInRoot(sel)) = 3
         /\ FindInRoot(sel)[1] = Cmd("query", sel)
         /\ FindInRoot(sel)[2] = Cmd("describe", "none") /\ FindInRoot(sel)[3] = Cmd("resolve", "none")
<1>1. sel \in Args /\ "none" \in Args /\ \A do \in {"query", "describe", "resolve"} : do \in Dos /\ do \in Finding
  BY SomeArgs DEF Dos, Finding
<1>2. /\ Inert(Cmd("query", sel), Finding) /\ Inert(Cmd("describe", "none"), Finding)
      /\ Inert(Cmd("resolve", "none"), Finding)
  BY <1>1, InertCmd
<1>3. Part(NewElement, Finding)
  BY <1>2, Inert2 DEF NewElement
<1>4. Len(NewElement) = 2 /\ NewElement[1] = Cmd("describe", "none") /\ NewElement[2] = Cmd("resolve", "none")
  BY DEF NewElement
<1>5. FindInRoot(sel) = <<Cmd("query", sel)>> \o NewElement
  BY DEF FindInRoot
<1> DEFINE c == Cmd("query", sel)
           t == FindInRoot(sel)
<1> HIDE DEF c, t
<1>6. /\ Part(t, Finding) /\ Len(t) = Len(NewElement) + 1 /\ t[1] = c
      /\ \A n \in 1..Len(NewElement) : t[n + 1] = NewElement[n]
  <2>1. Prepends(c, NewElement, t) /\ Inert(c, Finding)
    BY <1>2, <1>5 DEF t, c, Prepends
  <2> QED BY <1>3, <2>1, Before
<1>7. t[2] = NewElement[1] /\ t[3] = NewElement[2]
  BY <1>4, <1>6, Shifted2
<1>8. Len(t) = 3
  BY <1>4, <1>6
<1> QED BY <1>4, <1>6, <1>7, <1>8 DEF t, c

\* The commands of FindElement are the first of `s`.
StartsWithFind(s, sel) ==
  /\ Len(s) >= 4 /\ s[1] = Cmd("getDocument", "none") /\ s[2] = Cmd("query", sel)
  /\ s[3] = Cmd("describe", "none") /\ s[4] = Cmd("resolve", "none")

LEMMA InDocument ==
  ASSUME NEW sel \in Selectors
  PROVE  /\ Part(FindElement(sel), Finding) /\ Len(FindElement(sel)) = 4
         /\ StartsWithFind(FindElement(sel), sel)
<1> DEFINE c == Cmd("getDocument", "none")
           s == FindInRoot(sel)
           t == FindElement(sel)
<1>1. Inert(c, Finding)
  BY InertCmd, SomeArgs DEF Dos, Finding
<1>2. /\ Part(s, Finding) /\ Len(s) = 3 /\ s[1] = Cmd("query", sel)
      /\ s[2] = Cmd("describe", "none") /\ s[3] = Cmd("resolve", "none")
  BY InRoot
<1>3. Prepends(c, s, t)
  BY DEF FindElement, Prepends
<1> HIDE DEF s, c, t
<1>4. Part(t, Finding) /\ Len(t) = Len(s) + 1 /\ t[1] = c /\ \A n \in 1..Len(s) : t[n + 1] = s[n]
  <2>1. Part(s, Finding)
    BY <1>2
  <2> QED BY <1>1, <2>1, <1>3, Before
<1>5. t[2] = s[1] /\ t[3] = s[2] /\ t[4] = s[3]
  BY <1>2, <1>4, Shifted3
<1>6. Len(t) = 4
  BY <1>2, <1>4
<1>7. StartsWithFind(t, sel)
  BY <1>2, <1>4, <1>5, <1>6 DEF StartsWithFind, c
<1> QED BY <1>4, <1>6, <1>7 DEF t

\* A method that finds an element first.
FindsFirst(s, sel) ==
  /\ Part(s, Dos) /\ StartsWithFind(s, sel) /\ \A n \in 5..Len(s) : s[n].do \in Rest

\* Two pieces in one.
Joined(a, b, t) == t = a \o b

LEMMA Joins ==
  ASSUME NEW D, NEW a, NEW b, NEW t, Joined(a, b, t), Part(a, D), Part(b, D)
  PROVE  /\ Part(t, D) /\ Len(a) \in Nat /\ Len(b) \in Nat /\ Len(t) = Len(a) + Len(b)
         /\ \A n \in 1..Len(a) : t[n] = a[n]
         /\ \A n \in 1..Len(b) : t[Len(a) + n] = b[n]
<1>1. Part(t, D)
  BY PartConcat DEF Joined
<1>2. a \in Seq(Commands) /\ b \in Seq(Commands)
  BY DEF Part, Piece
<1>3. /\ Len(a \o b) = Len(a) + Len(b)
      /\ \A n \in 1..Len(a) : (a \o b)[n] = a[n]
      /\ \A n \in 1..Len(b) : (a \o b)[Len(a) + n] = b[n]
  BY <1>2, ConcatParts
<1>4. Len(a) \in Nat /\ Len(b) \in Nat
  BY <1>2
<1> QED BY <1>1, <1>3, <1>4 DEF Joined

LEMMA FindMore ==
  ASSUME NEW sel, NEW a, NEW b, NEW t, Joined(a, b, t), FindsFirst(a, sel), Part(b, Rest)
  PROVE  FindsFirst(t, sel)
<1>1. Part(a, Dos) /\ Part(b, Dos)
  BY PartWider DEF Dos, Rest, FindsFirst
<1>2. /\ Part(t, Dos) /\ Len(a) \in Nat /\ Len(b) \in Nat /\ Len(t) = Len(a) + Len(b)
      /\ \A n \in 1..Len(a) : t[n] = a[n]
      /\ \A n \in 1..Len(b) : t[Len(a) + n] = b[n]
  BY <1>1, Joins
<1>3. \A n \in 1..Len(b) : b[n].do \in Rest
  BY DEF Part, Piece
<1>4. ASSUME NEW n \in 5..Len(t) PROVE t[n].do \in Rest
  <2>1. CASE n \in 1..Len(a)
    <3>1. n \in 5..Len(a) /\ t[n] = a[n]
      BY <1>2, <2>1
    <3> QED BY <3>1 DEF FindsFirst
  <2>2. CASE n \notin 1..Len(a)
    <3>1. n - Len(a) \in 1..Len(b) /\ n = Len(a) + (n - Len(a))
      BY <1>2, <2>2
    <3>2. t[n] = b[n - Len(a)]
      BY <1>2, <3>1
    <3> QED BY <1>3, <3>1, <3>2
  <2> QED BY <2>1, <2>2
<1>5. StartsWithFind(t, sel)
  <2>1. StartsWithFind(a, sel)
    BY DEF FindsFirst
  <2>2. Len(a) >= 4
    BY <2>1 DEF StartsWithFind
  <2>3. t[1] = a[1] /\ t[2] = a[2] /\ t[3] = a[3] /\ t[4] = a[4] /\ Len(t) >= 4
    BY <1>2, <2>2
  <2> QED BY <2>1, <2>3 DEF StartsWithFind
<1> QED BY <1>2, <1>4, <1>5 DEF FindsFirst

LEMMA FindAlone == ASSUME NEW sel \in Selectors PROVE FindsFirst(FindElement(sel), sel)
<1>1. /\ Part(FindElement(sel), Finding) /\ Len(FindElement(sel)) = 4
      /\ StartsWithFind(FindElement(sel), sel)
  BY InDocument
<1>2. Part(FindElement(sel), Dos)
  BY <1>1, PartWider DEF Dos
<1> QED BY <1>1, <1>2 DEF FindsFirst

LEMMA Elements ==
  /\ Part(CallJsFn, Rest) /\ Part(ClickablePoint, Rest) /\ Part(Hover, Rest)
  /\ Part(ClickElement, Rest) /\ Part(IterAttributes, Rest) /\ Part(ElementScreenshot, Rest)
  /\ Part(EvaluateStealth, Rest)
  /\ Part(CallJsFn, Deeds) /\ Part(ClickablePoint, Deeds) /\ Part(Hover, Deeds)
  /\ Part(ClickElement, Deeds) /\ Part(IterAttributes, Deeds) /\ Part(ElementScreenshot, Deeds)
<1>1. "none" \in Args /\ "getLayoutMetrics" \in Args /\ "mainframe" \in Args /\ "main" \in Args
  BY SomeArgs DEF Questions, Worlds
<1>2. Part(CallJsFn, Deeds) /\ Part(ClickablePoint, Deeds)
  BY <1>1, SomeDeeds, OnePart DEF CallJsFn, ClickablePoint
<1>3. Part(Hover, Deeds) /\ Part(ClickElement, Deeds)
  BY <1>2, Mouse, PartConcat DEF Hover, ClickElement
<1>4. Part(IterAttributes, Deeds)
  <2>1. Part(<<Cmd("onBackend", "none")>>, Deeds)
    BY <1>2 DEF ClickablePoint
  <2> QED BY <1>2, <2>1, PartConcat DEF IterAttributes
<1>5. Part(ElementScreenshot, Deeds)
  <2>1. Inert(Cmd("onBackend", "none"), Deeds) /\ Inert(Cmd("command", "getLayoutMetrics"), Deeds)
    BY <1>1, SomeDeeds, OnePart
  <2>2. Part(<<Cmd("onBackend", "none"), Cmd("command", "getLayoutMetrics")>>, Deeds)
    BY <2>1, Inert2
  <2> QED BY <1>2, <2>2, ScreenshotParts, PartConcat DEF ElementScreenshot
<1>6. Part(EvaluateStealth, Rest)
  <2>1. /\ "isolate" \in Dos /\ "evaluate" \in Dos /\ "ask" \in Dos
        /\ "isolate" \in Rest /\ "evaluate" \in Rest /\ "ask" \in Rest
    BY DEF Dos, Rest, Scripting, Looking, Deeds
  <2>2. Inert(Cmd("isolate", "main"), Rest) /\ Inert(Cmd("evaluate", "none"), Rest)
        /\ Inert(Cmd("ask", "mainframe"), Rest)
    BY <1>1, <2>1, InertCmd
  <2>3. Part(EvaluateInFrame("main"), Rest) /\ Part(<<Cmd("ask", "mainframe")>>, Rest)
    BY <2>2, Inert1, Inert2 DEF EvaluateInFrame
  <2> QED BY <2>3, PartConcat DEF EvaluateStealth
<1>7. \A s : Part(s, Deeds) => Part(s, Rest)
  BY PartWider DEF Rest
<1> QED BY <1>2, <1>3, <1>4, <1>5, <1>6, <1>7

SelectorOf(m) ==
  CASE m = "set_input_files" -> "input" [] m = "select_option" -> "select" [] OTHER -> "a"

LEMMA LookupScripts == \A m \in ElementFinders : FindsFirst(Script(m), SelectorOf(m))
<1>1. \A sel \in {"a", "input", "select"} : sel \in Selectors /\ FindsFirst(FindElement(sel), sel)
  BY FindAlone DEF Selectors
<1>2. \A sel, b, t : (sel \in {"a", "input", "select"} /\ t = FindElement(sel) \o b /\ Part(b, Rest))
         => FindsFirst(t, sel)
  BY <1>1, FindMore DEF Joined
<1>3. Part(<<Cmd("onBackend", "none")>>, Rest)
  BY Elements DEF ClickablePoint
<1>4. FindsFirst(Script("hover"), "a")
  <2>1. Script("hover") = FindElement("a") \o Hover
    BY DEF Script
  <2> QED BY <1>2, <2>1, Elements
<1>5. FindsFirst(Script("set_input_files"), "input")
  <2>1. Script("set_input_files") = FindElement("input") \o <<Cmd("onBackend", "none")>>
    BY DEF Script, SetInputFiles
  <2> QED BY <1>2, <1>3, <2>1
<1>6. FindsFirst(Script("iter_attributes"), "a")
  <2>1. Script("iter_attributes") = FindElement("a") \o IterAttributes
    BY DEF Script
  <2> QED BY <1>2, <2>1, Elements
<1>7. FindsFirst(Script("locator_click"), "a")
  <2>1. Script("locator_click") = FindElement("a") \o ClickElement
    BY DEF Script, LocatorClick
  <2> QED BY <1>2, <2>1, Elements
<1>8. FindsFirst(Script("locator_text"), "a")
  <2>1. Script("locator_text") = FindElement("a") \o CallJsFn
    BY DEF Script, LocatorText, Property
  <2> QED BY <1>2, <2>1, Elements
<1>9. FindsFirst(Script("element_screenshot"), "a")
  <2>1. Script("element_screenshot") = FindElement("a") \o ElementScreenshot
    BY DEF Script
  <2> QED BY <1>2, <2>1, Elements
<1>10. FindsFirst(Script("select_option"), "select")
  <2> DEFINE a == FindElement("select") \o ClickElement
  <2>1. Script("select_option") = a \o EvaluateStealth
    BY DEF Script, SelectOption
  <2>2. FindsFirst(a, "select")
    BY <1>2, Elements
  <2> HIDE DEF a
  <2>3. Joined(a, EvaluateStealth, Script("select_option"))
    BY <2>1 DEF Joined
  <2> QED BY <2>2, <2>3, FindMore, Elements
<1>11. /\ SelectorOf("hover") = "a" /\ SelectorOf("set_input_files") = "input"
       /\ SelectorOf("iter_attributes") = "a" /\ SelectorOf("locator_click") = "a"
       /\ SelectorOf("locator_text") = "a" /\ SelectorOf("element_screenshot") = "a"
       /\ SelectorOf("select_option") = "select"
  BY DEF SelectorOf
<1> QED BY <1>4, <1>5, <1>6, <1>7, <1>8, <1>9, <1>10, <1>11 DEF ElementFinders

\* The commands of FindXpath are the first of `s`, those of the lookup through shadow
\* roots are all of it.
StartsWithXpath(s) ==
  /\ Part(s, Dos) /\ Len(s) >= 7
  /\ s[1].do = "getDocument" /\ s[2] = Cmd("performSearch", "text")
  /\ s[3].do = "command" /\ s[4].do = "command" /\ s[5].do = "first"
  /\ s[6].do = "describe" /\ s[7].do = "resolve"
  /\ \A n \in 8..Len(s) : s[n].do \in Rest

ShadowScript(s) ==
  /\ Part(s, Dos) /\ Len(s) = 12 /\ StartsWithFind(s, "outer")
  /\ s[5].do = "shadowRoot" /\ s[6] = Cmd("query", "inner")
  /\ s[7].do = "describe" /\ s[8].do = "resolve"
  /\ s[9].do = "shadowRoot" /\ s[10] = Cmd("query", "target")
  /\ s[11].do = "describe" /\ s[12].do = "resolve"
  /\ \A n \in 1..12 : s[n].do \in Finding

LEMMA XpathScript == StartsWithXpath(Script("click_by_text"))
<1> DEFINE D == Dos
           c1 == Cmd("getDocument", "none")
           c2 == Cmd("performSearch", "text")
           c3 == Cmd("command", "getSearchResults")
           c4 == Cmd("command", "discardSearchResults")
           c5 == Cmd("first", "none")
           a == <<c1, c2, c3, c4, c5>>
           f == FindXpath("text")
           t == Script("click_by_text")
<1>1. \A x \in {"none", "text", "getSearchResults", "discardSearchResults"} : x \in Args
  BY SomeArgs DEF Questions, Selectors
<1>2. \A x \in {"getDocument", "performSearch", "command", "first", "describe", "resolve"} : x \in Dos
  BY DEF Dos, Finding, Deeds
<1>3. /\ Inert(c1, Dos) /\ Inert(c2, Dos) /\ Inert(c3, Dos) /\ Inert(c4, Dos) /\ Inert(c5, Dos)
      /\ Inert(Cmd("describe", "none"), Dos) /\ Inert(Cmd("resolve", "none"), Dos)
  BY <1>1, <1>2, InertCmd
<1>4. Part(NewElement, Dos)
  BY <1>3, Inert2 DEF NewElement
<1>5. /\ Len(NewElement) = 2 /\ NewElement[1] = Cmd("describe", "none")
      /\ NewElement[2] = Cmd("resolve", "none")
  BY DEF NewElement
<1>6. /\ c1.do = "getDocument" /\ c3.do = "command" /\ c4.do = "command" /\ c5.do = "first"
      /\ Cmd("describe", "none").do = "describe" /\ Cmd("resolve", "none").do = "resolve"
  BY Fields
<1>7. t = f \o ClickElement
  BY DEF Script
<1>8. f = a \o NewElement
  BY DEF FindXpath
<1> HIDE DEF c1, c2, c3, c4, c5
<1>9. Part(a, Dos)
  BY <1>3, Inert5
<1>10. Len(a) = 5 /\ a[1] = c1 /\ a[2] = c2 /\ a[3] = c3 /\ a[4] = c4 /\ a[5] = c5
  OBVIOUS
<1> HIDE DEF a, f, t
<1>11. /\ Part(f, Dos) /\ Len(f) = Len(a) + Len(NewElement)
       /\ \A n \in 1..Len(a) : f[n] = a[n]
       /\ \A n \in 1..Len(NewElement) : f[Len(a) + n] = NewElement[n]
  <2>1. Joined(a, NewElement, f)
    BY <1>8 DEF Joined
  <2> QED BY <1>4, <1>9, <2>1, Joins
<1>12. f[5 + 1] = NewElement[1] /\ f[5 + 2] = NewElement[2] /\ Len(f) = 7
  BY <1>5, <1>10, <1>11
<1>13. /\ f[1] = a[1] /\ f[2] = a[2] /\ f[3] = a[3] /\ f[4] = a[4] /\ f[5] = a[5]
  BY <1>10, <1>11
<1>14. Part(ClickElement, Dos) /\ Part(ClickElement, Rest)
  BY Elements, PartWider DEF Rest, Dos
<1>15. /\ Part(t, Dos) /\ Len(ClickElement) \in Nat /\ Len(t) = Len(f) + Len(ClickElement)
       /\ \A n \in 1..Len(f) : t[n] = f[n]
       /\ \A n \in 1..Len(ClickElement) : t[Len(f) + n] = ClickElement[n]
  <2>1. Joined(f, ClickElement, t)
    BY <1>7 DEF Joined
  <2> QED BY <1>11, <1>14, <2>1, Joins
<1>16. /\ t[1] = f[1] /\ t[2] = f[2] /\ t[3] = f[3] /\ t[4] = f[4] /\ t[5] = f[5]
       /\ t[6] = f[6] /\ t[7] = f[7] /\ Len(t) >= 7
  BY <1>12, <1>15
<1>17. ASSUME NEW n \in 8..Len(t) PROVE t[n].do \in Rest
  <2>1. n - 7 \in 1..Len(ClickElement) /\ n = Len(f) + (n - 7)
    BY <1>12, <1>15
  <2>2. t[n] = ClickElement[n - 7]
    BY <1>15, <2>1
  <2> QED BY <1>14, <2>1, <2>2 DEF Part, Piece
<1>18. t[6] = NewElement[1] /\ t[7] = NewElement[2]
  BY <1>12, <1>16
<1>19. t[1] = c1 /\ t[2] = c2 /\ t[3] = c3 /\ t[4] = c4 /\ t[5] = c5
  BY <1>10, <1>13, <1>16
<1> QED BY <1>5, <1>6, <1>15, <1>16, <1>17, <1>18, <1>19 DEF StartsWithXpath, c2, t

LEMMA InShadow ==
  ASSUME NEW sel \in Selectors
  PROVE  /\ Part(InShadowOf(sel), Finding) /\ Len(InShadowOf(sel)) = 4
         /\ InShadowOf(sel)[1] = Cmd("shadowRoot", "none")
         /\ InShadowOf(sel)[2] = Cmd("query", sel)
         /\ InShadowOf(sel)[3] = Cmd("describe", "none")
         /\ InShadowOf(sel)[4] = Cmd("resolve", "none")
<1> DEFINE c == Cmd("shadowRoot", "none")
           s == FindInRoot(sel)
           t == InShadowOf(sel)
<1>1. Inert(c, Finding)
  BY InertCmd, SomeArgs DEF Dos, Finding
<1>2. /\ Part(s, Finding) /\ Len(s) = 3 /\ s[1] = Cmd("query", sel)
      /\ s[2] = Cmd("describe", "none") /\ s[3] = Cmd("resolve", "none")
  BY InRoot
<1>3. Prepends(c, s, t)
  BY DEF InShadowOf, Prepends
<1> HIDE DEF s, c, t
<1>4. Part(t, Finding) /\ Len(t) = Len(s) + 1 /\ t[1] = c /\ \A n \in 1..Len(s) : t[n + 1] = s[n]
  <2>1. Part(s, Finding)
    BY <1>2
  <2> QED BY <1>1, <2>1, <1>3, Before
<1>5. t[2] = s[1] /\ t[3] = s[2] /\ t[4] = s[3]
  BY <1>2, <1>4, Shifted3
<1>6. Len(t) = 4
  BY <1>2, <1>4
<1>7. t[2] = Cmd("query", sel) /\ t[3] = Cmd("describe", "none") /\ t[4] = Cmd("resolve", "none")
  BY <1>2, <1>5
<1> QED BY <1>4, <1>6, <1>7 DEF t, c

LEMMA ShadowScripts == ShadowScript(Script("find_in_shadow_deep"))
<1> DEFINE a == FindElement("outer")
           b == InShadowOf("inner")
           d == InShadowOf("target")
           u == a \o b
           t == Script("find_in_shadow_deep")
<1>1. "outer" \in Selectors /\ "inner" \in Selectors /\ "target" \in Selectors
  BY DEF Selectors
<1>2. Part(a, Finding) /\ Len(a) = 4 /\ StartsWithFind(a, "outer")
  BY <1>1, InDocument
<1>3. /\ Part(b, Finding) /\ Len(b) = 4
      /\ b[1] = Cmd("shadowRoot", "none") /\ b[2] = Cmd("query", "inner")
      /\ b[3] = Cmd("describe", "none") /\ b[4] = Cmd("resolve", "none")
  BY <1>1, InShadow
<1>4. /\ Part(d, Finding) /\ Len(d) = 4
      /\ d[1] = Cmd("shadowRoot", "none") /\ d[2] = Cmd("query", "target")
      /\ d[3] = Cmd("describe", "none") /\ d[4] = Cmd("resolve", "none")
  BY <1>1, InShadow
<1>5. t = u \o d
  BY DEF Script, FindInShadowDeep
<1>6. Joined(a, b, u)
  BY DEF Joined
<1> HIDE DEF a, b, d, u, t
<1>7. Part(a, Finding) /\ Part(b, Finding) /\ Part(d, Finding)
  BY <1>2, <1>3, <1>4
<1>8. /\ Part(u, Finding) /\ Len(u) = Len(a) + Len(b)
      /\ \A n \in 1..Len(a) : u[n] = a[n]
      /\ \A n \in 1..Len(b) : u[Len(a) + n] = b[n]
  BY <1>6, <1>7, Joins
<1>9. Joined(u, d, t)
  BY <1>5 DEF Joined
<1>10. /\ Part(t, Finding) /\ Len(t) = Len(u) + Len(d)
       /\ \A n \in 1..Len(u) : t[n] = u[n]
       /\ \A n \in 1..Len(d) : t[Len(u) + n] = d[n]
  BY <1>7, <1>8, <1>9, Joins
<1>11. Len(a) = 4 /\ Len(b) = 4 /\ Len(d) = 4 /\ Len(u) = 8 /\ Len(t) = 12
  BY <1>2, <1>3, <1>4, <1>8, <1>10
<1>12. /\ t[1] = a[1] /\ t[2] = a[2] /\ t[3] = a[3] /\ t[4] = a[4]
       /\ t[5] = u[5] /\ t[6] = u[6] /\ t[7] = u[7] /\ t[8] = u[8]
  BY <1>8, <1>10, <1>11
<1>13. u[4 + 1] = b[1] /\ u[4 + 2] = b[2] /\ u[4 + 3] = b[3] /\ u[4 + 4] = b[4]
  BY <1>8, <1>11
<1>14. t[8 + 1] = d[1] /\ t[8 + 2] = d[2] /\ t[8 + 3] = d[3] /\ t[8 + 4] = d[4]
  BY <1>10, <1>11
<1>15. /\ t[5] = Cmd("shadowRoot", "none") /\ t[6] = Cmd("query", "inner")
       /\ t[7] = Cmd("describe", "none") /\ t[8] = Cmd("resolve", "none")
  BY <1>3, <1>12, <1>13
<1>16. /\ t[9] = Cmd("shadowRoot", "none") /\ t[10] = Cmd("query", "target")
       /\ t[11] = Cmd("describe", "none") /\ t[12] = Cmd("resolve", "none")
  BY <1>4, <1>14
<1>17. StartsWithFind(t, "outer")
  BY <1>2, <1>11, <1>12 DEF StartsWithFind
<1>18. Part(t, Dos)
  BY <1>10, PartWider DEF Dos
<1>19. \A n \in 1..12 : t[n].do \in Finding
  BY <1>10, <1>11 DEF Part, Piece
<1>20. /\ Cmd("shadowRoot", "none").do = "shadowRoot" /\ Cmd("describe", "none").do = "describe"
       /\ Cmd("resolve", "none").do = "resolve"
  BY Fields
<1> QED BY <1>11, <1>15, <1>16, <1>17, <1>18, <1>19, <1>20 DEF ShadowScript, t

-----------------------------------------------------------------------------
(* What the invariant needs to know of the scripts *)

DeedsOnly == {
  "type_text", "type_text_with_typos", "type_str", "click_human", "right_click", "double_click",
  "drag_human", "scroll_human", "screenshot", "set_cookies", "set_cookies_invalid",
  "delete_cookies", "reload", "apply_profile", "enable_stealth_mode", "enable_geolocation",
  "grant_permissions", "expose_function", "emulate"}
WithScripts == {
  "evaluate", "evaluate_function", "get_title", "content", "set_content", "evaluate_stealth",
  "frame"}

LEMMA MethodKinds ==
  AllMethods = DeedsOnly \cup WithScripts \cup Finders \cup {"press_key_combo", "apply_native_profile"}
BY DEF AllMethods, DeedsOnly, WithScripts, Finders, ElementFinders

LEMMA DeedsOnlyParts == \A m \in DeedsOnly : Part(Script(m), Deeds)
<1>1. Part(Script("screenshot"), Deeds)
  <2>1. Script("screenshot") = Screenshot(TRUE, TRUE)
    BY DEF Script
  <2> QED BY <2>1, ScreenshotParts
<1> QED BY <1>1, KeyboardScripts, MouseScripts, CookieScripts, IdentityScripts DEF DeedsOnly

\* How a method's script keeps to what it may do.
Behaves(m, s) ==
  /\ s \in Seq(Commands) /\ s # <<>> /\ ClosedScript(s) /\ \A c : Guarded(m, s, c)
  /\ m # "press_key_combo" =>
       \A n \in 1..Len(s) : s[n].do = "keyDown" => ~IsModifier(s[n].arg)
  /\ m # "apply_native_profile" => \A n \in 1..Len(s) : s[n].do # "try"
  /\ m \notin Finders => \A n \in 1..Len(s) : s[n].do \notin Finding

LEMMA PartsBehave ==
  ASSUME NEW m, NEW s, Part(s, Rest), \A c : Guarded(m, s, c) PROVE Behaves(m, s)
<1>1. s \in Seq(Commands) /\ s # <<>> /\ ClosedScript(s)
  BY DEF Part, Piece
<1>2. \A n \in 1..Len(s) : s[n].do \in Rest /\ (s[n].do = "keyDown" => ~IsModifier(s[n].arg))
  BY DEF Part, Piece
<1>3. \A do \in Rest : do # "try" /\ do \notin Finding
  BY DEF Rest, Deeds, Scripting, Looking, Finding
<1> QED BY <1>1, <1>2, <1>3 DEF Behaves

Looks == Deeds \cup Finding

LEMMA LookingParts == \A m \in Finders \ {"select_option"} : Part(Script(m), Looks)
<1>1. \A s : Part(s, Deeds) \/ Part(s, Finding) => Part(s, Looks)
  BY PartWider DEF Looks
<1>2. \A sel \in {"a", "input", "select", "outer"} : Part(FindElement(sel), Looks)
  <2>1. \A sel \in {"a", "input", "select", "outer"} : sel \in Selectors
    BY DEF Selectors
  <2> QED BY <1>1, <2>1, InDocument
<1>3. /\ Part(CallJsFn, Looks) /\ Part(ClickablePoint, Looks) /\ Part(Hover, Looks)
      /\ Part(ClickElement, Looks) /\ Part(IterAttributes, Looks) /\ Part(ElementScreenshot, Looks)
  BY <1>1, Elements
<1>4. /\ Part(FindElement("a") \o Hover, Looks) /\ Part(FindElement("a") \o IterAttributes, Looks)
      /\ Part(FindElement("a") \o ClickElement, Looks) /\ Part(FindElement("a") \o CallJsFn, Looks)
      /\ Part(FindElement("a") \o ElementScreenshot, Looks)
      /\ Part(FindElement("input") \o ClickablePoint, Looks)
  BY <1>2, <1>3, PartConcat
<1>5. Part(Script("find_in_shadow_deep"), Looks)
  <2>1. \A sel \in {"inner", "target"} : sel \in Selectors
    BY DEF Selectors
  <2>2. Part(InShadowOf("inner"), Looks) /\ Part(InShadowOf("target"), Looks)
    BY <1>1, <2>1, InShadow
  <2>3. Part(FindElement("outer") \o InShadowOf("inner") \o InShadowOf("target"), Looks)
    BY <1>2, <2>2, PartConcat
  <2>4. Script("find_in_shadow_deep")
          = FindElement("outer") \o InShadowOf("inner") \o InShadowOf("target")
    BY DEF Script, FindInShadowDeep
  <2> QED BY <2>3, <2>4
<1>6. Part(Script("click_by_text"), Looks)
  <2>1. \A x \in {"none", "text", "getSearchResults", "discardSearchResults"} : x \in Args
    BY SomeArgs DEF Questions, Selectors
  <2>2. \A x \in {"getDocument", "performSearch", "command", "first", "describe", "resolve"} :
          x \in Dos /\ x \in Looks
    BY DEF Dos, Looks, Finding, Deeds
  <2>3. /\ Inert(Cmd("getDocument", "none"), Looks) /\ Inert(Cmd("performSearch", "text"), Looks)
        /\ Inert(Cmd("command", "getSearchResults"), Looks)
        /\ Inert(Cmd("command", "discardSearchResults"), Looks)
        /\ Inert(Cmd("first", "none"), Looks) /\ Inert(Cmd("describe", "none"), Looks)
        /\ Inert(Cmd("resolve", "none"), Looks)
    BY <2>1, <2>2, InertCmd
  <2>4. Part(NewElement, Looks)
    BY <2>3, Inert2 DEF NewElement
  <2>5. Part(FindXpath("text"), Looks)
    BY <2>3, <2>4, Inert5, PartConcat DEF FindXpath
  <2>6. Script("click_by_text") = FindXpath("text") \o ClickElement
    BY DEF Script
  <2> QED BY <1>3, <2>5, <2>6, PartConcat
<1>7. /\ Script("hover") = FindElement("a") \o Hover
      /\ Script("iter_attributes") = FindElement("a") \o IterAttributes
      /\ Script("locator_click") = FindElement("a") \o ClickElement
      /\ Script("locator_text") = FindElement("a") \o CallJsFn
      /\ Script("element_screenshot") = FindElement("a") \o ElementScreenshot
      /\ Script("set_input_files") = FindElement("input") \o ClickablePoint
  BY DEF Script, LocatorClick, LocatorText, Property, SetInputFiles, ClickablePoint
<1> QED BY <1>4, <1>5, <1>6, <1>7 DEF Finders, ElementFinders

LEMMA LooksBehave ==
  ASSUME NEW m \in Finders, NEW s, Part(s, Looks) PROVE Behaves(m, s)
<1>1. s \in Seq(Commands) /\ s # <<>> /\ ClosedScript(s)
  BY DEF Part, Piece
<1>2. \A n \in 1..Len(s) : s[n].do \in Looks /\ (s[n].do = "keyDown" => ~IsModifier(s[n].arg))
  BY DEF Part, Piece
<1>3. \A do \in Looks : do # "try" /\ do \notin Scripting
  BY DEF Looks, Deeds, Scripting, Looking, Finding
<1>4. \A c : Guarded(m, s, c)
  BY <1>2, <1>3, NoScripts
<1> QED BY <1>1, <1>2, <1>3, <1>4 DEF Behaves

LEMMA SelectBehaves == Behaves("select_option", Script("select_option"))
<1> DEFINE a == FindElement("select") \o ClickElement
           b == EvaluateStealth
           s == Script("select_option")
           E == Rest \cup Finding
<1>1. s = a \o b
  BY DEF Script, SelectOption
<1>2. Part(a, Looks)
  <2>1. "select" \in Selectors
    BY DEF Selectors
  <2>2. Part(FindElement("select"), Looks) /\ Part(ClickElement, Looks)
    BY <2>1, InDocument, Elements, PartWider DEF Looks
  <2> QED BY <2>2, PartConcat
<1>3. Part(b, Rest)
  BY Elements
<1>4. \A c : Guarded("select_option", b, c)
  <2>1. Inert(Cmd("ask", "mainframe"), Deeds)
    BY OnePart, SomeDeeds, SomeArgs DEF Questions
  <2>2. Part(<<Cmd("ask", "mainframe")>>, Deeds)
    BY <2>1, Inert1
  <2>3. ScriptWith("select_option", EvaluateStealth)
    BY <2>2, ContextScripts, DeedsFirst DEF EvaluateStealth
  <2> QED BY <2>3 DEF ScriptWith
<1> HIDE DEF a, b, s
<1>5. Part(s, E)
  <2>1. Part(a, E) /\ Part(b, E)
    BY <1>2, <1>3, PartWider DEF Looks, Rest
  <2> QED BY <1>1, <2>1, PartConcat
<1>6. \A c : Guarded("select_option", s, c)
  <2>1. a \in Seq(Commands) /\ b \in Seq(Commands)
    BY <1>2, <1>3 DEF Part, Piece
  <2>2. \A n \in 1..Len(a) : a[n].do \notin Scripting
    BY <1>2 DEF Part, Piece, Looks, Deeds, Finding, Scripting, Looking
  <2> QED BY <1>1, <1>4, <2>1, <2>2, GuardedConcat
<1>7. s \in Seq(Commands) /\ s # <<>> /\ ClosedScript(s)
  BY <1>5 DEF Part, Piece
<1>8. \A n \in 1..Len(s) : s[n].do \in E /\ (s[n].do = "keyDown" => ~IsModifier(s[n].arg))
  BY <1>5 DEF Part, Piece
<1>9. "try" \notin E /\ "select_option" \in Finders
  BY DEF Rest, Deeds, Scripting, Looking, Finding, Finders, ElementFinders
<1>10. Behaves("select_option", s)
  BY <1>6, <1>7, <1>8, <1>9 DEF Behaves
<1> QED BY <1>10 DEF s

LEMMA MethodsBehave == \A m \in AllMethods : Behaves(m, Script(m))
<1>1. \A m \in DeedsOnly : Behaves(m, Script(m))
  <2> SUFFICES ASSUME NEW m \in DeedsOnly PROVE Behaves(m, Script(m))
    OBVIOUS
  <2>1. Part(Script(m), Deeds)
    BY DeedsOnlyParts
  <2>2. Part(Script(m), Rest)
    BY <2>1, PartWider DEF Rest
  <2>3. \A n \in 1..Len(Script(m)) : Script(m)[n].do \notin Scripting
    BY <2>1 DEF Part, Piece, Deeds, Scripting, Looking
  <2> QED BY <2>2, <2>3, NoScripts, PartsBehave
<1>2. \A m \in WithScripts : Behaves(m, Script(m))
  BY JavaScripts, PartsBehave DEF WithScripts, ScriptWith
<1>3. \A m \in Finders : Behaves(m, Script(m))
  BY LookingParts, LooksBehave, SelectBehaves
<1>4. Behaves("press_key_combo", Script("press_key_combo"))
  <2>1. Script("press_key_combo") = PressKeyCombo
    BY DEF Script
  <2>2. \A n \in 1..Len(PressKeyCombo) : PressKeyCombo[n].do \notin Scripting \cup Finding \cup {"try"}
    BY Combo DEF Deeds, Scripting, Looking, Finding
  <2>3. \A c : Guarded("press_key_combo", PressKeyCombo, c)
    BY <2>2, NoScripts
  <2> QED BY <2>1, <2>2, <2>3, Combo DEF Behaves
<1>5. Behaves("apply_native_profile", Script("apply_native_profile"))
  <2> DEFINE s == Script("apply_native_profile")
  <2>1. Part(s, Deeds \cup {"try"})
    BY NativeScript
  <2> HIDE DEF s
  <2>2. \A n \in 1..Len(s) : s[n].do \notin Scripting \cup Finding
    BY <2>1 DEF Part, Piece, Deeds, Scripting, Looking, Finding
  <2>3. \A c : Guarded("apply_native_profile", s, c)
    BY <2>2, NoScripts
  <2>4. Behaves("apply_native_profile", s)
    BY <2>1, <2>2, <2>3 DEF Behaves, Part, Piece
  <2> QED BY <2>4 DEF s
<1> QED BY <1>1, <1>2, <1>3, <1>4, <1>5, MethodKinds

LEMMA InvalidCookies ==
  LET s == Script("set_cookies_invalid")
  IN  Len(s) = 4 /\ s[1].do = "ask" /\ s[2] = Cmd("validate", FALSE)
<1> DEFINE a == Cmd("ask", "url")
           b == Cmd("validate", FALSE)
           c == Cmd("cookie", "none")
           d == Cmd("cookie", "new")
<1>1. Script("set_cookies_invalid") = <<a, b, c, d>>
  BY DEF Script, SetCookies
<1>2. a.do = "ask"
  BY Fields
<1> HIDE DEF a, b, c, d
<1>3. Len(<<a, b, c, d>>) = 4 /\ <<a, b, c, d>>[1] = a /\ <<a, b, c, d>>[2] = b
  OBVIOUS
<1>4. b = Cmd("validate", FALSE)
  BY DEF b
<1> QED BY <1>1, <1>2, <1>3, <1>4

-----------------------------------------------------------------------------
(* Steps.  What is sent, and what a step makes of the call *)

LEMMA WhatIsSent ==
  ASSUME OpsTypes, ScriptInv, Busy
  PROVE  /\ call.script \in Seq(Commands) /\ call.script # <<>> /\ ClosedScript(call.script)
         /\ Current \in Commands /\ Current = call.script[1] /\ call.method \in AllMethods
         /\ Behaves(call.method, Script(call.method)) /\ Script(call.method) \in Seq(Commands)
<1>1. call.script \in Seq(Commands) /\ call.script # <<>> /\ ClosedScript(call.script)
  BY DEF OpsTypes, Calls, ScriptInv
<1>2. call.method \in AllMethods
  BY MethodsHaveScripts DEF ScriptInv
<1> QED BY <1>1, <1>2, TailParts, MethodsBehave DEF Current, Behaves

LEMMA Whole ==
  ASSUME OpsTypes, ScriptInv, Running, call.method # "apply_native_profile"
  PROVE  /\ LeftOf(call.script, Script(call.method), call.done)
         /\ call.done \in Nat /\ call.done + 1 \in 1..Len(Script(call.method))
         /\ Current = Script(call.method)[call.done + 1]
<1> DEFINE s == call.script
           w == Script(call.method)
           n == call.done
<1>1. Busy /\ call.status = "running"
  BY DEF Busy, Running
<1>2. call.method # "none"
  BY <1>1, WhatIsSent DEF AllMethods
<1>3. LeftOf(s, w, n) /\ n \in Nat
  BY <1>1, <1>2 DEF ScriptInv, OpsTypes, Calls
<1>4. s \in Seq(Commands) /\ s # <<>> /\ w \in Seq(Commands) /\ Current = s[1]
  BY <1>1, WhatIsSent
<1> HIDE DEF s, w, n
<1>5. Len(s) \in Nat \ {0} /\ Len(w) \in Nat
  BY <1>4
<1>6. 1 \in 1..Len(s) /\ n + 1 \in 1..Len(w)
  BY <1>3, <1>5 DEF LeftOf
<1>7. s[1] = w[1 + n] /\ 1 + n = n + 1
  BY <1>3, <1>6 DEF LeftOf
<1> QED BY <1>3, <1>4, <1>6, <1>7 DEF s, w, n

\* What a running method's next command may be.
LEMMA SentByMethod ==
  ASSUME OpsTypes, ScriptInv, Running
  PROVE  /\ Current.do = "keyDown" /\ IsModifier(Current.arg) =>
              /\ call.method = "press_key_combo"
              /\ (call.done = 0 /\ Current.arg = "Control") \/ (call.done = 1 /\ Current.arg = "Shift")
         /\ Current.do = "try" => call.method = "apply_native_profile"
         /\ call.method \notin Finders => Current.do \notin Finding
<1>1. Busy /\ call.status = "running"
  BY DEF Busy, Running
<1>2. CASE call.method = "apply_native_profile"
  <2>1. Piece(call.script, Deeds \cup {"try"}) /\ call.script # <<>> /\ call.script \in Seq(Commands)
        /\ Current = call.script[1]
    BY <1>1, <1>2, WhatIsSent DEF ScriptInv
  <2>2. 1 \in 1..Len(call.script)
    BY <2>1
  <2>3. Current.do \in Deeds \cup {"try"} /\ (Current.do = "keyDown" => ~IsModifier(Current.arg))
    BY <2>1, <2>2 DEF Piece
  <2>4. Current.do \notin Finding
    BY <2>3 DEF Deeds, Finding
  <2> QED BY <1>2, <2>3, <2>4
<1>3. CASE call.method # "apply_native_profile"
  <2> DEFINE w == Script(call.method)
             n == call.done
  <2>1. n \in Nat /\ n + 1 \in 1..Len(w) /\ Current = w[n + 1]
    BY <1>3, Whole
  <2>2. Behaves(call.method, w)
    BY <1>1, WhatIsSent
  <2>3. Current.do # "try" /\ (call.method \notin Finders => Current.do \notin Finding)
    BY <1>3, <2>1, <2>2 DEF Behaves
  <2>4. ASSUME Current.do = "keyDown", IsModifier(Current.arg)
        PROVE  /\ call.method = "press_key_combo"
               /\ (n = 0 /\ Current.arg = "Control") \/ (n = 1 /\ Current.arg = "Shift")
    <3>1. call.method = "press_key_combo"
      BY <2>1, <2>2, <2>4 DEF Behaves
    <3>2. w = PressKeyCombo
      <4>1. Script("press_key_combo") = PressKeyCombo
        BY DEF Script
      <4> QED BY <3>1, <4>1
    <3> HIDE DEF w, n
    <3>3. n + 1 \notin 3..Len(PressKeyCombo)
      BY <2>1, <2>4, <3>2, Combo
    <3>4. n = 0 \/ n = 1
      BY <2>1, <3>2, <3>3
    <3>5. CASE n = 0
      <4>1. Current = PressKeyCombo[1]
        BY <2>1, <3>2, <3>5
      <4>2. Current = Cmd("keyDown", "Control")
        BY <4>1, Combo DEF Down
      <4> QED BY <3>1, <3>5, <4>2, Fields
    <3>6. CASE n = 1
      <4>1. Current = PressKeyCombo[2]
        BY <2>1, <3>2, <3>6
      <4>2. Current = Cmd("keyDown", "Shift")
        BY <4>1, Combo DEF Down
      <4> QED BY <3>1, <3>6, <4>2, Fields
    <3> QED BY <3>4, <3>5, <3>6
  <2> QED BY <2>3, <2>4
<1> QED BY <1>2, <1>3

LEMMA RegistersAreFresh == Registers \in RegisterRecords
<1>1. NoNode \in Nodes
  BY DEF NoNode, Nodes
<1>2. NoScriptContext \in ScriptContexts
  BY SomeArgs DEF NoScriptContext, ScriptContexts, Worlds
<1> QED BY <1>1, <1>2 DEF Registers, RegisterRecords

LEMMA KnownContexts ==
  ASSUME NEW world, NEW k \in Known(world)
  PROVE  /\ k = NoScriptContext \/ (k.frame = "main" /\ k.world = world)
         /\ OpsTypes /\ world \in Args => k \in ScriptContexts
<1>1. CASE k = NoScriptContext
  BY <1>1, SomeArgs DEF NoScriptContext, ScriptContexts, Worlds
<1>2. CASE k # NoScriptContext
  <2>1. PICK d \in 1..docs["main"] : k = InMain(d, world)
    BY <1>2 DEF Known
  <2>2. k = [frame |-> "main", doc |-> d, world |-> world] /\ d \in Nat
    BY <2>1 DEF InMain
  <2>3. "main" \in Args
    BY SomeArgs DEF Worlds
  <2> QED BY <2>2, <2>3 DEF ScriptContexts
<1> QED BY <1>1, <1>2

\* What a look for a context puts into the registers.
\* What a look-up changes in the registers, the first of a call or a later one.
FirstLook(q, r, k) == q = [r EXCEPT !.context = k, !.first = k]
LaterLook(q, r, k) == q = [r EXCEPT !.context = k]
KnownOr(k, world) == IF k = NoScriptContext THEN Known(world) ELSE {k}

LEMMA LookLearnt ==
  ASSUME NEW cmd, NEW r, NEW q, q \in Learnt(cmd, r)
  PROVE  /\ cmd.do = "context" => \E k \in Known(cmd.arg) : FirstLook(q, r, k)
         /\ cmd.do = "contextAgain" =>
              \E k \in KnownOr(r.context, cmd.arg) : LaterLook(q, r, k)
         /\ cmd.do = "contextOfFirst" =>
              \E k \in KnownOr(r.first, cmd.arg) : LaterLook(q, r, k)
<1>1. CASE cmd.do = "context"
  <2>1. q \in {[r EXCEPT !.context = c, !.first = c] : c \in Known(cmd.arg)}
    BY <1>1 DEF Learnt
  <2> QED BY <1>1, <2>1 DEF FirstLook
<1>2. CASE cmd.do = "contextAgain"
  <2>1. q \in LookedUp(r, r.context, cmd.arg)
    BY <1>2 DEF Learnt
  <2> QED BY <1>2, <2>1 DEF LookedUp, KnownOr, LaterLook
<1>3. CASE cmd.do = "contextOfFirst"
  <2>1. q \in LookedUp(r, r.first, cmd.arg)
    BY <1>3 DEF Learnt
  <2> QED BY <1>3, <2>1 DEF LookedUp, KnownOr, LaterLook
<1> QED BY <1>1, <1>2, <1>3

LEMMA LookFields ==
  ASSUME NEW r \in RegisterRecords, NEW q, NEW k
  PROVE  /\ FirstLook(q, r, k) =>
              /\ q.context = k /\ q.first = k
              /\ q.node = r.node /\ q.backend = r.backend /\ q.object = r.object /\ q.root = r.root
         /\ LaterLook(q, r, k) =>
              /\ q.context = k /\ q.first = r.first
              /\ q.node = r.node /\ q.backend = r.backend /\ q.object = r.object /\ q.root = r.root
         /\ (FirstLook(q, r, k) \/ LaterLook(q, r, k)) /\ k \in ScriptContexts =>
              q \in RegisterRecords
  BY DEF FirstLook, LaterLook, RegisterRecords

LEMMA LearntTypes ==
  ASSUME OpsTypes, NEW cmd \in Commands, NEW r \in RegisterRecords, NEW q \in Learnt(cmd, r)
  PROVE  q \in RegisterRecords
<1>1. /\ Document \in Nodes /\ \A node \in Nodes, step \in Args : Under(node, step) \in Nodes
  <2>1. docs["main"] \in Nat
    BY DEF OpsTypes
  <2>2. Document \in Nodes
    BY <2>1 DEF Document, Nodes
  <2>3. ASSUME NEW node \in Nodes, NEW step \in Args PROVE Under(node, step) \in Nodes
    <3>1. node.path \in Seq(Args)
      BY DEF Nodes
    <3>2. Append(node.path, step) \in Seq(Args)
      BY <3>1
    <3> QED BY <3>2 DEF Under, Nodes
  <2> QED BY <2>2, <2>3
<1>2. cmd.arg \in Args /\ "#" \in Args /\ "chaser" \in Args /\ "main" \in Args
  BY SomeArgs DEF Commands, Selectors, Worlds
<1>3. /\ r.root \in Nodes /\ r.node \in Nodes /\ r.backend \in Nodes /\ r.object \in Nodes
      /\ r.context \in ScriptContexts /\ r.first \in ScriptContexts
  BY DEF RegisterRecords
<1>4. NoScriptContext \in ScriptContexts
  BY SomeArgs DEF NoScriptContext, ScriptContexts, Worlds
<1>5. CASE cmd.do = "getDocument"
  <2>1. q = [r EXCEPT !.root = Document]
    BY <1>5 DEF Learnt
  <2> QED BY <1>1, <2>1 DEF RegisterRecords
<1>6. CASE cmd.do = "query"
  <2>1. q = [r EXCEPT !.node = Under(r.root, cmd.arg)]
    BY <1>6 DEF Learnt
  <2>2. Under(r.root, cmd.arg) \in Nodes
    BY <1>1, <1>2, <1>3
  <2> QED BY <2>1, <2>2 DEF RegisterRecords
<1>7. CASE cmd.do = "performSearch"
  <2>1. q = [r EXCEPT !.node = Under(Document, cmd.arg)]
    BY <1>7 DEF Learnt
  <2>2. Under(Document, cmd.arg) \in Nodes
    BY <1>1, <1>2
  <2> QED BY <2>1, <2>2 DEF RegisterRecords
<1>8. CASE cmd.do = "shadowRoot"
  <2>1. q = [r EXCEPT !.root = Under(r.node, "#")]
    BY <1>8 DEF Learnt
  <2>2. Under(r.node, "#") \in Nodes
    BY <1>1, <1>2, <1>3
  <2> QED BY <2>1, <2>2 DEF RegisterRecords
<1>9. CASE cmd.do = "describe"
  <2>1. q = [r EXCEPT !.backend = r.node]
    BY <1>9 DEF Learnt
  <2> QED BY <1>3, <2>1 DEF RegisterRecords
<1>10. CASE cmd.do = "resolve"
  <2>1. q = [r EXCEPT !.object = r.backend]
    BY <1>10 DEF Learnt
  <2> QED BY <1>3, <2>1 DEF RegisterRecords
<1>11. CASE cmd.do = "isolate"
  <2> DEFINE c == [frame |-> cmd.arg, doc |-> docs[cmd.arg], world |-> "chaser"]
  <2>1. q = [r EXCEPT !.context = c]
    BY <1>11 DEF Learnt
  <2>2. cmd.arg \in {"main", "sub"}
    BY <1>11 DEF Commands
  <2>3. docs[cmd.arg] \in Nat
    BY <2>2 DEF OpsTypes
  <2>4. c \in ScriptContexts
    BY <1>2, <2>3 DEF ScriptContexts
  <2> QED BY <2>1, <2>4 DEF RegisterRecords
<1>12. CASE cmd.do = "context"
  <2>1. PICK k \in Known(cmd.arg) : FirstLook(q, r, k)
    BY <1>12, LookLearnt
  <2>2. k \in ScriptContexts
    BY <1>2, KnownContexts
  <2> QED BY <2>1, <2>2, LookFields
<1>14. CASE cmd.do \in {"contextAgain", "contextOfFirst"}
  <2>1. \A k \in Known(cmd.arg) : k \in ScriptContexts
    BY <1>2, KnownContexts
  <2>2. PICK k \in ScriptContexts : LaterLook(q, r, k)
    BY <1>3, <1>14, <2>1, LookLearnt DEF KnownOr
  <2> QED BY <2>2, LookFields
<1>13. CASE cmd.do \notin {"getDocument", "query", "performSearch", "shadowRoot", "describe",
                          "resolve", "isolate", "context", "contextAgain", "contextOfFirst"}
  <2>1. q = r
    BY <1>13 DEF Learnt
  <2> QED BY <2>1
<1> QED BY <1>5, <1>6, <1>7, <1>8, <1>9, <1>10, <1>11, <1>12, <1>13, <1>14

\* The fields of the call after a step.
LEMMA ServedCall ==
  ASSUME OpsTypes, ScriptInv, Served
  PROVE  /\ Busy /\ call' \in Calls
         /\ call.regs \in RegisterRecords /\ call'.regs \in Learnt(Current, call.regs)
         /\ call'.script = Tail(call.script) /\ call'.done = call.done + 1
         /\ call'.method = call.method /\ call'.cookie = call.cookie
         /\ call'.status = IF Tail(call.script) # <<>> THEN call.status
                           ELSE IF Running THEN "ok" ELSE "failed"
<1>1. Busy /\ call \in Calls
  BY DEF Served, OpsTypes
<1>2. Current \in Commands /\ Tail(call.script) \in Seq(Commands)
  BY <1>1, WhatIsSent, TailParts
<1>3. PICK r \in Learnt(Current, call.regs) :
        call' = [call EXCEPT !.script = Tail(@), !.done = @ + 1, !.regs = r,
                   !.status = IF Tail(call.script) # <<>> THEN @
                              ELSE IF Running THEN "ok" ELSE "failed"]
  BY DEF Served
<1>4. call.regs \in RegisterRecords /\ call.done + 1 \in Nat
  BY <1>1 DEF Calls
<1>5. r \in RegisterRecords
  BY <1>2, <1>4, LearntTypes
<1>6. /\ call'.regs = r /\ call'.script = Tail(call.script) /\ call'.done = call.done + 1
      /\ call'.method = call.method /\ call'.cookie = call.cookie
      /\ call'.status = IF Tail(call.script) # <<>> THEN call.status
                        ELSE IF Running THEN "ok" ELSE "failed"
  BY <1>1, <1>3 DEF Calls
<1>7. call' \in Calls
  <2>1. (IF Tail(call.script) # <<>> THEN call.status ELSE IF Running THEN "ok" ELSE "failed")
          \in {"running", "cleaning", "ok", "failed", "panicked", "dropped"}
    BY <1>1 DEF Calls
  <2> QED BY <1>1, <1>2, <1>3, <1>4, <1>5, <2>1 DEF Calls
<1> QED BY <1>1, <1>3, <1>4, <1>6, <1>7

SameCall(a, b) == a.method = b.method /\ a.done = b.done /\ a.regs = b.regs /\ a.cookie = b.cookie

LEMMA Held ==
  ASSUME OpsTypes
  PROVE  /\ HeldCount > 0 => HeldCount \in 1..2
         /\ HeldCount \in Nat /\ (HeldCount = 0 <=> call.done = 0)
         /\ (HeldCount = 1 <=> call.done = 1) /\ (HeldCount = 2 <=> call.done > 1)
<1>1. Len(Modifiers) = 2 /\ call.done \in Nat
  BY DEF Modifiers, OpsTypes, Calls
<1> QED BY <1>1 DEF HeldCount

LEMMA EndsCall ==
  ASSUME OpsTypes, ScriptInv, Busy, Ends
  PROVE  /\ call' \in Calls /\ SameCall(call', call)
         /\ \/ /\ Cleaning \/ Current.do = "try"
               /\ call'.script = Tail(call.script)
               /\ call'.status = IF Tail(call.script) = <<>> THEN "failed" ELSE call.status
            \/ /\ Running /\ Current.do # "try" /\ call.method = "press_key_combo" /\ HeldCount > 0
               /\ call'.script = ReleaseKeys(HeldCount) /\ call'.status = "cleaning"
            \/ /\ Running /\ Current.do # "try"
               /\ ~(call.method = "press_key_combo" /\ HeldCount > 0)
               /\ call'.script = call.script /\ call'.status \in {"panicked", "failed"}
<1>1. call \in Calls /\ (Running \/ Cleaning)
  BY DEF OpsTypes, Busy
<1>2. Current \in Commands /\ Tail(call.script) \in Seq(Commands)
  BY WhatIsSent, TailParts
<1>3. CASE Cleaning \/ Current.do = "try"
  <2>1. call' = [call EXCEPT !.script = Tail(@),
                   !.status = IF Tail(call.script) = <<>> THEN "failed" ELSE @]
    BY <1>3 DEF Ends
  <2>2. (IF Tail(call.script) = <<>> THEN "failed" ELSE call.status)
          \in {"running", "cleaning", "ok", "failed", "panicked", "dropped"}
    BY <1>1 DEF Calls
  <2>3. call' \in Calls
    BY <1>1, <1>2, <2>1, <2>2 DEF Calls
  <2>4. /\ call'.script = Tail(call.script) /\ SameCall(call', call)
        /\ call'.status = IF Tail(call.script) = <<>> THEN "failed" ELSE call.status
    BY <1>1, <2>1 DEF Calls, SameCall
  <2> QED BY <1>3, <2>3, <2>4
<1>4. CASE ~(Cleaning \/ Current.do = "try") /\ call.method = "press_key_combo" /\ HeldCount > 0
  <2>1. call' = [call EXCEPT !.script = ReleaseKeys(HeldCount), !.status = "cleaning"]
    BY <1>4 DEF Ends
  <2>2. ReleaseKeys(HeldCount) \in Seq(Commands)
    BY <1>4, Held, Releasing
  <2>3. call' \in Calls
    BY <1>1, <2>1, <2>2 DEF Calls
  <2>4. /\ call'.script = ReleaseKeys(HeldCount) /\ SameCall(call', call)
        /\ call'.status = "cleaning"
    BY <1>1, <2>1 DEF Calls, SameCall
  <2> QED BY <1>1, <1>4, <2>3, <2>4
<1>5. CASE ~(Cleaning \/ Current.do = "try") /\ ~(call.method = "press_key_combo" /\ HeldCount > 0)
  <2>1. call' = [call EXCEPT !.status = IF Current.do = "first" THEN "panicked" ELSE "failed"]
    BY <1>5 DEF Ends
  <2>2. PICK st \in {"panicked", "failed"} : call' = [call EXCEPT !.status = st]
    BY <2>1
  <2>3. call' \in Calls
    BY <1>1, <2>2 DEF Calls
  <2>4. call'.script = call.script /\ SameCall(call', call) /\ call'.status = st
    BY <1>1, <2>2 DEF Calls, SameCall
  <2> QED BY <1>1, <1>5, <2>3, <2>4
<1> QED BY <1>3, <1>4, <1>5

LEMMA AgainCall ==
  ASSUME OpsTypes, ScriptInv, Busy, LookingUp, WaitForSelector
  PROVE  /\ call' \in Calls /\ call'.script = Script(call.method) /\ call'.done = 0
         /\ call'.regs = Registers /\ call'.method = call.method /\ call'.cookie = call.cookie
         /\ call'.status = call.status /\ call.method \in {"locator_click", "locator_text"}
<1>1. call \in Calls /\ call.method \in {"locator_click", "locator_text"}
  BY DEF OpsTypes, LookingUp
<1>2. Script(call.method) \in Seq(Commands)
  BY WhatIsSent
<1>3. call' = [call EXCEPT !.script = Script(call.method), !.done = 0, !.regs = Registers]
  BY DEF WaitForSelector
<1>4. call' \in Calls
  BY <1>1, <1>2, <1>3, RegistersAreFresh DEF Calls
<1>5. /\ call'.script = Script(call.method) /\ call'.done = 0
      /\ call'.regs = Registers /\ call'.method = call.method /\ call'.cookie = call.cookie
      /\ call'.status = call.status
  BY <1>1, <1>3 DEF Calls
<1> QED BY <1>1, <1>4, <1>5

LEMMA StartedCall ==
  ASSUME OpsTypes, NEW m \in Methods, StartCall(m)
  PROVE  /\ call' \in Calls /\ m \in AllMethods /\ Behaves(m, Script(m))
         /\ call'.method = m /\ call'.script = Script(m) /\ call'.done = 0 /\ call'.regs = Registers
         /\ call'.cookie = cookie /\ call'.status = "running" /\ ~Busy
         /\ UNCHANGED <<browserVars, ran, mishap>>
<1>1. m \in AllMethods /\ Behaves(m, Script(m))
  BY MethodsHaveScripts, MethodsBehave
<1>2. call' = [method |-> m, script |-> Script(m), done |-> 0, regs |-> Registers,
               cookie |-> cookie, status |-> "running"]
  BY DEF StartCall
<1>3. call' \in Calls
  <2>1. Script(m) \in Seq(Commands) /\ cookie \in Args
    BY <1>1, SomeArgs DEF Behaves, OpsTypes
  <2> HIDE DEF Script
  <2> QED BY <1>2, <2>1, RegistersAreFresh DEF Calls
<1>4. /\ call'.method = m /\ call'.script = Script(m) /\ call'.done = 0 /\ call'.regs = Registers
      /\ call'.cookie = cookie /\ call'.status = "running"
  BY <1>2
<1> QED BY <1>1, <1>3, <1>4 DEF StartCall

\* What a command changes in the browser.
LEMMA Effects ==
  ASSUME OpsTypes, NEW cmd \in Commands, Effect(cmd)
  PROVE  /\ input' \in Inputs /\ overrides' \in SUBSET Args /\ cookie' \in Cookies /\ docs' = docs
         /\ \A key \in input'.keys : \/ key \in input.keys /\ cmd # Up(key)
                                     \/ cmd.do = "keyDown" /\ cmd.arg = key
         /\ \/ input'.button = input.button /\ ~(cmd.do = "mouse" /\ cmd.arg # "moved")
            \/ input'.button = cmd.arg /\ cmd.do = "mouse" /\ cmd.arg # "moved"
         /\ \A what \in overrides' \cap {"metrics", "background"} :
              \/ what \in overrides /\ cmd # Cmd("clear", what)
              \/ cmd.do \in {"set", "try"} /\ cmd.arg = what
         /\ cmd.do # "cookie" => cookie' = cookie
<1>1. /\ cmd.arg \in Args
      /\ cmd.do = "mouse" /\ cmd.arg # "moved" => cmd.arg \in Buttons \ {"moved"}
      /\ cmd.do = "cookie" => cmd.arg \in Cookies
  BY DEF Commands
<1>2. /\ input = [keys |-> input.keys, button |-> input.button]
      /\ input.keys \subseteq Args /\ input.button \in Args
  BY SomeArgs DEF OpsTypes, Inputs
<1>3. \A do, arg : Cmd(do, arg).do = do /\ Cmd(do, arg).arg = arg
  BY Fields
<1>4. /\ input' \in Inputs
      /\ \A key \in input'.keys : \/ key \in input.keys /\ ~(cmd.do = "keyUp" /\ cmd.arg = key)
                                  \/ cmd.do = "keyDown" /\ cmd.arg = key
      /\ \/ input'.button = input.button /\ ~(cmd.do = "mouse" /\ cmd.arg # "moved")
         \/ input'.button = cmd.arg /\ cmd.do = "mouse" /\ cmd.arg # "moved"
  <2>1. CASE cmd.do = "keyDown"
    <3>1. input' = [input EXCEPT !.keys = @ \cup {cmd.arg}]
      BY <2>1 DEF Effect
    <3>2. input'.keys = input.keys \cup {cmd.arg} /\ input'.button = input.button /\ input' \in Inputs
      BY <1>1, <1>2, <3>1 DEF OpsTypes, Inputs
    <3> QED BY <2>1, <3>2
  <2>2. CASE cmd.do = "keyUp"
    <3>1. input' = [input EXCEPT !.keys = @ \ {cmd.arg}]
      BY <2>2 DEF Effect
    <3>2. input'.keys = input.keys \ {cmd.arg} /\ input'.button = input.button /\ input' \in Inputs
      BY <1>1, <1>2, <3>1 DEF OpsTypes, Inputs
    <3> QED BY <2>2, <3>2
  <2>3. CASE cmd.do = "mouse" /\ cmd.arg # "moved"
    <3>1. input' = [input EXCEPT !.button = cmd.arg]
      BY <2>3 DEF Effect
    <3>2. input'.keys = input.keys /\ input'.button = cmd.arg /\ input' \in Inputs
      BY <1>1, <1>2, <2>3, <3>1 DEF OpsTypes, Inputs
    <3> QED BY <2>3, <3>2
  <2>4. CASE cmd.do \notin {"keyDown", "keyUp"} /\ ~(cmd.do = "mouse" /\ cmd.arg # "moved")
    <3>1. input' = input
      BY <2>4 DEF Effect
    <3> QED BY <2>4, <3>1 DEF OpsTypes
  <2> QED BY <2>1, <2>2, <2>3, <2>4
<1>5. /\ overrides' \in SUBSET Args
      /\ \A what \in overrides' \cap {"metrics", "background"} :
           \/ what \in overrides /\ ~(cmd.do = "clear" /\ cmd.arg = what)
           \/ cmd.do \in {"set", "try"} /\ cmd.arg = what
  <2> DEFINE others == IF cmd.arg \in Metrics THEN overrides \ Metrics ELSE overrides
  <2>1. others \subseteq overrides /\ overrides \subseteq Args
    BY DEF OpsTypes
  <2>2. overrides' = CASE cmd.do \in {"set", "try"} -> others \cup {cmd.arg}
                       [] cmd.do = "clear" -> others \ {cmd.arg}
                       [] OTHER -> overrides
    BY DEF Effect
  <2> HIDE DEF others
  <2>3. CASE cmd.do \in {"set", "try"}
    BY <1>1, <2>1, <2>2, <2>3
  <2>4. CASE cmd.do = "clear"
    BY <1>1, <2>1, <2>2, <2>4
  <2>5. CASE cmd.do \notin {"set", "try", "clear"}
    BY <2>1, <2>2, <2>5
  <2> QED BY <2>3, <2>4, <2>5
<1>6. cookie' \in Cookies /\ (cmd.do # "cookie" => cookie' = cookie) /\ docs' = docs
  BY <1>1 DEF Effect, OpsTypes
<1> QED BY <1>3, <1>4, <1>5, <1>6 DEF Up

LEMMA StaysWhereAsked ==
  ASSUME OpsTypes, ScriptInv, WorldInv, Busy, CanServe(Current), Effect(Current)
  PROVE  ScriptsRunWhereAsked'
<1> DEFINE m == call.method
           r == call.regs
           c == OrDefault(r.context)
           e == [method |-> m, frame |-> c.frame, world |-> c.world, found |-> r.first.world]
<1>1. CASE Current.do \notin {"evaluate", "callIn"}
  <2>1. ran' = ran
    BY <1>1 DEF Effect
  <2> QED BY <2>1 DEF WorldInv, ScriptsRunWhereAsked
<1>2. CASE Current.do \in {"evaluate", "callIn"}
  <2>1. ran' = ran \cup {e}
    BY <1>2 DEF Effect
  <2>2. /\ call.script \in Seq(Commands) /\ call.script # <<>> /\ Current = call.script[1]
    BY WhatIsSent
  <2>3. 1 \in 1..Len(call.script)
    BY <2>2
  <2>4. Running
    BY <1>2, <2>2, <2>3 DEF Busy, ScriptInv
  <2>5. Fits(m, r)
    <3>1. GuardedAt(m, call.script, r, 1)
      BY <2>3, <2>4 DEF WorldInv, Guarded
    <3> QED BY <1>2, <2>2, <3>1 DEF GuardedAt
  <2>6. e.frame = (IF e.method = "frame" THEN "sub" ELSE "main") /\ e.world = WorldAsked(e)
    <3>1. WorldAsked(e) = WorldAsked([method |-> m, found |-> r.first.world])
      BY DEF WorldAsked
    <3>2. e.frame = c.frame /\ e.world = c.world /\ e.method = m
      OBVIOUS
    <3> HIDE DEF e
    <3>3. CASE r.context = NoScriptContext /\ m \notin Stealthy
                 /\ (m = "set_content" => r.first = NoScriptContext)
      <4>1. c = [frame |-> "main", doc |-> docs["main"], world |-> "main"]
        BY <3>3 DEF OrDefault, InMain
      <4>2. c.frame = "main" /\ c.world = "main" /\ NoScriptContext.world = "none"
        BY <4>1 DEF NoScriptContext
      <4>3. WorldAsked([method |-> m, found |-> r.first.world]) = "main"
        BY <3>3, <4>2 DEF WorldAsked, Stealthy
      <4>4. m # "frame"
        BY <3>3 DEF Stealthy
      <4> QED BY <3>1, <3>2, <4>2, <4>3, <4>4
    <3>4. CASE /\ r.context.frame = AskedFrame(m)
               /\ r.context.world = WorldAsked([method |-> m, found |-> r.first.world])
      <4>1. WorldAsked([method |-> m, found |-> r.first.world]) \in {"chaser", "util", "main"}
        BY DEF WorldAsked
      <4>2. r.context # NoScriptContext
        BY <3>4, <4>1 DEF NoScriptContext
      <4>3. c = r.context
        BY <4>2 DEF OrDefault
      <4> QED BY <3>1, <3>2, <3>4, <4>3 DEF AskedFrame
    <3> QED BY <2>5, <3>3, <3>4 DEF Fits
  <2> HIDE DEF e
  <2>7. ASSUME NEW x \in ran'
        PROVE  x.frame = (IF x.method = "frame" THEN "sub" ELSE "main") /\ x.world = WorldAsked(x)
    BY <2>1, <2>6, <2>7 DEF WorldInv, ScriptsRunWhereAsked
  <2> QED BY <2>7 DEF ScriptsRunWhereAsked
<1> QED BY <1>1, <1>2

LEMMA FailedTypes ==
  ASSUME OpsTypes, ScriptInv, Busy, Failed PROVE call' \in Calls
BY EndsCall, AgainCall DEF Failed

LEMMA TypesNext ==
  ASSUME OpsTypes, ScriptInv, [OpsNext]_pageOpsVars PROVE OpsTypes'
<1>1. ASSUME NEW m \in Methods, StartCall(m) PROVE OpsTypes'
  <2>1. calls' \in 0..MaxCalls
    BY <1>1, CallsAreBounded DEF StartCall, OpsTypes
  <2> QED BY <1>1, <2>1, StartedCall DEF OpsTypes, browserVars
<1>2. CASE Served
  <2>1. Busy /\ call' \in Calls
    BY <1>2, ServedCall
  <2>2. Effect(Current) /\ UNCHANGED <<calls, mishap>> /\ Current \in Commands
    BY <1>2, <2>1, WhatIsSent DEF Served
  <2>3. input' \in Inputs /\ overrides' \in SUBSET Args /\ cookie' \in Cookies /\ docs' = docs
    BY <2>2, Effects
  <2> QED BY <2>1, <2>2, <2>3 DEF OpsTypes
<1>3. CASE Refused
  <2>1. call' \in Calls /\ UNCHANGED browserVars
    BY <1>3, FailedTypes DEF Refused
  <2>2. mishap' \in {"none", "failed", "lost"} /\ calls' = calls
    BY <1>3 DEF Refused
  <2> QED BY <2>1, <2>2 DEF OpsTypes, browserVars
<1>4. CASE AnswerLost
  <2>1. Busy /\ call' \in Calls /\ Effect(Current) /\ mishap' = "lost" /\ calls' = calls
    BY <1>4, FailedTypes DEF AnswerLost
  <2>2. Current \in Commands
    BY <2>1, WhatIsSent
  <2>3. input' \in Inputs /\ overrides' \in SUBSET Args /\ cookie' \in Cookies /\ docs' = docs
    BY <2>1, <2>2, Effects
  <2> QED BY <2>1, <2>3 DEF OpsTypes
<1>5. CASE Dropped
  <2>1. /\ call' = [call EXCEPT !.status = "dropped"] /\ mishap' = "lost"
        /\ UNCHANGED <<calls, browserVars>>
    BY <1>5 DEF Dropped
  <2>2. call' \in Calls
    BY <2>1 DEF OpsTypes, Calls
  <2> QED BY <2>1, <2>2 DEF OpsTypes, browserVars
<1>6. CASE DocumentNavigates
  <2>1. docs' = [docs EXCEPT !["main"] = @ + 1, !["sub"] = 0]
    BY <1>6 DEF DocumentNavigates
  <2>2. docs' \in [{"main", "sub"} -> Nat]
    BY <2>1 DEF OpsTypes
  <2> QED BY <1>6, <2>2 DEF OpsTypes, DocumentNavigates
<1>7. CASE SubFrameChanges
  <2>1. PICK n \in {0, docs["main"]} : docs' = [docs EXCEPT !["sub"] = n]
    BY <1>7 DEF SubFrameChanges
  <2>2. docs' \in [{"main", "sub"} -> Nat]
    BY <2>1 DEF OpsTypes
  <2> QED BY <1>7, <2>2 DEF OpsTypes, SubFrameChanges
<1>8. CASE UNCHANGED pageOpsVars
  BY <1>8 DEF OpsTypes, pageOpsVars, browserVars
<1> QED BY <1>1, <1>2, <1>3, <1>4, <1>5, <1>6, <1>7, <1>8 DEF OpsNext

LEMMA LeftOfTail ==
  ASSUME NEW s \in Seq(Commands), NEW w \in Seq(Commands), NEW n \in Nat, s # <<>>, LeftOf(s, w, n)
  PROVE  LeftOf(Tail(s), w, n + 1)
<1>1. /\ Len(Tail(s)) = Len(s) - 1 /\ Len(s) \in Nat
      /\ \A k \in 1..Len(Tail(s)) : k + 1 \in 1..Len(s) /\ Tail(s)[k] = s[k + 1]
  BY TailParts
<1>2. ASSUME NEW k \in 1..Len(Tail(s)) PROVE Tail(s)[k] = w[k + (n + 1)]
  <2>1. Tail(s)[k] = w[(k + 1) + n]
    BY <1>1 DEF LeftOf
  <2>2. (k + 1) + n = k + (n + 1)
    BY <1>1
  <2> QED BY <2>1, <2>2
<1>3. Len(Tail(s)) + (n + 1) = Len(w)
  BY <1>1 DEF LeftOf
<1> QED BY <1>2, <1>3 DEF LeftOf

LEMMA LeftOfAll == ASSUME NEW s \in Seq(Commands) PROVE LeftOf(s, s, 0)
<1>1. Len(s) \in Nat /\ \A k \in 1..Len(s) : k + 0 = k
  OBVIOUS
<1> QED BY <1>1 DEF LeftOf

LEMMA FailedScript ==
  ASSUME OpsTypes, ScriptInv, Busy, Failed, mishap' # "none" PROVE ScriptInv'
<1>1. /\ call.script \in Seq(Commands) /\ call.script # <<>> /\ ClosedScript(call.script)
      /\ call.method \in Methods /\ call.method \in AllMethods
      /\ Behaves(call.method, Script(call.method))
  BY WhatIsSent DEF ScriptInv
<1>2. CASE LookingUp /\ WaitForSelector
  <2>1. /\ call'.script = Script(call.method) /\ call'.done = 0 /\ call'.method = call.method
        /\ call'.status = call.status /\ call.method \in {"locator_click", "locator_text"}
    BY <1>2, AgainCall
  <2>2. LeftOf(call'.script, Script(call'.method), call'.done)
    BY <1>1, <2>1, LeftOfAll DEF Behaves
  <2>3. ~Cleaning'
    BY <2>1 DEF ScriptInv, Cleaning
  <2>4. call'.status # "ok"
    BY <2>1 DEF Busy, Running, Cleaning
  <2>5. call'.method \in Methods /\ call'.script # <<>> /\ ClosedScript(call'.script)
        /\ call'.method # "apply_native_profile"
    BY <1>1, <2>1 DEF Behaves
  <2> HIDE DEF Script
  <2> QED BY <2>2, <2>3, <2>4, <2>5 DEF ScriptInv
<1>3. CASE Ends
  <2>1. SameCall(call', call)
    BY <1>3, EndsCall
  <2>2. call'.method = call.method /\ call'.done = call.done
    BY <2>1 DEF SameCall
  <2>3. CASE /\ Cleaning \/ Current.do = "try"
             /\ call'.script = Tail(call.script)
             /\ call'.status = IF Tail(call.script) = <<>> THEN "failed" ELSE call.status
    <3>1. ClosedScript(call'.script) /\ (Busy' => call'.script # <<>>)
      BY <1>1, <2>3, ClosedTail DEF Busy, Running, Cleaning
    <3>2. call'.status # "ok"
      BY <2>3 DEF Busy, Running, Cleaning
    <3>3. CASE Cleaning
      <4>1. ~Running' /\ call'.status # "running"
        BY <2>3, <3>3 DEF Cleaning, Running
      <4>2. \A n \in 1..Len(call'.script) : call'.script[n].do = "keyUp"
        BY <1>1, <2>3, <3>3, TailParts DEF ScriptInv
      <4>3. call'.method = "press_key_combo"
        BY <2>2, <3>3 DEF ScriptInv
      <4> QED BY <1>1, <2>2, <3>1, <3>2, <4>1, <4>2, <4>3 DEF ScriptInv
    <3>4. CASE ~Cleaning
      <4>1. Running /\ Current.do = "try"
        BY <2>3, <3>4 DEF Busy
      <4>2. call.method = "apply_native_profile"
        BY <4>1, SentByMethod
      <4>3. Piece(call'.script, Deeds \cup {"try"})
        BY <1>1, <2>3, <4>1, <4>2, PieceTail DEF ScriptInv
      <4>4. ~Cleaning'
        BY <2>3, <3>4 DEF Cleaning
      <4> QED BY <1>1, <2>2, <3>1, <3>2, <4>2, <4>3, <4>4 DEF ScriptInv
    <3> QED BY <3>3, <3>4
  <2>4. CASE /\ Running /\ Current.do # "try" /\ call.method = "press_key_combo" /\ HeldCount > 0
             /\ call'.script = ReleaseKeys(HeldCount) /\ call'.status = "cleaning"
    <3> DEFINE s == ReleaseKeys(HeldCount)
    <3>1. HeldCount \in 1..2
      BY <2>4, Held
    <3>2. s \in Seq(Commands) /\ Len(s) = HeldCount /\ \A i \in 1..HeldCount : s[i].do = "keyUp"
      BY <3>1, Releasing
    <3> HIDE DEF s
    <3>3. s # <<>> /\ ClosedScript(s) /\ \A i \in 1..Len(s) : s[i].do = "keyUp"
      BY <3>1, <3>2 DEF ClosedScript, IsOpening
    <3>4. call'.script = s /\ call'.status = "cleaning" /\ call'.method = "press_key_combo"
      BY <2>2, <2>4 DEF s
    <3> QED BY <1>1, <2>2, <3>3, <3>4 DEF ScriptInv, Running
  <2>5. CASE /\ call'.script = call.script /\ call'.status \in {"panicked", "failed"}
    <3>1. ~Busy' /\ ~Running' /\ ~Cleaning' /\ call'.status \notin {"running", "ok"}
      BY <2>5 DEF Busy, Running, Cleaning
    <3> QED BY <3>1 DEF ScriptInv
  <2> QED BY <1>3, <2>3, <2>4, <2>5, EndsCall
<1> QED BY <1>2, <1>3 DEF Failed

LEMMA ScriptNext ==
  ASSUME OpsTypes, ScriptInv, [OpsNext]_pageOpsVars PROVE ScriptInv'
<1>1. ASSUME NEW m \in Methods, StartCall(m) PROVE ScriptInv'
  <2>1. /\ Behaves(m, Script(m)) /\ call'.method = m /\ call'.script = Script(m) /\ call'.done = 0
        /\ call'.status = "running"
    BY <1>1, StartedCall
  <2>2. Script(m) \in Seq(Commands) /\ Script(m) # <<>> /\ ClosedScript(Script(m))
    BY <2>1 DEF Behaves
  <2>3. LeftOf(Script(m), Script(m), 0)
    BY <2>2, LeftOfAll
  <2>4. m = "apply_native_profile" => Piece(Script(m), Deeds \cup {"try"})
    BY NativeScript DEF Part
  <2> HIDE DEF Script
  <2>5. ~Cleaning'
    BY <2>1 DEF Cleaning
  <2> QED BY <2>1, <2>2, <2>3, <2>4, <2>5 DEF ScriptInv
<1>2. CASE Served
  <2>1. /\ Busy /\ call'.script = Tail(call.script) /\ call'.done = call.done + 1
        /\ call'.method = call.method
        /\ call'.status = IF Tail(call.script) # <<>> THEN call.status
                          ELSE IF Running THEN "ok" ELSE "failed"
    BY <1>2, ServedCall
  <2>2. /\ call.script \in Seq(Commands) /\ call.script # <<>> /\ ClosedScript(call.script)
        /\ call.method \in Methods /\ Script(call.method) \in Seq(Commands)
    BY <2>1, WhatIsSent DEF ScriptInv
  <2>3. ClosedScript(call'.script) /\ mishap' = mishap
    BY <1>2, <2>1, <2>2, ClosedTail DEF Served
  <2>4. /\ Busy' => call'.script # <<>>
        /\ call'.status = "ok" => call'.script = <<>>
        /\ call'.status \in {"running", "ok"} => Running
        /\ Cleaning' => Cleaning
    BY <2>1 DEF Busy, Running, Cleaning
  <2>5. ASSUME Running, call.method # "apply_native_profile"
        PROVE  LeftOf(call'.script, Script(call.method), call'.done)
    <3>1. LeftOf(call.script, Script(call.method), call.done) /\ call.done \in Nat
      BY <2>5, Whole
    <3> QED BY <2>1, <2>2, <3>1, LeftOfTail
  <2>6. ASSUME Running, call.method = "apply_native_profile"
        PROVE  Piece(call'.script, Deeds \cup {"try"})
    BY <2>1, <2>2, <2>6, PieceTail DEF ScriptInv
  <2>7. ASSUME Cleaning
        PROVE  /\ call.method = "press_key_combo" /\ mishap # "none"
               /\ \A n \in 1..Len(call'.script) : call'.script[n].do = "keyUp"
    BY <2>1, <2>2, <2>7, TailParts DEF ScriptInv
  <2> HIDE DEF Script
  <2>8. Running' => Running
    BY <2>4 DEF Running
  <2> QED BY <2>1, <2>2, <2>3, <2>4, <2>5, <2>6, <2>7, <2>8 DEF ScriptInv
<1>3. CASE Refused \/ AnswerLost
  <2>1. Busy /\ Failed /\ mishap' # "none"
    BY <1>3 DEF Refused, AnswerLost
  <2> QED BY <2>1, FailedScript
<1>5. CASE Dropped
  <2>1. call' = [call EXCEPT !.status = "dropped"]
    BY <1>5 DEF Dropped
  <2>2. call'.status = "dropped"
    BY <2>1 DEF OpsTypes, Calls
  <2> QED BY <2>2 DEF ScriptInv, Busy, Running, Cleaning
<1>6. CASE call' = call /\ mishap' = mishap
  BY <1>6 DEF ScriptInv, Busy, Running, Cleaning
<1> QED BY <1>1, <1>2, <1>3, <1>5, <1>6
        DEF OpsNext, DocumentNavigates, SubFrameChanges, pageOpsVars

-----------------------------------------------------------------------------
(* What the calls leave behind *)

LEMMA CommandIs ==
  ASSUME NEW c \in Commands, NEW do, NEW arg, c.do = do, c.arg = arg PROVE c = Cmd(do, arg)
<1>1. c = [do |-> c.do, arg |-> c.arg]
  BY DEF Commands
<1> QED BY <1>1 DEF Cmd

LEMMA StillThere ==
  ASSUME NEW s \in Seq(Commands), s # <<>>, NEW x, Head(s) # x, \E n \in 1..Len(s) : s[n] = x
  PROVE  \E n \in 1..Len(Tail(s)) : Tail(s)[n] = x
<1>1. PICK n \in 1..Len(s) : s[n] = x
  OBVIOUS
<1>2. n # 1
  BY <1>1, TailParts
<1> QED BY <1>1, <1>2, TailParts

\* What the next command opens the rest of the script undoes.
LEMMA UndoneLater ==
  ASSUME NEW s \in Seq(Commands), s # <<>>, ClosedScript(s), IsOpening(Head(s))
  PROVE  \E n \in 1..Len(Tail(s)) : Tail(s)[n] \in Commands /\ Undoes(Tail(s)[n], Head(s))
<1>1. Head(s) = s[1] /\ 1 \in 1..Len(s)
  BY TailParts
<1>2. PICK j \in 1..Len(s) : j > 1 /\ Undoes(s[j], s[1])
  BY <1>1 DEF ClosedScript
<1>3. j - 1 \in 1..Len(Tail(s)) /\ Tail(s)[j - 1] = s[j] /\ s[j] \in Commands
  BY <1>2, TailParts
<1> QED BY <1>1, <1>2, <1>3

LEMMA ServedKeys ==
  ASSUME OpsTypes, ScriptInv, Served, NEW key \in input'.keys,
         key \in input.keys => LetsUp(key)
  PROVE  LetsUp(key)'
<1> DEFINE s == call.script
<1>1. Busy /\ call'.script = Tail(s) /\ Effect(Current)
  BY ServedCall DEF Served
<1>2. s \in Seq(Commands) /\ s # <<>> /\ ClosedScript(s) /\ Current \in Commands /\ Current = Head(s)
  BY <1>1, WhatIsSent DEF Current
<1>3. \/ key \in input.keys /\ Current # Up(key)
      \/ Current.do = "keyDown" /\ Current.arg = key
  BY <1>1, <1>2, Effects
<1>4. CASE key \in input.keys /\ Current # Up(key)
  <2>1. \E n \in 1..Len(s) : s[n] = Up(key)
    BY <1>4 DEF LetsUp
  <2>2. \E n \in 1..Len(Tail(s)) : Tail(s)[n] = Up(key)
    BY <1>2, <1>4, <2>1, StillThere
  <2> QED BY <1>1, <2>2 DEF LetsUp
<1>5. CASE Current.do = "keyDown" /\ Current.arg = key
  <2>1. PICK n \in 1..Len(Tail(s)) : Tail(s)[n] \in Commands /\ Undoes(Tail(s)[n], Current)
    BY <1>2, <1>5, UndoneLater DEF IsOpening
  <2>2. Tail(s)[n].do = "keyUp" /\ Tail(s)[n].arg = key
    BY <1>5, <2>1 DEF Undoes
  <2>3. Tail(s)[n] = Up(key)
    BY <2>1, <2>2, CommandIs DEF Up
  <2> QED BY <1>1, <2>3 DEF LetsUp
<1> QED BY <1>3, <1>4, <1>5

LEMMA ServedOwed ==
  ASSUME OpsTypes, ScriptInv, OwedInv, Served PROVE OwedInv'
<1> SUFFICES ASSUME mishap' = "none" PROVE
      /\ call'.status \in {"running", "ok"}
      /\ \A key \in input'.keys : LetsUp(key)'
      /\ input'.button = "up" \/ LetsGo'
      /\ \A what \in overrides' \cap {"metrics", "background"} : Clears(what)'
  BY DEF OwedInv
<1> DEFINE s == call.script
<1>1. Busy /\ call'.script = Tail(s) /\ Effect(Current) /\ mishap = "none"
  BY ServedCall DEF Served
<1>2. s \in Seq(Commands) /\ s # <<>> /\ ClosedScript(s) /\ Current \in Commands /\ Current = Head(s)
  BY <1>1, WhatIsSent DEF Current
<1>3. Running
  BY <1>1 DEF OwedInv, Busy, Running, Cleaning
<1>4. call'.status \in {"running", "ok"}
  BY <1>3, ServedCall DEF Running
<1>5. \A key \in input'.keys : LetsUp(key)'
  BY <1>1, ServedKeys DEF OwedInv
<1>6. input'.button = "up" \/ LetsGo'
  <2>1. \/ input'.button = input.button /\ ~(Current.do = "mouse" /\ Current.arg # "moved")
        \/ input'.button = Current.arg /\ Current.do = "mouse" /\ Current.arg # "moved"
    BY <1>1, <1>2, Effects
  <2>2. CASE input'.button = input.button /\ ~(Current.do = "mouse" /\ Current.arg # "moved")
    <3>1. CASE input.button = "up"
      BY <2>2, <3>1
    <3>2. CASE input.button # "up"
      <4>1. \E n \in 1..Len(s) : s[n] = Cmd("mouse", "up")
        BY <1>1, <3>2 DEF OwedInv, LetsGo
      <4>2. Current # Cmd("mouse", "up")
        BY <2>2, Fields
      <4>3. \E n \in 1..Len(Tail(s)) : Tail(s)[n] = Cmd("mouse", "up")
        BY <1>2, <4>1, <4>2, StillThere
      <4> QED BY <1>1, <4>3 DEF LetsGo
    <3> QED BY <3>1, <3>2
  <2>3. CASE input'.button = Current.arg /\ Current.do = "mouse" /\ Current.arg # "moved"
    <3>1. CASE Current.arg = "up"
      BY <2>3, <3>1
    <3>2. CASE Current.arg # "up"
      <4>1. PICK n \in 1..Len(Tail(s)) : Tail(s)[n] \in Commands /\ Undoes(Tail(s)[n], Current)
        BY <1>2, <2>3, <3>2, UndoneLater DEF IsOpening
      <4>2. Tail(s)[n].do = "mouse" /\ Tail(s)[n].arg = "up"
        BY <2>3, <4>1 DEF Undoes
      <4>3. Tail(s)[n] = Cmd("mouse", "up")
        BY <4>1, <4>2, CommandIs
      <4> QED BY <1>1, <4>3 DEF LetsGo
    <3> QED BY <3>1, <3>2
  <2> QED BY <2>1, <2>2, <2>3
<1>7. ASSUME NEW what \in overrides' \cap {"metrics", "background"} PROVE Clears(what)'
  <2>1. \/ what \in overrides /\ Current # Cmd("clear", what)
        \/ Current.do \in {"set", "try"} /\ Current.arg = what
    BY <1>1, <1>2, Effects
  <2>2. CASE what \in overrides /\ Current # Cmd("clear", what)
    <3>1. \E n \in 1..Len(s) : s[n] = Cmd("clear", what)
      BY <1>1, <1>7, <2>2 DEF OwedInv, Clears
    <3>2. \E n \in 1..Len(Tail(s)) : Tail(s)[n] = Cmd("clear", what)
      BY <1>2, <2>2, <3>1, StillThere
    <3> QED BY <1>1, <3>2 DEF Clears
  <2>3. CASE Current.do \in {"set", "try"} /\ Current.arg = what
    <3>1. Current.do = "set"
      BY <1>2, <1>7, <2>3 DEF Commands
    <3>2. PICK n \in 1..Len(Tail(s)) : Tail(s)[n] \in Commands /\ Undoes(Tail(s)[n], Current)
      BY <1>2, <1>7, <2>3, <3>1, UndoneLater DEF IsOpening
    <3>3. Tail(s)[n].do = "clear" /\ Tail(s)[n].arg = what
      BY <2>3, <3>1, <3>2 DEF Undoes
    <3>4. Tail(s)[n] = Cmd("clear", what)
      BY <3>2, <3>3, CommandIs
    <3> QED BY <1>1, <3>4 DEF Clears
  <2> QED BY <2>1, <2>2, <2>3
<1> QED BY <1>4, <1>5, <1>6, <1>7

\* Between calls nothing is owed.
LEMMA NothingOwed ==
  ASSUME OpsTypes, ScriptInv, OwedInv, ~Busy, mishap = "none"
  PROVE  input.keys = {} /\ input.button = "up" /\ overrides \cap {"metrics", "background"} = {}
<1>1. call.status = "ok"
  BY DEF OwedInv, Busy, Running
<1>2. call.script = <<>>
  BY <1>1 DEF ScriptInv
<1>3. Len(call.script) = 0
  BY <1>2
<1>4. (\A key : ~LetsUp(key)) /\ ~LetsGo /\ \A what : ~Clears(what)
  BY <1>3 DEF LetsUp, LetsGo, Clears
<1> QED BY <1>4 DEF OwedInv

LEMMA OwedNext ==
  ASSUME OpsTypes, ScriptInv, OwedInv, [OpsNext]_pageOpsVars PROVE OwedInv'
<1>1. ASSUME NEW m \in Methods, StartCall(m) PROVE OwedInv'
  <2>1. ~Busy /\ call'.status = "running" /\ UNCHANGED <<browserVars, ran, mishap>>
    BY <1>1, StartedCall
  <2>2. input' = input /\ overrides' = overrides /\ mishap' = mishap
    BY <2>1 DEF browserVars
  <2> QED BY <2>1, <2>2, NothingOwed DEF OwedInv
<1>2. CASE Served
  BY <1>2, ServedOwed
<1>3. CASE Refused \/ AnswerLost \/ Dropped
  <2>1. mishap' # "none"
    BY <1>3 DEF Refused, AnswerLost, Dropped
  <2> QED BY <2>1 DEF OwedInv
<1>4. CASE call' = call /\ mishap' = mishap /\ input' = input /\ overrides' = overrides
  BY <1>4 DEF OwedInv, LetsUp, LetsGo, Clears
<1> QED BY <1>1, <1>2, <1>3, <1>4
        DEF OpsNext, DocumentNavigates, SubFrameChanges, pageOpsVars, browserVars

LEMMA ServedHeld ==
  ASSUME OpsTypes, ScriptInv, HeldInv, Served PROVE HeldInv'
<1> SUFFICES ASSUME mishap' # "lost", NEW key \in input'.keys, IsModifier(key)
             PROVE  /\ Busy' /\ LetsUp(key)'
                    /\ Running' => /\ call'.method = "press_key_combo"
                                   /\ \/ key = "Control" /\ call'.done > 0
                                      \/ key = "Shift" /\ call'.done > 1
  BY DEF HeldInv
<1> DEFINE s == call.script
<1>1. /\ Busy /\ call'.script = Tail(s) /\ Effect(Current) /\ mishap # "lost"
      /\ call'.done = call.done + 1 /\ call'.method = call.method /\ call.done \in Nat
      /\ call'.status = IF Tail(s) # <<>> THEN call.status ELSE IF Running THEN "ok" ELSE "failed"
  BY ServedCall DEF Served, OpsTypes, Calls
<1>2. LetsUp(key)'
  BY <1>1, ServedKeys DEF HeldInv
<1>3. Tail(s) # <<>>
  <2> DEFINE t == Tail(s)
  <2>1. PICK n \in 1..Len(t) : t[n] = Up(key)
    BY <1>1, <1>2 DEF LetsUp
  <2> HIDE DEF t
  <2>2. t = <<>> => Len(t) = 0
    OBVIOUS
  <2>3. t # <<>>
    BY ONLY <2>1, <2>2
  <2> QED BY <2>3 DEF t
<1>4. Busy'
  BY <1>1, <1>3 DEF Busy, Running, Cleaning
<1>5. ASSUME Running'
      PROVE  /\ call'.method = "press_key_combo"
             /\ (key = "Control" /\ call'.done > 0) \/ (key = "Shift" /\ call'.done > 1)
  <2>1. Running
    BY <1>1, <1>3, <1>5 DEF Running
  <2>2. key \in input.keys \/ (Current.do = "keyDown" /\ Current.arg = key)
    BY <1>1, WhatIsSent, Effects
  <2>3. CASE key \in input.keys
    <3>1. /\ call.method = "press_key_combo"
          /\ (key = "Control" /\ call.done > 0) \/ (key = "Shift" /\ call.done > 1)
      BY <1>1, <2>1, <2>3 DEF HeldInv
    <3> QED BY <1>1, <3>1
  <2>4. CASE Current.do = "keyDown" /\ Current.arg = key
    <3>1. /\ call.method = "press_key_combo"
          /\ (call.done = 0 /\ key = "Control") \/ (call.done = 1 /\ key = "Shift")
      BY <2>1, <2>4, SentByMethod
    <3> QED BY <1>1, <3>1
  <2> QED BY <2>2, <2>3, <2>4
<1> QED BY <1>2, <1>4, <1>5

LEMMA RefusedHeld ==
  ASSUME OpsTypes, ScriptInv, HeldInv, Refused PROVE HeldInv'
<1> SUFFICES ASSUME mishap' # "lost" PROVE HeldInv'
  BY DEF HeldInv
<1>1. Busy /\ Running /\ ~Cleaning /\ mishap # "lost" /\ input' = input /\ Failed
  BY DEF Refused, browserVars, Busy
<1>2. \A key \in input.keys : IsModifier(key) =>
        /\ call.method = "press_key_combo"
        /\ (key = "Control" /\ call.done > 0) \/ (key = "Shift" /\ call.done > 1)
  BY <1>1 DEF HeldInv
<1>3. CASE call.method # "press_key_combo"
  <2>1. \A key \in input'.keys : ~IsModifier(key)
    BY <1>1, <1>2, <1>3
  <2> QED BY <2>1 DEF HeldInv
<1>4. CASE call.method = "press_key_combo"
  <2>1. Ends
    BY <1>1, <1>4 DEF Failed, LookingUp
  <2>2. Current.do # "try"
    BY <1>1, <1>4, SentByMethod
  <2>3. CASE HeldCount > 0
    <3>1. call'.script = ReleaseKeys(HeldCount) /\ call'.status = "cleaning"
      BY <1>1, <1>4, <2>1, <2>2, <2>3, EndsCall
    <3>2. /\ HeldCount \in 1..2 /\ (HeldCount = 1 <=> call.done = 1) /\ call.done \in Nat
          /\ (HeldCount = 2 <=> call.done > 1)
      BY <2>3, Held DEF OpsTypes, Calls
    <3>3. Modifiers[1] = "Control" /\ Modifiers[2] = "Shift"
      BY DEF Modifiers
    <3>4. Len(call'.script) = HeldCount
          /\ \A i \in 1..HeldCount : call'.script[i] = Up(Modifiers[HeldCount + 1 - i])
      BY <3>1, <3>2, Releasing
    <3>5. ASSUME NEW key \in input.keys, IsModifier(key) PROVE LetsUp(key)'
      <4>1. CASE key = "Control"
        <5>1. HeldCount \in 1..HeldCount /\ HeldCount + 1 - HeldCount = 1
          BY <3>2
        <5>2. call'.script[HeldCount] = Up("Control")
          BY <3>3, <3>4, <5>1
        <5> QED BY <3>4, <4>1, <5>1, <5>2 DEF LetsUp
      <4>2. CASE key = "Shift"
        <5>1. HeldCount = 2
          BY <1>2, <3>2, <3>5, <4>2
        <5>2. 1 \in 1..HeldCount /\ HeldCount + 1 - 1 = 2
          BY <5>1
        <5>3. call'.script[1] = Up("Shift")
          BY <3>3, <3>4, <5>2
        <5> QED BY <3>4, <4>2, <5>2, <5>3 DEF LetsUp
      <4> QED BY <3>5, <4>1, <4>2 DEF IsModifier
    <3>6. Busy' /\ ~Running'
      BY <3>1 DEF Busy, Running, Cleaning
    <3> QED BY <1>1, <3>5, <3>6 DEF HeldInv
  <2>4. CASE ~(HeldCount > 0)
    <3>1. call'.status \in {"panicked", "failed"}
      BY <1>1, <2>1, <2>2, <2>4, EndsCall
    <3>2. call.done = 0
      BY <2>4, Held
    <3>3. \A key \in input'.keys : ~IsModifier(key)
      BY <1>1, <1>2, <3>2
    <3> QED BY <3>3 DEF HeldInv
  <2> QED BY <2>3, <2>4
<1> QED BY <1>3, <1>4

LEMMA HeldNext ==
  ASSUME OpsTypes, ScriptInv, HeldInv, [OpsNext]_pageOpsVars PROVE HeldInv'
<1>1. ASSUME NEW m \in Methods, StartCall(m) PROVE HeldInv'
  <2>1. ~Busy /\ UNCHANGED <<browserVars, ran, mishap>>
    BY <1>1, StartedCall
  <2>2. input' = input /\ mishap' = mishap
    BY <2>1 DEF browserVars
  <2>3. mishap' # "lost" => \A key \in input'.keys : ~IsModifier(key)
    BY <2>1, <2>2 DEF HeldInv
  <2> QED BY <2>3 DEF HeldInv
<1>2. CASE AnswerLost \/ Dropped
  <2>1. mishap' = "lost"
    BY <1>2 DEF AnswerLost, Dropped
  <2> QED BY <2>1 DEF HeldInv
<1>3. CASE call' = call /\ mishap' = mishap /\ input' = input
  BY <1>3 DEF HeldInv, LetsUp, Busy, Running, Cleaning
<1> QED BY <1>1, <1>2, <1>3, ServedHeld, RefusedHeld
        DEF OpsNext, DocumentNavigates, SubFrameChanges, pageOpsVars, browserVars

\* The script of a turned away set_cookies ends before its second command is served.
LEMMA TurnedAway ==
  ASSUME OpsTypes, ScriptInv, CookieInv, Busy, call.method = "set_cookies_invalid",
         CanServe(Current)
  PROVE  call.done = 0 /\ Current.do = "ask"
<1>1. Running
  BY DEF Busy, ScriptInv
<1>2. call.done \in Nat /\ call.done < 2 /\ Current = Script(call.method)[call.done + 1]
  BY <1>1, Whole DEF CookieInv
<1>3. CASE call.done = 1
  <2>1. Current = Script("set_cookies_invalid")[2]
    <3>1. Current = Script("set_cookies_invalid")[1 + 1]
      BY <1>2, <1>3
    <3> QED BY <3>1
  <2>3. Current = Cmd("validate", FALSE)
    BY <2>1, InvalidCookies
  <2>2. Current.do = "validate" /\ Current.arg = FALSE
    BY <2>3, Fields
  <2> QED BY <2>2 DEF CanServe
<1>4. CASE call.done = 0
  BY <1>2, <1>4, InvalidCookies
<1> QED BY <1>2, <1>3, <1>4

LEMMA CookieNext ==
  ASSUME OpsTypes, ScriptInv, CookieInv, [OpsNext]_pageOpsVars PROVE CookieInv'
<1>1. ASSUME NEW m \in Methods, StartCall(m) PROVE CookieInv'
  <2>1. call'.cookie = cookie /\ cookie' = cookie /\ call'.done = 0
    BY <1>1, StartedCall DEF browserVars
  <2> QED BY <2>1 DEF CookieInv
<1>2. CASE Served
  <2>1. /\ Busy /\ call'.method = call.method /\ call'.cookie = call.cookie
        /\ call'.done = call.done + 1 /\ CanServe(Current) /\ Effect(Current)
    BY <1>2, ServedCall DEF Served
  <2>2. ASSUME call.method = "set_cookies_invalid"
        PROVE  call.done = 0 /\ cookie' = cookie
    <3>1. call.done = 0 /\ Current.do = "ask"
      BY <2>1, <2>2, TurnedAway
    <3> QED BY <2>1, <3>1 DEF Effect
  <2> QED BY <2>1, <2>2 DEF CookieInv
<1>3. CASE Refused \/ AnswerLost
  <2>1. Busy /\ Failed
    BY <1>3 DEF Refused, AnswerLost
  <2> SUFFICES ASSUME call'.method = "set_cookies_invalid"
               PROVE  cookie' = call'.cookie /\ call'.done < 2
    BY DEF CookieInv
  <2>2. Ends
    BY <2>1, AgainCall DEF Failed
  <2>3. call'.method = call.method /\ call'.done = call.done /\ call'.cookie = call.cookie
    BY <2>1, <2>2, EndsCall DEF SameCall
  <2>4. cookie' = cookie
    <3>1. CASE Refused
      BY <3>1 DEF Refused, browserVars
    <3>2. CASE AnswerLost
      <4>1. CanServe(Current) /\ Effect(Current)
        BY <3>2 DEF AnswerLost
      <4>2. Current.do = "ask"
        BY <2>1, <2>3, <4>1, TurnedAway
      <4> QED BY <4>1, <4>2 DEF Effect
    <3> QED BY <1>3, <3>1, <3>2
  <2> QED BY <2>1, <2>3, <2>4 DEF CookieInv
<1>4. CASE Dropped
  <2>1. call' = [call EXCEPT !.status = "dropped"] /\ cookie' = cookie
    BY <1>4 DEF Dropped, browserVars
  <2>2. call'.method = call.method /\ call'.cookie = call.cookie /\ call'.status = "dropped"
    BY <2>1 DEF OpsTypes, Calls
  <2> QED BY <2>1, <2>2 DEF CookieInv, Busy, Running, Cleaning
<1>5. CASE call' = call /\ cookie' = cookie
  BY <1>5 DEF CookieInv, Busy, Running, Cleaning
<1> QED BY <1>1, <1>2, <1>3, <1>4, <1>5
        DEF OpsNext, DocumentNavigates, SubFrameChanges, pageOpsVars, browserVars

-----------------------------------------------------------------------------
(* Where scripts run *)

\* What a command changes of the contexts.
LEMMA LearntContext ==
  ASSUME NEW cmd, NEW r \in RegisterRecords, NEW q \in Learnt(cmd, r)
  PROVE  /\ cmd.do \notin Looking => q.context = r.context /\ q.first = r.first
         /\ cmd.do = "isolate" =>
              q.context.frame = cmd.arg /\ q.context.world = "chaser" /\ q.first = r.first
         /\ cmd.do = "context" =>
              /\ q.context = q.first
              /\ q.first = NoScriptContext \/ (q.first.frame = "main" /\ q.first.world = cmd.arg)
         /\ cmd.do = "contextAgain" =>
              /\ q.first = r.first
              /\ IF r.context = NoScriptContext
                 THEN \/ q.context = NoScriptContext
                      \/ q.context.frame = "main" /\ q.context.world = cmd.arg
                 ELSE q.context = r.context
         /\ cmd.do = "contextOfFirst" =>
              /\ q.first = r.first
              /\ IF r.first = NoScriptContext
                 THEN \/ q.context = NoScriptContext
                      \/ q.context.frame = "main" /\ q.context.world = cmd.arg
                 ELSE q.context = r.first
<1>0. \A k \in Known(cmd.arg) :
        k = NoScriptContext \/ (k.frame = "main" /\ k.world = cmd.arg)
  BY KnownContexts
<1>1. CASE cmd.do = "isolate"
  <2> DEFINE c == [frame |-> cmd.arg, doc |-> docs[cmd.arg], world |-> "chaser"]
  <2>1. q = [r EXCEPT !.context = c]
    BY <1>1 DEF Learnt
  <2>2. q.context = c /\ q.first = r.first
    BY <2>1 DEF RegisterRecords
  <2> QED BY <1>1, <2>2 DEF Looking
<1>2. CASE cmd.do = "context"
  <2>1. PICK k \in Known(cmd.arg) : FirstLook(q, r, k)
    BY <1>2, LookLearnt
  <2>2. q.context = k /\ q.first = k
    BY <2>1, LookFields
  <2> QED BY <1>0, <1>2, <2>2 DEF Looking
<1>3. CASE cmd.do = "contextAgain"
  <2>1. PICK k \in KnownOr(r.context, cmd.arg) : LaterLook(q, r, k)
    BY <1>3, LookLearnt
  <2>2. q.context = k /\ q.first = r.first
    BY <2>1, LookFields
  <2> QED BY <1>0, <1>3, <2>1, <2>2 DEF Looking, KnownOr
<1>4. CASE cmd.do = "contextOfFirst"
  <2>1. PICK k \in KnownOr(r.first, cmd.arg) : LaterLook(q, r, k)
    BY <1>4, LookLearnt
  <2>2. q.context = k /\ q.first = r.first
    BY <2>1, LookFields
  <2> QED BY <1>0, <1>4, <2>1, <2>2 DEF Looking, KnownOr
<1>5. CASE cmd.do \notin Looking
  <2>1. q \in {[r EXCEPT !.root = Document], [r EXCEPT !.node = Under(r.root, cmd.arg)],
               [r EXCEPT !.node = Under(Document, cmd.arg)], [r EXCEPT !.root = Under(r.node, "#")],
               [r EXCEPT !.backend = r.node], [r EXCEPT !.object = r.backend], r}
    BY <1>5 DEF Learnt, Looking
  <2>2. q.context = r.context /\ q.first = r.first
    BY <2>1 DEF RegisterRecords
  <2> QED BY <1>5, <2>2 DEF Looking
<1> QED BY <1>1, <1>2, <1>3, <1>4, <1>5 DEF Looking

LEMMA GuardedTail ==
  ASSUME NEW m, NEW s \in Seq(Commands), s # <<>>, NEW c, NEW d, Guarded(m, s, c),
         Head(s).do \in Settling => Fits(m, d),
         Head(s).do = "context" => d.context = d.first,
         Head(s).do \notin Looking => d.context = c.context /\ d.first = c.first
  PROVE  Guarded(m, Tail(s), d)
<1> DEFINE t == Tail(s)
<1>1. /\ \A n \in 1..Len(t) : n + 1 \in 1..Len(s) /\ t[n] = s[n + 1]
      /\ Len(s) \in Nat /\ Len(t) = Len(s) - 1
      /\ \A n \in 1..Len(s) : n = 1 \/ (n - 1 \in 1..Len(t) /\ t[n - 1] = s[n])
      /\ Head(s) = s[1]
  BY TailParts
<1> HIDE DEF t
<1> SUFFICES ASSUME NEW n \in 1..Len(t) PROVE GuardedAt(m, t, d, n)
  BY DEF Guarded, t
<1>2. n + 1 \in 1..Len(s) /\ t[n] = s[n + 1] /\ n \in Nat /\ n >= 1 /\ 1 \in 1..Len(s)
  BY <1>1
<1>3. GuardedAt(m, s, c, n + 1) /\ GuardedAt(m, s, c, 1)
  BY <1>2 DEF Guarded
<1>4. ASSUME NEW j \in 1..((n + 1) - 1), s[j].do \in Settling
      PROVE  Fits(m, d) \/ \E i \in 1..(n - 1) : t[i].do \in Settling
  <2>1. CASE j = 1
    BY <1>1, <1>4, <2>1
  <2>2. CASE j # 1
    <3>1. j \in 1..Len(s) /\ j - 1 \in 1..(n - 1)
      BY <1>2, <1>1, <2>2
    <3>2. t[j - 1] = s[j]
      BY <1>1, <2>2, <3>1
    <3> QED BY <1>4, <3>1, <3>2
  <2> QED BY <2>1, <2>2
<1>5. ASSUME Fits(m, c), t[n].do \in {"evaluate", "callIn"}
      PROVE  Fits(m, d) \/ \E i \in 1..(n - 1) : t[i].do \in Settling
  <2>1. CASE s[1].do = "context"
    <3>1. s[1 + 1].do = "contextAgain"
      BY <1>3, <2>1 DEF GuardedAt
    <3>2. t[1].do = "contextAgain"
      BY <1>1, <1>2, <3>1
    <3>3. n # 1
      BY <1>5, <3>2
    <3>4. 1 \in 1..(n - 1)
      BY <1>2, <3>3
    <3> QED BY <3>2, <3>4 DEF Settling
  <2>2. CASE s[1].do \in Settling
    BY <1>1, <2>2
  <2>3. CASE s[1].do \notin Looking
    <3>1. d.context = c.context /\ d.first = c.first
      BY <1>1, <2>3
    <3> QED BY <1>5, <3>1 DEF Fits
  <2> QED BY <2>1, <2>2, <2>3 DEF Looking, Settling
<1>6. t[n].do \in {"evaluate", "callIn"} =>
        Fits(m, d) \/ \E i \in 1..(n - 1) : t[i].do \in Settling
  <2> SUFFICES ASSUME t[n].do \in {"evaluate", "callIn"}
               PROVE  Fits(m, d) \/ \E i \in 1..(n - 1) : t[i].do \in Settling
    OBVIOUS
  <2>1. Fits(m, c) \/ \E j \in 1..((n + 1) - 1) : s[j].do \in Settling
    BY <1>2, <1>3 DEF GuardedAt
  <2> QED BY <1>4, <1>5, <2>1
<1>7. t[n].do = "contextAgain" =>
        IF n = 1 THEN d.context = d.first ELSE t[n - 1].do = "context"
  <2> SUFFICES ASSUME t[n].do = "contextAgain"
               PROVE  IF n = 1 THEN d.context = d.first ELSE t[n - 1].do = "context"
    OBVIOUS
  <2>1. s[(n + 1) - 1].do = "context"
    BY <1>2, <1>3 DEF GuardedAt
  <2>2. s[n].do = "context" /\ n \in 1..Len(s)
    BY <1>1, <1>2, <2>1
  <2>3. CASE n = 1
    BY <1>1, <2>2, <2>3
  <2>4. CASE n # 1
    BY <1>1, <2>2, <2>4
  <2> QED BY <2>3, <2>4
<1>8. t[n].do = "context" => n < Len(t) /\ t[n + 1].do = "contextAgain"
  <2> SUFFICES ASSUME t[n].do = "context"
               PROVE  n < Len(t) /\ t[n + 1].do = "contextAgain"
    OBVIOUS
  <2>1. n + 1 < Len(s) /\ s[(n + 1) + 1].do = "contextAgain"
    BY <1>2, <1>3 DEF GuardedAt
  <2>2. n + 1 \in 1..Len(t)
    BY <1>1, <1>2, <2>1
  <2>3. t[n + 1] = s[(n + 1) + 1]
    BY <1>1, <2>2
  <2> QED BY <1>1, <1>2, <2>1, <2>2, <2>3
<1>9. /\ t[n].do = "isolate" => m \in Stealthy /\ t[n].arg = AskedFrame(m)
      /\ t[n].do = "context" =>
           m \notin Stealthy /\ t[n].arg = IF m = "set_content" THEN "util" ELSE "main"
      /\ t[n].do = "contextAgain" => m \notin Stealthy /\ t[n].arg = "main"
      /\ t[n].do = "contextOfFirst" => m \notin Stealthy \cup {"set_content"} /\ t[n].arg = "main"
  BY <1>2, <1>3 DEF GuardedAt
<1> QED BY <1>6, <1>7, <1>8, <1>9 DEF GuardedAt

\* A command that looks for a context leaves one that fits.
LEMMA LookFits ==
  ASSUME NEW m, NEW s, NEW r \in RegisterRecords, NEW q, GuardedAt(m, s, r, 1), Suits(m, r.first),
         q \in Learnt(s[1], r)
  PROVE  /\ s[1].do \in Settling => Fits(m, q)
         /\ s[1].do = "context" => q.context = q.first
         /\ s[1].do \notin Looking => q.context = r.context /\ q.first = r.first
         /\ Suits(m, q.first)
<1> DEFINE cmd == s[1]
<1>1. /\ cmd.do = "isolate" => m \in Stealthy /\ cmd.arg = AskedFrame(m)
      /\ cmd.do = "context" =>
           m \notin Stealthy /\ cmd.arg = IF m = "set_content" THEN "util" ELSE "main"
      /\ cmd.do = "contextAgain" =>
           m \notin Stealthy /\ cmd.arg = "main" /\ r.context = r.first
      /\ cmd.do = "contextOfFirst" => m \notin Stealthy \cup {"set_content"} /\ cmd.arg = "main"
  BY DEF GuardedAt
<1> HIDE DEF cmd
<1>2. q \in Learnt(cmd, r)
  BY DEF cmd
<1>3. NoScriptContext.world = "none"
  BY DEF NoScriptContext
<1>4. /\ \A w : LET wanted == WorldAsked([method |-> m, found |-> w])
                IN /\ m \in Stealthy => wanted = "chaser"
                   /\ m = "set_content" /\ w # "none" => wanted = "util"
                   /\ m \notin Stealthy /\ (m # "set_content" \/ w = "none") => wanted = "main"
      /\ m \notin Stealthy => AskedFrame(m) = "main"
  BY DEF WorldAsked, Stealthy, AskedFrame
<1>5. CASE cmd.do = "isolate"
  <2>1. q.context.frame = cmd.arg /\ q.context.world = "chaser" /\ q.first = r.first
    BY <1>2, <1>5, LearntContext
  <2>2. WorldAsked([method |-> m, found |-> q.first.world]) = "chaser"
    BY <1>1, <1>4, <1>5
  <2>3. Fits(m, q)
    BY <1>1, <1>5, <2>1, <2>2 DEF Fits
  <2> QED BY <1>5, <2>1, <2>3 DEF Looking, cmd
<1>6. CASE cmd.do = "context"
  <2>1. /\ q.context = q.first
        /\ q.first = NoScriptContext \/ (q.first.frame = "main" /\ q.first.world = cmd.arg)
    BY <1>2, <1>6, LearntContext
  <2> QED BY <1>1, <1>6, <2>1 DEF Suits, Looking, Settling, cmd
<1>7. CASE cmd.do \in {"contextAgain", "contextOfFirst"}
  <2>1. /\ q.first = r.first
        /\ IF r.first = NoScriptContext
           THEN q.context = NoScriptContext \/ (q.context.frame = "main" /\ q.context.world = "main")
           ELSE q.context = r.first
    BY <1>1, <1>2, <1>7, LearntContext
  <2>2. m \notin Stealthy
    BY <1>1, <1>7
  <2>3. CASE r.first = NoScriptContext
    <3>1. WorldAsked([method |-> m, found |-> q.first.world]) = "main"
      BY <1>3, <1>4, <2>1, <2>2, <2>3
    <3>2. Fits(m, q)
      BY <1>4, <2>1, <2>2, <2>3, <3>1 DEF Fits
    <3> QED BY <1>7, <2>1, <3>2 DEF Looking, cmd
  <2>4. CASE r.first # NoScriptContext
    <3>1. r.first.frame = "main" /\ r.first.world = IF m = "set_content" THEN "util" ELSE "main"
      BY <2>4 DEF Suits
    <3>2. WorldAsked([method |-> m, found |-> q.first.world]) = r.first.world
      BY <1>4, <2>1, <2>2, <3>1
    <3>3. Fits(m, q)
      BY <1>4, <2>1, <2>2, <2>4, <3>1, <3>2 DEF Fits
    <3> QED BY <1>7, <2>1, <3>3 DEF Looking, cmd
  <2> QED BY <2>3, <2>4
<1>8. CASE cmd.do \notin Looking
  <2>1. q.context = r.context /\ q.first = r.first
    BY <1>2, <1>8, LearntContext
  <2> QED BY <1>8, <2>1 DEF Looking, Settling, cmd
<1> QED BY <1>5, <1>6, <1>7, <1>8 DEF Looking

LEMMA WorldNext ==
  ASSUME OpsTypes, ScriptInv, WorldInv, [OpsNext]_pageOpsVars PROVE WorldInv'
<1>1. ASSUME NEW m \in Methods, StartCall(m) PROVE WorldInv'
  <2>1. /\ Behaves(m, Script(m)) /\ call'.method = m /\ call'.script = Script(m) /\ ran' = ran
        /\ call'.regs = Registers
    BY <1>1, StartedCall DEF StartCall
  <2>2. Guarded(call'.method, call'.script, call'.regs)
    BY <2>1 DEF Behaves
  <2>3. Suits(call'.method, call'.regs.first)
    BY <2>1 DEF Suits, Registers
  <2> QED BY <2>1, <2>2, <2>3 DEF WorldInv, ScriptsRunWhereAsked
<1>2. CASE Served
  <2> DEFINE m == call.method
             s == call.script
             c == call.regs
  <2>0. PICK d : d = call'.regs
    OBVIOUS
  <2>1. /\ Busy /\ call'.method = m /\ call'.script = Tail(s)
        /\ call.regs \in RegisterRecords /\ d \in Learnt(Current, c)
        /\ CanServe(Current) /\ Effect(Current)
        /\ call'.status = IF Tail(s) # <<>> THEN call.status
                          ELSE IF Running THEN "ok" ELSE "failed"
    BY <1>2, <2>0, ServedCall DEF Served
  <2>2. ScriptsRunWhereAsked'
    BY <2>1, StaysWhereAsked
  <2>3. ASSUME Running'
        PROVE  Guarded(call'.method, call'.script, call'.regs) /\ Suits(call'.method, call'.regs.first)
    <3>1. Running
      BY <2>1, <2>3 DEF Running
    <3>2. /\ Guarded(m, s, c) /\ Suits(m, c.first)
          /\ s \in Seq(Commands) /\ s # <<>> /\ Current = Head(s) /\ Current = s[1]
      BY <2>1, <3>1, WhatIsSent DEF WorldInv, Current
    <3>3. 1 \in 1..Len(s)
      BY <3>2
    <3> HIDE DEF m, s, c
    <3>4. GuardedAt(m, s, c, 1)
      BY <3>2, <3>3 DEF Guarded
    <3>5. c \in RegisterRecords /\ d \in Learnt(s[1], c)
      BY <2>1, <3>2 DEF c
    <3>6. /\ s[1].do \in Settling => Fits(m, d)
          /\ s[1].do = "context" => d.context = d.first
          /\ s[1].do \notin Looking => d.context = c.context /\ d.first = c.first
          /\ Suits(m, d.first)
      BY <3>2, <3>4, <3>5, LookFits
    <3>7. Guarded(m, Tail(s), d)
      BY <3>2, <3>6, GuardedTail
    <3> QED BY <2>0, <2>1, <3>6, <3>7
  <2> QED BY <2>2, <2>3 DEF WorldInv
<1>3. CASE Refused \/ AnswerLost
  <2>1. Busy /\ Failed
    BY <1>3 DEF Refused, AnswerLost
  <2>2. ScriptsRunWhereAsked'
    <3>1. CASE Refused
      BY <3>1 DEF Refused, WorldInv, ScriptsRunWhereAsked
    <3>2. CASE AnswerLost
      BY <2>1, <3>2, StaysWhereAsked DEF AnswerLost
    <3> QED BY <1>3, <3>1, <3>2
  <2>3. ASSUME Running'
        PROVE  Guarded(call'.method, call'.script, call'.regs) /\ Suits(call'.method, call'.regs.first)
    <3>1. CASE Ends
      <4>1. /\ Cleaning \/ Current.do = "try"
            /\ call'.script = Tail(call.script) /\ SameCall(call', call)
            /\ call'.status = IF Tail(call.script) = <<>> THEN "failed" ELSE call.status
        BY <2>1, <2>3, <3>1, EndsCall DEF Running
      <4>2. Running /\ Current.do = "try"
        BY <2>3, <4>1 DEF Running, Cleaning
      <4>3. /\ Guarded(call.method, call.script, call.regs) /\ Suits(call.method, call.regs.first)
            /\ call.script \in Seq(Commands) /\ call.script # <<>> /\ Current = Head(call.script)
        BY <2>1, <4>2, WhatIsSent DEF WorldInv, Current
      <4>4. Guarded(call.method, Tail(call.script), call.regs)
        BY <4>2, <4>3, GuardedTail DEF Settling
      <4> QED BY <4>1, <4>3, <4>4 DEF SameCall
    <3>2. CASE LookingUp /\ WaitForSelector
      <4>1. /\ call'.script = Script(call.method) /\ call'.method = call.method
            /\ call'.regs = Registers
        BY <2>1, <3>2, AgainCall DEF WaitForSelector, OpsTypes, Calls
      <4>2. \A c : Guarded(call.method, Script(call.method), c)
        BY <2>1, WhatIsSent DEF Behaves
      <4>3. Suits(call'.method, call'.regs.first)
        BY <4>1 DEF Suits, Registers
      <4> QED BY <4>1, <4>2, <4>3
    <3> QED BY <2>1, <3>1, <3>2 DEF Failed
  <2> QED BY <2>2, <2>3 DEF WorldInv
<1>4. CASE Dropped
  <2>1. call' = [call EXCEPT !.status = "dropped"] /\ ran' = ran
    BY <1>4 DEF Dropped
  <2>2. call'.status = "dropped"
    BY <2>1 DEF OpsTypes, Calls
  <2> QED BY <2>1, <2>2 DEF WorldInv, ScriptsRunWhereAsked, Running
<1>5. CASE call' = call /\ ran' = ran
  BY <1>5 DEF WorldInv, ScriptsRunWhereAsked, Running
<1> QED BY <1>1, <1>2, <1>3, <1>4, <1>5
        DEF OpsNext, DocumentNavigates, SubFrameChanges, pageOpsVars

-----------------------------------------------------------------------------
(* The handles of an element *)

\* What a command changes of the handles.
LEMMA LearntHandles ==
  ASSUME NEW cmd, NEW r \in RegisterRecords, NEW q \in Learnt(cmd, r)
  PROVE  /\ cmd.do = "getDocument" =>
              q.root.path = <<>> /\ q.node = r.node /\ q.backend = r.backend /\ q.object = r.object
         /\ cmd.do = "query" => /\ q.node.path = Append(r.root.path, cmd.arg)
                                /\ q.root = r.root /\ q.object = r.object
         /\ cmd.do = "performSearch" => q.node.path = <<cmd.arg>> /\ q.object = r.object
         /\ cmd.do = "shadowRoot" => /\ q.root.path = Append(r.node.path, "#") /\ q.node = r.node
                                     /\ q.backend = r.backend /\ q.object = r.object
         /\ cmd.do = "describe" => /\ q.backend = r.node /\ q.node = r.node /\ q.root = r.root
                                   /\ q.object = r.object
         /\ cmd.do = "resolve" => /\ q.object = r.backend /\ q.node = r.node
                                  /\ q.backend = r.backend /\ q.root = r.root
         /\ cmd.do \notin Finding \ {"first"} =>
              q.node = r.node /\ q.backend = r.backend /\ q.object = r.object /\ q.root = r.root
<1>1. /\ Document.path = <<>>
      /\ \A node \in Nodes : \A step : Under(node, step).path = Append(node.path, step)
      /\ Document = [doc |-> docs["main"], path |-> <<>>]
  BY DEF Document, Under, Nodes
<1>2. r.root \in Nodes /\ r.node \in Nodes
  BY DEF RegisterRecords
<1>3. \A do \in Finding \ {"first"} :
        do \in {"getDocument", "query", "performSearch", "shadowRoot", "describe", "resolve"}
  BY DEF Finding
<1>4. CASE cmd.do = "getDocument"
  <2>1. q = [r EXCEPT !.root = Document]
    BY <1>4 DEF Learnt
  <2>2. q.root = Document /\ q.node = r.node /\ q.backend = r.backend /\ q.object = r.object
    BY <2>1 DEF RegisterRecords
  <2> QED BY <1>1, <1>4, <2>2 DEF Finding
<1>5. CASE cmd.do = "query"
  <2>1. q = [r EXCEPT !.node = Under(r.root, cmd.arg)]
    BY <1>5 DEF Learnt
  <2>2. q.node = Under(r.root, cmd.arg) /\ q.root = r.root /\ q.object = r.object
    BY <2>1 DEF RegisterRecords
  <2> QED BY <1>1, <1>2, <1>5, <2>2 DEF Finding
<1>6. CASE cmd.do = "performSearch"
  <2>1. q = [r EXCEPT !.node = Under(Document, cmd.arg)]
    BY <1>6 DEF Learnt
  <2>2. q.node = Under(Document, cmd.arg) /\ q.object = r.object
    BY <2>1 DEF RegisterRecords
  <2>3. Under(Document, cmd.arg).path = <<cmd.arg>>
    <3>1. Document.path = <<>> /\ Document = [doc |-> docs["main"], path |-> <<>>]
      BY <1>1
    <3>2. Under(Document, cmd.arg).path = Append(<<>>, cmd.arg)
      BY <3>1 DEF Under
    <3>3. Append(<<>>, cmd.arg) = <<cmd.arg>>
      OBVIOUS
    <3> QED BY <3>2, <3>3
  <2> QED BY <1>6, <2>2, <2>3 DEF Finding
<1>7. CASE cmd.do = "shadowRoot"
  <2>1. q = [r EXCEPT !.root = Under(r.node, "#")]
    BY <1>7 DEF Learnt
  <2>2. /\ q.root = Under(r.node, "#") /\ q.node = r.node /\ q.object = r.object
        /\ q.backend = r.backend
    BY <2>1 DEF RegisterRecords
  <2> QED BY <1>1, <1>2, <1>7, <2>2 DEF Finding
<1>8. CASE cmd.do = "describe"
  <2>1. q = [r EXCEPT !.backend = r.node]
    BY <1>8 DEF Learnt
  <2>2. q.backend = r.node /\ q.node = r.node /\ q.root = r.root /\ q.object = r.object
    BY <2>1 DEF RegisterRecords
  <2> QED BY <1>8, <2>2 DEF Finding
<1>9. CASE cmd.do = "resolve"
  <2>1. q = [r EXCEPT !.object = r.backend]
    BY <1>9 DEF Learnt
  <2>2. q.object = r.backend /\ q.node = r.node /\ q.backend = r.backend /\ q.root = r.root
    BY <2>1 DEF RegisterRecords
  <2> QED BY <1>9, <2>2 DEF Finding
<1>10. CASE cmd.do \notin {"getDocument", "query", "performSearch", "shadowRoot", "describe",
                          "resolve"}
  <2>1. \/ q = r \/ q = [r EXCEPT !.context = [frame |-> cmd.arg, doc |-> docs[cmd.arg],
                                                  world |-> "chaser"]]
        \/ cmd.do \in {"context", "contextAgain", "contextOfFirst"}
    BY <1>10 DEF Learnt
  <2>2. CASE cmd.do \in {"context", "contextAgain", "contextOfFirst"}
    <3>1. PICK k : FirstLook(q, r, k) \/ LaterLook(q, r, k)
      BY <2>2, LookLearnt
    <3> QED BY <1>10, <3>1, LookFields
  <2>3. CASE cmd.do \notin {"context", "contextAgain", "contextOfFirst"}
    <3>1. q.node = r.node /\ q.backend = r.backend /\ q.object = r.object /\ q.root = r.root
      BY <2>1, <2>3 DEF RegisterRecords
    <3> QED BY <1>10, <3>1
  <2> QED BY <2>2, <2>3
<1> QED BY <1>4, <1>5, <1>6, <1>7, <1>8, <1>9, <1>10

LEMMA RestFindsNothing == \A do \in Rest : do \notin Finding
BY DEF Rest, Deeds, Scripting, Looking, Finding

LEMMA FindStep ==
  ASSUME NEW sel, NEW w, FindsFirst(w, sel), NEW n \in Nat, n + 1 \in 1..Len(w),
         NEW cmd, cmd = w[n + 1], NEW r \in RegisterRecords, NEW q \in Learnt(cmd, r),
         FoundElement(<<sel>>, n, r)
  PROVE  FoundElement(<<sel>>, n + 1, q)
<1>1. CASE n = 0
  <2>1. cmd = Cmd("getDocument", "none")
    BY <1>1 DEF FindsFirst, StartsWithFind
  <2>2. cmd.do = "getDocument"
    BY <2>1, Fields
  <2>3. q.root.path = <<>> /\ q.object = NoNode
    BY <1>1, <2>2, LearntHandles DEF FoundElement
  <2>4. n + 1 = 1
    BY <1>1
  <2> QED BY <2>3, <2>4 DEF FoundElement
<1>2. CASE n = 1
  <2>1. n + 1 = 2
    BY <1>2
  <2>2. cmd = Cmd("query", sel)
    BY <2>1 DEF FindsFirst, StartsWithFind
  <2>3. cmd.do = "query" /\ cmd.arg = sel
    BY <2>2, Fields
  <2>4. r.root.path = <<>> /\ r.object = NoNode
    BY <1>2 DEF FoundElement
  <2>5. q.node.path = Append(<<>>, sel) /\ q.object = NoNode
    BY <2>3, <2>4, LearntHandles
  <2>6. Append(<<>>, sel) = <<sel>>
    OBVIOUS
  <2> QED BY <2>1, <2>5, <2>6 DEF FoundElement
<1>3. CASE n = 2
  <2>1. n + 1 = 3
    BY <1>3
  <2>2. cmd = Cmd("describe", "none")
    BY <2>1 DEF FindsFirst, StartsWithFind
  <2>3. cmd.do = "describe"
    BY <2>2, Fields
  <2>4. r.node.path = <<sel>> /\ r.object = NoNode
    BY <1>3 DEF FoundElement
  <2>5. q.node = r.node /\ q.backend = r.node /\ q.object = NoNode
    BY <2>3, <2>4, LearntHandles
  <2> QED BY <2>1, <2>4, <2>5 DEF FoundElement
<1>4. CASE n = 3
  <2>1. n + 1 = 4
    BY <1>4
  <2>2. cmd = Cmd("resolve", "none")
    BY <2>1 DEF FindsFirst, StartsWithFind
  <2>3. cmd.do = "resolve"
    BY <2>2, Fields
  <2>4. r.node.path = <<sel>> /\ r.backend = r.node
    BY <1>4 DEF FoundElement
  <2>5. q.node = r.node /\ q.backend = r.node /\ q.object = r.node
    BY <2>3, <2>4, LearntHandles
  <2> QED BY <2>1, <2>4, <2>5 DEF FoundElement
<1>5. CASE n >= 4
  <2>1. n + 1 \in 5..Len(w)
    BY <1>5
  <2>2. cmd.do \notin Finding
    BY <2>1, RestFindsNothing DEF FindsFirst
  <2>3. q.node = r.node /\ q.backend = r.backend /\ q.object = r.object
    BY <2>2, LearntHandles
  <2>4. r.node.path = <<sel>> /\ r.backend = r.node /\ r.object = r.node
    BY <1>5 DEF FoundElement
  <2>5. n + 1 >= 4 /\ n + 1 # 1
    BY <1>5
  <2> QED BY <2>3, <2>4, <2>5 DEF FoundElement
<1>6. n = 0 \/ n = 1 \/ n = 2 \/ n = 3 \/ n >= 4
  OBVIOUS
<1> QED BY <1>1, <1>2, <1>3, <1>4, <1>5, <1>6

LEMMA XpathStep ==
  ASSUME NEW w, StartsWithXpath(w), NEW n \in Nat, n + 1 \in 1..Len(w),
         NEW cmd, cmd = w[n + 1], NEW r \in RegisterRecords, NEW q \in Learnt(cmd, r),
         FoundXpath(<<"text">>, n, r)
  PROVE  FoundXpath(<<"text">>, n + 1, q)
<1>0. w[2].do = "performSearch" /\ w[2].arg = "text"
  BY Fields DEF StartsWithXpath
<1>1. CASE n = 0
  <2>1. cmd.do = "getDocument" /\ n + 1 = 1
    BY <1>1 DEF StartsWithXpath
  <2>2. q.object = NoNode
    BY <1>1, <2>1, LearntHandles DEF FoundXpath
  <2> QED BY <2>1, <2>2 DEF FoundXpath
<1>2. CASE n = 1
  <2>1. n + 1 = 2
    BY <1>2
  <2>2. q.node.path = <<"text">> /\ q.object = NoNode
    BY <1>0, <1>2, <2>1, LearntHandles DEF FoundXpath
  <2> QED BY <2>1, <2>2 DEF FoundXpath
<1>3. CASE n \in 2..4
  <2>1. n + 1 = 3 \/ n + 1 = 4 \/ n + 1 = 5
    BY <1>3
  <2>2. cmd.do \in {"command", "first"}
    BY <2>1 DEF StartsWithXpath
  <2>3. "command" \notin Finding
    BY DEF Finding
  <2>4. q.node = r.node /\ q.object = r.object
    BY <2>2, <2>3, LearntHandles
  <2> QED BY <1>3, <2>1, <2>4 DEF FoundXpath
<1>4. CASE n = 5
  <2>1. n + 1 = 6
    BY <1>4
  <2>2. cmd.do = "describe"
    BY <2>1 DEF StartsWithXpath
  <2>3. r.node.path = <<"text">> /\ r.object = NoNode
    BY <1>4 DEF FoundXpath
  <2>4. q.node = r.node /\ q.backend = r.node /\ q.object = NoNode
    BY <2>2, <2>3, LearntHandles
  <2> QED BY <2>1, <2>3, <2>4 DEF FoundXpath
<1>5. CASE n = 6
  <2>1. n + 1 = 7
    BY <1>5
  <2>2. cmd.do = "resolve"
    BY <2>1 DEF StartsWithXpath
  <2>3. r.node.path = <<"text">> /\ r.backend = r.node
    BY <1>5 DEF FoundXpath
  <2>4. q.node = r.node /\ q.backend = r.node /\ q.object = r.node
    BY <2>2, <2>3, LearntHandles
  <2> QED BY <2>1, <2>3, <2>4 DEF FoundXpath
<1>6. CASE n >= 7
  <2>1. n + 1 \in 8..Len(w)
    BY <1>6
  <2>2. cmd.do \notin Finding
    BY <2>1, RestFindsNothing DEF StartsWithXpath
  <2>3. q.node = r.node /\ q.backend = r.backend /\ q.object = r.object
    BY <2>2, LearntHandles
  <2>4. r.node.path = <<"text">> /\ r.backend = r.node /\ r.object = r.node
    BY <1>6 DEF FoundXpath
  <2>5. n + 1 >= 7
    BY <1>6
  <2> QED BY <2>3, <2>4, <2>5 DEF FoundXpath
<1>7. n = 0 \/ n = 1 \/ n \in 2..4 \/ n = 5 \/ n = 6 \/ n >= 7
  OBVIOUS
<1> QED BY <1>1, <1>2, <1>3, <1>4, <1>5, <1>6, <1>7

\* The ways through the shadow roots.
Way1 == <<"outer">>
Way2 == <<"outer", "#">>
Way3 == <<"outer", "#", "inner">>
Way4 == <<"outer", "#", "inner", "#">>
Way5 == <<"outer", "#", "inner", "#", "target">>

\* Append, element by element.
LEMMA SameSeq ==
  ASSUME NEW S, NEW s \in Seq(S), NEW t \in Seq(S), Len(s) = Len(t),
         \A i \in 1..Len(s) : s[i] = t[i]
  PROVE  s = t
OBVIOUS

LEMMA AppendIs ==
  ASSUME NEW S, NEW s \in Seq(S), NEW x \in S, NEW t \in Seq(S), Len(t) = Len(s) + 1,
         \A i \in 1..Len(s) : t[i] = s[i], t[Len(s) + 1] = x
  PROVE  Append(s, x) = t
<1>1. Append(s, x) \in Seq(S) /\ Len(Append(s, x)) = Len(s) + 1 /\ Len(s) \in Nat
  OBVIOUS
<1>2. \A i \in 1..(Len(s) + 1) : Append(s, x)[i] = t[i]
  OBVIOUS
<1> DEFINE u == Append(s, x)
<1> HIDE DEF u
<1>3. u \in Seq(S) /\ Len(u) = Len(t) /\ \A i \in 1..Len(u) : u[i] = t[i]
  BY <1>1, <1>2 DEF u
<1>4. u = t
  BY <1>3, SameSeq
<1> QED BY <1>4 DEF u

LEMMA Appending ==
  ASSUME NEW a, NEW b, NEW c, NEW d, NEW e
  PROVE  /\ Append(<<>>, a) = <<a>> /\ Append(<<a>>, b) = <<a, b>>
         /\ Append(<<a, b>>, c) = <<a, b, c>> /\ Append(<<a, b, c>>, d) = <<a, b, c, d>>
         /\ Append(<<a, b, c, d>>, e) = <<a, b, c, d, e>>
<1> DEFINE S == {a, b, c, d, e}
<1>1. Append(<<>>, a) = <<a>>
  OBVIOUS
<1>2. Append(<<a>>, b) = <<a, b>>
  <2> DEFINE s == <<a>>
             t == <<a, b>>
  <2>1. /\ s \in Seq(S) /\ t \in Seq(S) /\ Len(s) = 1 /\ Len(t) = 2 /\ t[2] = b /\ b \in S
        /\ s[1] = a /\ t[1] = a
    OBVIOUS
  <2> HIDE DEF s, t, S
  <2>2. (\A i \in 1..Len(s) : t[i] = s[i]) /\ t[Len(s) + 1] = b /\ Len(t) = Len(s) + 1
    BY <2>1
  <2>3. Append(s, b) = t
    BY <2>1, <2>2, AppendIs
  <2> QED BY <2>3 DEF s, t
<1>3. Append(<<a, b>>, c) = <<a, b, c>>
  <2> DEFINE s == <<a, b>>
             t == <<a, b, c>>
  <2>1. /\ s \in Seq(S) /\ t \in Seq(S) /\ Len(s) = 2 /\ Len(t) = 3 /\ t[3] = c /\ c \in S
        /\ s[1] = a /\ t[1] = a /\ s[2] = b /\ t[2] = b
    OBVIOUS
  <2> HIDE DEF s, t, S
  <2>2. (\A i \in 1..Len(s) : t[i] = s[i]) /\ t[Len(s) + 1] = c /\ Len(t) = Len(s) + 1
    BY <2>1
  <2>3. Append(s, c) = t
    BY <2>1, <2>2, AppendIs
  <2> QED BY <2>3 DEF s, t
<1>4. Append(<<a, b, c>>, d) = <<a, b, c, d>>
  <2> DEFINE s == <<a, b, c>>
             t == <<a, b, c, d>>
  <2>1. /\ s \in Seq(S) /\ t \in Seq(S) /\ Len(s) = 3 /\ Len(t) = 4 /\ t[4] = d /\ d \in S
        /\ s[1] = a /\ t[1] = a /\ s[2] = b /\ t[2] = b /\ s[3] = c /\ t[3] = c
    OBVIOUS
  <2> HIDE DEF s, t, S
  <2>2. (\A i \in 1..Len(s) : t[i] = s[i]) /\ t[Len(s) + 1] = d /\ Len(t) = Len(s) + 1
    BY <2>1
  <2>3. Append(s, d) = t
    BY <2>1, <2>2, AppendIs
  <2> QED BY <2>3 DEF s, t
<1>5. Append(<<a, b, c, d>>, e) = <<a, b, c, d, e>>
  <2> DEFINE s == <<a, b, c, d>>
             t == <<a, b, c, d, e>>
  <2>1. /\ s \in Seq(S) /\ t \in Seq(S) /\ Len(s) = 4 /\ Len(t) = 5 /\ t[5] = e /\ e \in S
        /\ s[1] = a /\ t[1] = a /\ s[2] = b /\ t[2] = b /\ s[3] = c /\ t[3] = c /\ s[4] = d /\ t[4] = d
    OBVIOUS
  <2> HIDE DEF s, t, S
  <2>2. (\A i \in 1..Len(s) : t[i] = s[i]) /\ t[Len(s) + 1] = e /\ Len(t) = Len(s) + 1
    BY <2>1
  <2>3. Append(s, e) = t
    BY <2>1, <2>2, AppendIs
  <2> QED BY <2>3 DEF s, t
<1> QED BY <1>1, <1>2, <1>3, <1>4, <1>5

LEMMA WayDown ==
  /\ Append(<<>>, "outer") = Way1 /\ Append(Way1, "#") = Way2 /\ Append(Way2, "inner") = Way3
  /\ Append(Way3, "#") = Way4 /\ Append(Way4, "target") = Way5
BY Appending DEF Way1, Way2, Way3, Way4, Way5

LEMMA ShadowStep ==
  ASSUME NEW w, ShadowScript(w), NEW n \in Nat, n + 1 \in 1..Len(w),
         NEW cmd, cmd = w[n + 1], NEW r \in RegisterRecords, NEW q \in Learnt(cmd, r),
         FoundInShadow(n, r)
  PROVE  FoundInShadow(n + 1, q)
<1>1. /\ w[1].do = "getDocument" /\ w[2].do = "query" /\ w[2].arg = "outer"
      /\ w[3].do = "describe" /\ w[4].do = "resolve"
  BY Fields DEF ShadowScript, StartsWithFind
<1>2. /\ w[5].do = "shadowRoot" /\ w[6].do = "query" /\ w[6].arg = "inner"
      /\ w[7].do = "describe" /\ w[8].do = "resolve"
      /\ w[9].do = "shadowRoot" /\ w[10].do = "query" /\ w[10].arg = "target"
      /\ w[11].do = "describe" /\ w[12].do = "resolve"
  BY Fields DEF ShadowScript
<1>3. n \in 0..11
  BY DEF ShadowScript
<1>4. CASE n = 0
  <2>1. n + 1 = 1
    BY <1>4
  <2>3. q.root.path = <<>>
    BY <1>1, <2>1, LearntHandles
  <2> QED BY <2>1, <2>3 DEF FoundInShadow, Way1, Way2, Way3, Way4, Way5
<1>5. CASE n = 1
  <2>1. n + 1 = 2
    BY <1>5
  <2>2. r.root.path = <<>>
    BY <1>5 DEF FoundInShadow, Way1, Way2, Way3, Way4, Way5
  <2>4. q.node.path = Append(<<>>, "outer")
    BY <1>1, <2>1, <2>2, LearntHandles
  <2>3. q.node.path = Way1
    BY <2>4, WayDown
  <2> QED BY <2>1, <2>3 DEF FoundInShadow, Way1, Way2, Way3, Way4, Way5
<1>6. CASE n = 2
  <2>1. n + 1 = 3
    BY <1>6
  <2>2. r.node.path = Way1
    BY <1>6 DEF FoundInShadow, Way1, Way2, Way3, Way4, Way5
  <2>3. q.node.path = Way1
    BY <1>1, <2>1, <2>2, LearntHandles
  <2> QED BY <2>1, <2>3 DEF FoundInShadow, Way1, Way2, Way3, Way4, Way5
<1>7. CASE n = 3
  <2>1. n + 1 = 4
    BY <1>7
  <2>2. r.node.path = Way1
    BY <1>7 DEF FoundInShadow, Way1, Way2, Way3, Way4, Way5
  <2>3. q.node.path = Way1
    BY <1>1, <2>1, <2>2, LearntHandles
  <2> QED BY <2>1, <2>3 DEF FoundInShadow, Way1, Way2, Way3, Way4, Way5
<1>8. CASE n = 4
  <2>1. n + 1 = 5
    BY <1>8
  <2>2. r.node.path = Way1
    BY <1>8 DEF FoundInShadow, Way1, Way2, Way3, Way4, Way5
  <2>5. cmd.do = "shadowRoot"
    BY <1>2, <2>1
  <2>6. q.node = r.node /\ q.root.path = Append(r.node.path, "#")
    BY <2>5, LearntHandles
  <2>4. q.node.path = Way1 /\ q.root.path = Append(Way1, "#")
    BY <2>2, <2>6
  <2>3. q.node.path = Way1 /\ q.root.path = Way2
    BY <2>4, WayDown
  <2> QED BY <2>1, <2>3 DEF FoundInShadow, Way1, Way2, Way3, Way4, Way5
<1>9. CASE n = 5
  <2>1. n + 1 = 6
    BY <1>9
  <2>2. r.root.path = Way2
    BY <1>9 DEF FoundInShadow, Way1, Way2, Way3, Way4, Way5
  <2>5. cmd.do = "query" /\ cmd.arg = "inner"
    BY <1>2, <2>1
  <2>6. q.node.path = Append(r.root.path, cmd.arg)
    BY <2>5, LearntHandles
  <2>4. q.node.path = Append(Way2, "inner")
    BY <2>2, <2>5, <2>6
  <2>3. q.node.path = Way3
    BY <2>4, WayDown
  <2> QED BY <2>1, <2>3 DEF FoundInShadow, Way1, Way2, Way3, Way4, Way5
<1>10. CASE n = 6
  <2>1. n + 1 = 7
    BY <1>10
  <2>2. r.node.path = Way3
    BY <1>10 DEF FoundInShadow, Way1, Way2, Way3, Way4, Way5
  <2>3. q.node.path = Way3
    BY <1>2, <2>1, <2>2, LearntHandles
  <2> QED BY <2>1, <2>3 DEF FoundInShadow, Way1, Way2, Way3, Way4, Way5
<1>11. CASE n = 7
  <2>1. n + 1 = 8
    BY <1>11
  <2>2. r.node.path = Way3
    BY <1>11 DEF FoundInShadow, Way1, Way2, Way3, Way4, Way5
  <2>3. q.node.path = Way3
    BY <1>2, <2>1, <2>2, LearntHandles
  <2> QED BY <2>1, <2>3 DEF FoundInShadow, Way1, Way2, Way3, Way4, Way5
<1>12. CASE n = 8
  <2>1. n + 1 = 9
    BY <1>12
  <2>2. r.node.path = Way3
    BY <1>12 DEF FoundInShadow, Way1, Way2, Way3, Way4, Way5
  <2>5. cmd.do = "shadowRoot"
    BY <1>2, <2>1
  <2>6. q.node = r.node /\ q.root.path = Append(r.node.path, "#")
    BY <2>5, LearntHandles
  <2>4. q.node.path = Way3 /\ q.root.path = Append(Way3, "#")
    BY <2>2, <2>6
  <2>3. q.node.path = Way3 /\ q.root.path = Way4
    BY <2>4, WayDown
  <2> QED BY <2>1, <2>3 DEF FoundInShadow, Way1, Way2, Way3, Way4, Way5
<1>13. CASE n = 9
  <2>1. n + 1 = 10
    BY <1>13
  <2>2. r.root.path = Way4
    BY <1>13 DEF FoundInShadow, Way1, Way2, Way3, Way4, Way5
  <2>4. q.node.path = Append(Way4, "target")
    BY <1>2, <2>1, <2>2, LearntHandles
  <2>3. q.node.path = Way5
    BY <2>4, WayDown
  <2> QED BY <2>1, <2>3 DEF FoundInShadow, Way1, Way2, Way3, Way4, Way5
<1>14. CASE n = 10
  <2>1. n + 1 = 11
    BY <1>14
  <2>2. r.node.path = Way5
    BY <1>14 DEF FoundInShadow, Way1, Way2, Way3, Way4, Way5
  <2>3. q.node.path = Way5 /\ q.backend = q.node
    BY <1>2, <2>1, <2>2, LearntHandles
  <2> QED BY <2>1, <2>3 DEF FoundInShadow, Way1, Way2, Way3, Way4, Way5
<1>15. CASE n = 11
  <2>1. n + 1 = 12
    BY <1>15
  <2>2. r.node.path = Way5 /\ r.backend = r.node
    BY <1>15 DEF FoundInShadow, Way1, Way2, Way3, Way4, Way5
  <2>3. q.node.path = Way5 /\ q.backend = q.node /\ q.object = q.node
    BY <1>2, <2>1, <2>2, LearntHandles
  <2> QED BY <2>1, <2>3 DEF FoundInShadow, Way1, Way2, Way3, Way4, Way5
<1> QED BY <1>3, <1>4, <1>5, <1>6, <1>7, <1>8, <1>9, <1>10, <1>11, <1>12, <1>13, <1>14, <1>15

LEMMA Ways ==
  /\ \A m \in ElementFinders : Way(m) = <<SelectorOf(m)>>
  /\ Way("click_by_text") = <<"text">>
  /\ Way("find_in_shadow_deep") = <<"outer", "#", "inner", "#", "target">>
<1>1. /\ Way("hover") = <<SelectorOf("hover")>>
      /\ Way("set_input_files") = <<SelectorOf("set_input_files")>>
      /\ Way("iter_attributes") = <<SelectorOf("iter_attributes")>>
      /\ Way("locator_click") = <<SelectorOf("locator_click")>>
      /\ Way("locator_text") = <<SelectorOf("locator_text")>>
      /\ Way("element_screenshot") = <<SelectorOf("element_screenshot")>>
      /\ Way("select_option") = <<SelectorOf("select_option")>>
  BY DEF Way, SelectorOf
<1>2. Way("click_by_text") = <<"text">>
      /\ Way("find_in_shadow_deep") = <<"outer", "#", "inner", "#", "target">>
  BY DEF Way
<1> QED BY <1>1, <1>2 DEF ElementFinders

\* The handles a method has after n of its commands.
HandlesFit(m, n, r) ==
  /\ m \in ElementFinders => FoundElement(Way(m), n, r)
  /\ m = "click_by_text" => FoundXpath(Way(m), n, r)
  /\ m = "find_in_shadow_deep" => FoundInShadow(n, r)
  /\ m \notin Finders => r.object = NoNode

LEMMA FreshHandles == \A m : HandlesFit(m, 0, Registers)
<1>1. Registers.object = NoNode
  BY DEF Registers
<1> QED BY <1>1 DEF HandlesFit, FoundElement, FoundXpath, FoundInShadow

LEMMA HandleStep ==
  ASSUME NEW m, NEW w, w = Script(m), NEW n \in Nat, NEW cmd,
         m \in Finders => (n + 1 \in 1..Len(w) /\ cmd = w[n + 1]),
         m \notin Finders => cmd.do \notin Finding,
         NEW r \in RegisterRecords, NEW q \in Learnt(cmd, r), HandlesFit(m, n, r)
  PROVE  HandlesFit(m, n + 1, q)
<1> HIDE DEF Script
<1>1. CASE m \in ElementFinders
  <2>1. m \in Finders /\ m # "click_by_text" /\ m # "find_in_shadow_deep"
    BY <1>1 DEF ElementFinders, Finders
  <2>2. FindsFirst(w, SelectorOf(m)) /\ Way(m) = <<SelectorOf(m)>>
    BY <1>1, LookupScripts, Ways
  <2>3. FoundElement(<<SelectorOf(m)>>, n, r)
    BY <1>1, <2>2 DEF HandlesFit
  <2>4. FoundElement(<<SelectorOf(m)>>, n + 1, q)
    BY <2>1, <2>2, <2>3, FindStep
  <2> QED BY <2>1, <2>2, <2>4 DEF HandlesFit
<1>2. CASE m = "click_by_text"
  <2>1. m \in Finders /\ m \notin ElementFinders /\ m # "find_in_shadow_deep"
    BY <1>2 DEF ElementFinders, Finders
  <2>2. StartsWithXpath(w) /\ Way(m) = <<"text">>
    BY <1>2, XpathScript, Ways
  <2>3. FoundXpath(<<"text">>, n, r)
    BY <1>2, <2>2 DEF HandlesFit
  <2>4. FoundXpath(<<"text">>, n + 1, q)
    BY <2>1, <2>2, <2>3, XpathStep
  <2> QED BY <2>1, <2>2, <2>4 DEF HandlesFit
<1>3. CASE m = "find_in_shadow_deep"
  <2>1. m \in Finders /\ m \notin ElementFinders /\ m # "click_by_text"
    BY <1>3 DEF ElementFinders, Finders
  <2>2. ShadowScript(w)
    BY <1>3, ShadowScripts
  <2>3. FoundInShadow(n, r)
    BY <1>3 DEF HandlesFit
  <2>4. FoundInShadow(n + 1, q)
    BY <2>1, <2>2, <2>3, ShadowStep
  <2> QED BY <2>1, <2>4 DEF HandlesFit
<1>4. CASE m \notin Finders
  <2>1. m \notin ElementFinders /\ m # "click_by_text" /\ m # "find_in_shadow_deep"
    BY <1>4 DEF Finders
  <2>2. q.object = r.object /\ r.object = NoNode
    BY <1>4, LearntHandles DEF HandlesFit
  <2> QED BY <2>1, <2>2 DEF HandlesFit
<1> QED BY <1>1, <1>2, <1>3, <1>4 DEF Finders

LEMMA HandleNext ==
  ASSUME OpsTypes, ScriptInv, HandleInv, [OpsNext]_pageOpsVars PROVE HandleInv'
<1>0. /\ HandleInv = (call.status \in {"running", "ok"} =>
                        HandlesFit(call.method, call.done, call.regs))
      /\ HandleInv' = (call'.status \in {"running", "ok"} =>
                        HandlesFit(call'.method, call'.done, call'.regs))
  BY DEF HandleInv, HandlesFit
<1>1. ASSUME NEW m \in Methods, StartCall(m) PROVE HandleInv'
  <2>1. call'.method = m /\ call'.done = 0 /\ call'.regs = Registers
    BY <1>1, StartedCall
  <2> QED BY <1>0, <2>1, FreshHandles
<1>2. CASE Served
  <2> DEFINE m == call.method
             w == Script(m)
             n == call.done
             r == call.regs
             q == call'.regs
  <2>1. /\ Busy /\ call'.method = m /\ call'.done = n + 1
        /\ r \in RegisterRecords /\ q \in Learnt(Current, r) /\ n \in Nat
        /\ call'.status = IF Tail(call.script) # <<>> THEN call.status
                          ELSE IF Running THEN "ok" ELSE "failed"
    BY <1>2, ServedCall DEF OpsTypes, Calls
  <2>2. ASSUME call'.status \in {"running", "ok"} PROVE HandlesFit(m, n + 1, q)
    <3>1. Running
      BY <2>1, <2>2 DEF Running, Busy, Cleaning
    <3>2. HandlesFit(m, n, r)
      BY <1>0, <3>1 DEF Running
    <3>3. m \in Finders => m # "apply_native_profile"
      BY DEF Finders, ElementFinders
    <3>4. m \in Finders => n + 1 \in 1..Len(w) /\ Current = w[n + 1]
      BY <3>1, <3>3, Whole
    <3>5. m \notin Finders => Current.do \notin Finding
      BY <3>1, SentByMethod
    <3> HIDE DEF m, n, r, q
    <3> QED BY <2>1, <3>2, <3>4, <3>5, HandleStep
  <2> QED BY <1>0, <2>1, <2>2
<1>3. CASE Refused \/ AnswerLost
  <2>1. Busy /\ Failed
    BY <1>3 DEF Refused, AnswerLost
  <2>2. CASE Ends
    <3>1. SameCall(call', call) /\ (call'.status \in {"running", "ok"} => Running)
      BY <2>1, <2>2, EndsCall DEF Running, Busy, Cleaning
    <3>2. call'.method = call.method /\ call'.done = call.done /\ call'.regs = call.regs
      BY <3>1 DEF SameCall
    <3> QED BY <1>0, <3>1, <3>2 DEF Running
  <2>3. CASE LookingUp /\ WaitForSelector
    <3>1. call'.done = 0 /\ call'.regs = Registers
      BY <2>1, <2>3, AgainCall
    <3> QED BY <1>0, <3>1, FreshHandles
  <2> QED BY <2>1, <2>2, <2>3 DEF Failed
<1>4. CASE Dropped
  <2>1. call' = [call EXCEPT !.status = "dropped"]
    BY <1>4 DEF Dropped
  <2>2. call'.status = "dropped"
    BY <2>1 DEF OpsTypes, Calls
  <2> QED BY <1>0, <2>2
<1>5. CASE call' = call
  BY <1>0, <1>5
<1> QED BY <1>1, <1>2, <1>3, <1>4, <1>5
        DEF OpsNext, DocumentNavigates, SubFrameChanges, pageOpsVars

-----------------------------------------------------------------------------
(* The theorems *)

LEMMA OpsInitially == OpsInit => OpsInv
<1> SUFFICES ASSUME OpsInit PROVE OpsInv
  OBVIOUS
<1>1. /\ call.method = "none" /\ call.script = <<>> /\ call.done = 0 /\ call.regs = Registers
      /\ call.cookie = "old" /\ call.status = "ok" /\ ran = {} /\ mishap = "none" /\ overrides = {}
      /\ cookie = "old" /\ input = [keys |-> {}, button |-> "up"]
      /\ docs = [f \in {"main", "sub"} |-> 1]
      /\ call = [method |-> "none", script |-> <<>>, done |-> 0, regs |-> Registers,
                 cookie |-> "old", status |-> "ok"]
  BY DEF OpsInit
<1>2. /\ "old" \in Cookies /\ "old" \in Args /\ "up" \in Buttons \ {"moved"}
      /\ <<>> \in Seq(Commands) /\ calls \in 0..MaxCalls
  BY SomeArgs, CallsAreBounded DEF Cookies, Buttons, OpsInit
<1>3. OpsTypes
  <2>1. call \in Calls
    BY <1>1, <1>2, RegistersAreFresh DEF Calls
  <2>2. input \in Inputs
    BY <1>1, <1>2 DEF Inputs
  <2> QED BY <1>1, <1>2, <2>1, <2>2 DEF OpsTypes
<1>4. ~Busy /\ ~Running /\ ~Cleaning
  BY <1>1 DEF Busy, Running, Cleaning
<1>5. ScriptInv
  BY <1>1, <1>4 DEF ScriptInv
<1>6. OwedInv /\ HeldInv /\ CookieInv /\ WorldInv
  <2>1. input.keys = {} /\ input.button = "up"
    BY <1>1
  <2> QED BY <1>1, <1>4, <2>1 DEF OwedInv, HeldInv, CookieInv, WorldInv, ScriptsRunWhereAsked
<1>7. HandleInv
  <2>1. HandlesFit("none", 0, Registers)
    BY FreshHandles
  <2> QED BY <1>1, <2>1 DEF HandleInv, HandlesFit
<1> QED BY <1>3, <1>5, <1>6, <1>7 DEF OpsInv

LEMMA OpsInductive == OpsInv /\ [OpsNext]_pageOpsVars => OpsInv'
BY TypesNext, ScriptNext, OwedNext, HeldNext, CookieNext, WorldNext, HandleNext DEF OpsInv

LEMMA OpsInvariant == OpsSpec => []OpsInv
BY OpsInitially, OpsInductive, PTL DEF OpsSpec

\* Between calls the browser's input is neutral and no override for a screenshot is left,
\* if all calls succeeded; no modifier is down unless an answer was lost; and a set_cookies
\* that is turned away has deleted nothing.
THEOREM NothingIsLeftBehind == OpsSpec => []NothingStaysBehind
<1>1. OpsInv => NothingStaysBehind
  <2> SUFFICES ASSUME OpsInv, ~Busy PROVE
        /\ mishap = "none" => /\ input = [keys |-> {}, button |-> "up"]
                              /\ overrides \cap {"metrics", "background"} = {}
        /\ mishap # "lost" => \A i \in 1..Len(Modifiers) : Modifiers[i] \notin input.keys
        /\ call.method = "set_cookies_invalid" => cookie = call.cookie
    BY DEF NothingStaysBehind
  <2>1. input = [keys |-> input.keys, button |-> input.button]
    BY DEF OpsInv, OpsTypes, Inputs
  <2>2. mishap = "none" => /\ input.keys = {} /\ input.button = "up"
                           /\ overrides \cap {"metrics", "background"} = {}
    BY NothingOwed DEF OpsInv
  <2>3. ASSUME mishap # "lost", NEW i \in 1..Len(Modifiers) PROVE Modifiers[i] \notin input.keys
    <3>1. Len(Modifiers) = 2 /\ Modifiers[1] = "Control" /\ Modifiers[2] = "Shift"
      BY DEF Modifiers
    <3>2. i = 1 \/ i = 2
      BY <3>1
    <3>3. IsModifier(Modifiers[i])
      BY <3>1, <3>2 DEF IsModifier
    <3> QED BY <2>3, <3>3 DEF OpsInv, HeldInv
  <2>4. call.method = "set_cookies_invalid" => cookie = call.cookie
    BY DEF OpsInv, CookieInv
  <2> QED BY <2>1, <2>2, <2>3, <2>4
<1> QED BY <1>1, OpsInvariant, PTL

\* The three handles of an element a finished call has worked on are those of one node,
\* the one its selectors lead to.
THEOREM HandlesAreOneNode == OpsSpec => []HandlesAgree
<1>1. OpsInv => HandlesAgree
  <2> SUFFICES ASSUME OpsInv, call.status = "ok", call.regs.object # NoNode
               PROVE  /\ call.regs.node = call.regs.backend /\ call.regs.backend = call.regs.object
                      /\ call.regs.node.path = Way(call.method)
    BY DEF HandlesAgree
  <2> DEFINE m == call.method
             n == call.done
             r == call.regs
  <2>1. HandlesFit(m, n, r)
    BY DEF OpsInv, HandleInv, HandlesFit
  <2>2. m \in Finders
    BY <2>1 DEF HandlesFit
  <2>3. m # "none" /\ m # "apply_native_profile" /\ n \in Nat /\ call.script = <<>>
    BY <2>2 DEF Finders, ElementFinders, OpsInv, OpsTypes, Calls, ScriptInv
  <2>4. LeftOf(call.script, Script(m), n)
    BY <2>3 DEF OpsInv, ScriptInv
  <2>5. n = Len(Script(m))
    <3>1. Len(call.script) = 0
      BY <2>3
    <3> QED BY <2>3, <2>4, <3>1 DEF LeftOf
  <2>6. CASE m \in ElementFinders
    <3>1. FindsFirst(Script(m), SelectorOf(m))
      BY <2>6, LookupScripts
    <3>2. n >= 4
      BY <2>5, <3>1 DEF FindsFirst, StartsWithFind
    <3>3. FoundElement(Way(m), n, r)
      BY <2>1, <2>6 DEF HandlesFit
    <3> QED BY <2>3, <3>2, <3>3 DEF FoundElement
  <2>7. CASE m = "click_by_text"
    <3>1. StartsWithXpath(Script(m))
      BY <2>7, XpathScript
    <3>2. n >= 7
      BY <2>5, <3>1 DEF StartsWithXpath
    <3>3. FoundXpath(Way(m), n, r)
      BY <2>1, <2>7 DEF HandlesFit
    <3> QED BY <2>3, <3>2, <3>3 DEF FoundXpath
  <2>8. CASE m = "find_in_shadow_deep"
    <3>1. ShadowScript(Script(m))
      BY <2>8, ShadowScripts
    <3>2. n = 12
      BY <2>5, <3>1 DEF ShadowScript
    <3>3. FoundInShadow(n, r)
      BY <2>1, <2>8 DEF HandlesFit
    <3> QED BY <2>8, <3>2, <3>3, Ways DEF FoundInShadow
  <2> QED BY <2>2, <2>6, <2>7, <2>8 DEF Finders
<1> QED BY <1>1, OpsInvariant, PTL

\* Scripts ran in the frame and in the world they were meant for.
THEOREM ScriptsStayWhereAsked == OpsSpec => []ScriptsRunWhereAsked
<1>1. OpsInv => ScriptsRunWhereAsked
  BY DEF OpsInv, WorldInv
<1> QED BY <1>1, OpsInvariant, PTL

\* Whatever is called and goes wrong, a button that is down is one of the mouse's, the
\* cookie is one that was set, and a call is in one of the states a future can be in.
THEOREM OpsAreTyped == OpsSpec => []OpsTypeOK
<1>1. OpsInv => OpsTypeOK
  <2> SUFFICES ASSUME OpsInv PROVE OpsTypeOK
    OBVIOUS
  <2>1. call \in Calls /\ input \in Inputs /\ docs \in [{"main", "sub"} -> Nat]
    BY DEF OpsInv, OpsTypes
  <2>2. /\ call.status \in {"running", "cleaning", "ok", "failed", "panicked", "dropped"}
        /\ call.regs \in RegisterRecords
    BY <2>1 DEF Calls
  <2>3. DOMAIN call.regs = DOMAIN Registers
    BY <2>2 DEF RegisterRecords, Registers
  <2>4. input.button \in {"up", "left", "right"}
    BY <2>1 DEF Inputs, Buttons
  <2>5. /\ calls \in 0..MaxCalls /\ cookie \in {"old", "none", "new"}
        /\ mishap \in {"none", "failed", "lost"}
    BY DEF OpsInv, OpsTypes, Cookies
  <2> QED BY <2>1, <2>2, <2>3, <2>4, <2>5 DEF OpsTypeOK
<1> QED BY <1>1, OpsInvariant, PTL

-----------------------------------------------------------------------------
(* The waits: types *)

ItemRecords == [stage : {"none", "begun", "unheard", "ended", "unanswered"}, fits : BOOLEAN]
Results == [ended : {"no", "ok", "timeout", "closed"}, item : Items \cup {NoItem},
            name : Items \cup {NoItem, NoName}]

WaitTypes ==
  /\ kind \in Kinds /\ wait_phase \in {"start", "subscribing", "waiting", "ended"}
  /\ subscribed \subseteq 1..2 /\ seen \subseteq Items
  /\ queue \in [1..2 -> Seq(Items)]
  /\ asked \in [1..2 -> Items \cup {NoItem}]
  /\ detached \in BOOLEAN /\ late \in BOOLEAN /\ alive \in BOOLEAN
  /\ result \in Results
  /\ items \in [Items -> ItemRecords]
  /\ shown \in Items \cup {NoItem}
  /\ overtime \in Nat

-----------------------------------------------------------------------------
(* Queues *)

InQueue(s) == {queue[s][n] : n \in 1..Len(queue[s])}

\* What is read leaves its queue.
LEMMA TookKeeps ==
  ASSUME WaitTypes, NEW s \in 1..2, queue[s] # <<>>, Took(s)
  PROVE  /\ queue' \in [1..2 -> Seq(Items)]
         /\ Item(s) \in Items /\ Item(s) \in InQueue(s)
         /\ InQueue(s)' \subseteq InQueue(s)
         /\ InQueue(s) \subseteq InQueue(s)' \cup {Item(s)}
         /\ \A t \in 1..2 : t # s => queue'[t] = queue[t]
<1>1. queue \in [1..2 -> Seq(Items)]
  BY DEF WaitTypes
<1>2. PICK q \in Seq(Items) : q = queue[s]
  BY <1>1
<1>3. q # <<>> /\ Len(q) \in Nat \ {0} /\ Head(q) = q[1] /\ Tail(q) \in Seq(Items)
      /\ Len(Tail(q)) = Len(q) - 1 /\ \A n \in 1..(Len(q) - 1) : Tail(q)[n] = q[n + 1]
  BY <1>2
<1>4. queue' = [queue EXCEPT ![s] = Tail(q)]
  BY <1>2 DEF Took
<1>5. queue' \in [1..2 -> Seq(Items)] /\ queue'[s] = Tail(q)
      /\ \A t \in 1..2 : t # s => queue'[t] = queue[t]
  BY <1>1, <1>3, <1>4
<1>6. Item(s) = q[1]
  BY <1>2, <1>3 DEF Item
<1>7. \A n \in 1..Len(q) : n = 1 \/ (n - 1 \in 1..Len(Tail(q)) /\ Tail(q)[n - 1] = q[n])
  BY <1>3
<1>8. \A n \in 1..Len(Tail(q)) : n + 1 \in 1..Len(q) /\ Tail(q)[n] = q[n + 1]
  BY <1>3
<1>9. InQueue(s)' \subseteq InQueue(s)
  <2>1. ASSUME NEW x \in InQueue(s)' PROVE x \in InQueue(s)
    <3>1. PICK n \in 1..Len(Tail(q)) : x = Tail(q)[n]
      BY <1>5 DEF InQueue
    <3>2. n + 1 \in 1..Len(q) /\ x = q[n + 1]
      BY <1>8, <3>1
    <3> QED BY <1>2, <3>2 DEF InQueue
  <2> QED BY <2>1
<1>10. InQueue(s) \subseteq InQueue(s)' \cup {Item(s)}
  <2>1. InQueue(s)' = {Tail(q)[n] : n \in 1..Len(Tail(q))} /\ InQueue(s) = {q[n] : n \in 1..Len(q)}
    BY <1>2, <1>5 DEF InQueue
  <2> QED BY <1>6, <1>7, <2>1
<1>11. Item(s) \in Items /\ Item(s) \in InQueue(s)
  BY <1>2, <1>3, <1>6 DEF InQueue
<1> QED BY <1>5, <1>9, <1>10, <1>11

LEMMA AppendKeeps ==
  ASSUME NEW q \in Seq(Items), NEW i \in Items
  PROVE  /\ Append(q, i) \in Seq(Items) /\ Len(Append(q, i)) = Len(q) + 1
         /\ Append(q, i)[Len(q) + 1] = i
         /\ \A n \in 1..Len(q) : Append(q, i)[n] = q[n]
OBVIOUS

\* What an item is sent to has it.
LEMMA EmitKeeps ==
  ASSUME WaitTypes, NEW s \in 1..2, NEW i \in Items, EmitItem(s, i)
  PROVE  /\ queue' \in [1..2 -> Seq(Items)]
         /\ InQueue(s)' \subseteq InQueue(s) \cup {i} /\ InQueue(s) \subseteq InQueue(s)'
         /\ s \in subscribed /\ wait_phase # "ended" => i \in InQueue(s)'
         /\ \A t \in 1..2 : t # s => queue'[t] = queue[t]
<1>1. queue \in [1..2 -> Seq(Items)]
  BY DEF WaitTypes
<1>2. CASE queue' = queue /\ ~(s \in subscribed /\ wait_phase # "ended")
  BY <1>1, <1>2 DEF InQueue, IsHeard
<1>3. CASE queue' = [queue EXCEPT ![s] = Append(@, i)]
  <2>1. PICK q \in Seq(Items) : q = queue[s]
    BY <1>1
  <2>2. PICK r \in Seq(Items) : r = Append(q, i)
    BY AppendKeeps
  <2>3. queue' \in [1..2 -> Seq(Items)] /\ queue'[s] = r
        /\ \A t \in 1..2 : t # s => queue'[t] = queue[t]
    BY <1>1, <1>3, <2>1, <2>2
  <2>4. Len(q) \in Nat /\ Len(r) = Len(q) + 1 /\ r[Len(q) + 1] = i
        /\ \A n \in 1..Len(q) : r[n] = q[n]
    BY <2>2, AppendKeeps
  <2>5. InQueue(s)' = {r[n] : n \in 1..Len(r)} /\ InQueue(s) = {q[n] : n \in 1..Len(q)}
    BY <2>1, <2>3 DEF InQueue
  <2>6. \A n \in 1..Len(r) : r[n] = i \/ (n \in 1..Len(q) /\ r[n] = q[n])
    BY <2>4
  <2>7. \A n \in 1..Len(q) : n \in 1..Len(r) /\ r[n] = q[n]
    BY <2>4
  <2>8. Len(r) \in 1..Len(r) /\ r[Len(r)] = i
    BY <2>4
  <2> QED BY <2>3, <2>5, <2>6, <2>7, <2>8
<1> QED BY <1>2, <1>3 DEF EmitItem, IsHeard

-----------------------------------------------------------------------------
(* Every action keeps the types *)

LEMMA ReturnTypes ==
  ASSUME WaitTypes, NEW r \in Results, Return(r)
  PROVE  /\ wait_phase' = "ended" /\ result' \in Results
         /\ UNCHANGED <<kind, subscribed, seen, late, items, shown, alive>>
BY DEF Return, itemVars

LEMMA ResultTypes ==
  /\ Pending \in Results /\ End("timeout") \in Results /\ End("closed") \in Results
  /\ \A i \in Items, n \in Items \cup {NoName} : Found(i, n) \in Results
BY DEF Pending, End, Found, Results

LEMMA InitWaitTypes == WaitsInit => WaitTypes
<1> SUFFICES ASSUME WaitsInit PROVE WaitTypes
  OBVIOUS
<1>1. [stage |-> "none", fits |-> TRUE] \in ItemRecords /\ <<>> \in Seq(Items)
  BY DEF ItemRecords
<1>2. items \in [Items -> ItemRecords] /\ queue \in [1..2 -> Seq(Items)]
      /\ asked \in [1..2 -> Items \cup {NoItem}]
  BY <1>1 DEF WaitsInit
<1>3. overtime \in Nat /\ result \in Results
  BY ResultTypes DEF WaitsInit
<1> QED BY <1>2, <1>3 DEF WaitsInit, WaitTypes

LEMMA NextWaitTypes == WaitTypes /\ [WaitsNext]_waitsVars => WaitTypes'
<1> SUFFICES ASSUME WaitTypes, [WaitsNext]_waitsVars PROVE WaitTypes'
  OBVIOUS
<1> USE DEF WaitTypes, waitVars, itemVars, historyVars
<1>1. CASE UNCHANGED waitsVars
  BY <1>1 DEF waitsVars
<1>2. CASE Subscribe \/ SubscribeAgain
  <2>1. wait_phase' \in {wait_phase, "subscribing", "waiting"}
    BY <1>2 DEF Subscribe, SubscribeAgain
  <2>3. subscribed' = subscribed \cup {1} \/ subscribed' = subscribed \cup {2} \/ subscribed' = {1, 2}
    BY <1>2 DEF Subscribe, SubscribeAgain, NextStream
  <2>4. subscribed' \subseteq 1..2
    <3>1. subscribed \subseteq 1..2 /\ 1 \in 1..2 /\ 2 \in 1..2
      OBVIOUS
    <3> QED BY <2>3, <3>1, Zenon
  <2>2. UNCHANGED <<kind, queue, seen, asked, detached, result, late, items, shown, alive, overtime>>
    BY <1>2 DEF Subscribe, SubscribeAgain
  <2> QED BY <2>1, <2>2, <2>4
<1>3. CASE Timeout \/ StreamEnds
  <2>1. detached' = TwoTasks \/ detached' = FALSE
    BY <1>3 DEF Timeout, StreamEnds
  <2>2. TwoTasks = TRUE \/ TwoTasks = FALSE
    BY DEF TwoTasks
  <2>3. detached' \in BOOLEAN
    BY <2>1, <2>2
  <2> QED BY <1>3, <2>3, ResultTypes DEF Timeout, StreamEnds, Return
<1>4. CASE ReadLifecycle \/ ReadAttached
  <2> DEFINE i == Item(1)
  <2>1. queue[1] # <<>> /\ Took(1) /\ Note /\ UNCHANGED <<kind, subscribed, seen, items, shown, alive, asked, detached>>
    BY <1>4 DEF ReadLifecycle, ReadAttached, Reads, Return
  <2>2. queue' \in [1..2 -> Seq(Items)] /\ i \in Items
    BY <2>1, TookKeeps
  <2>3. overtime' \in Nat
    BY <2>1 DEF Note
  <2>4. Found(i, NoName) \in Results /\ End("timeout") \in Results
    BY <2>2, ResultTypes
  <2>5. result' \in Results /\ wait_phase' \in {"waiting", "ended"} /\ late' \in BOOLEAN
    BY <1>4, <2>4 DEF ReadLifecycle, ReadAttached, Return, Reads, Waiting
  <2> QED BY <2>1, <2>2, <2>3, <2>5
<1>5. CASE Record
  <2>1. queue' \in [1..2 -> Seq(Items)] /\ Item(1) \in Items
    BY <1>5, TookKeeps DEF Record, Reads
  <2> QED BY <1>5, <2>1 DEF Record
<1>6. ASSUME NEW ok \in BOOLEAN, Body(ok) PROVE WaitTypes'
  <2>1. asked[2] \in Items /\ asked' \in [1..2 -> Items \cup {NoItem}] /\ UNCHANGED <<queue, overtime>>
    BY <1>6 DEF Body
  <2>2. Found(asked[2], NoName) \in Results
    BY <2>1, ResultTypes
  <2> QED BY <1>6, <2>1, <2>2 DEF Body, Return
<1>7. ASSUME NEW i \in Items, FinishOfRequest(i) \/ Completed(i) PROVE WaitTypes'
  <2>1. queue' \in [1..2 -> Seq(Items)]
    BY <1>7, TookKeeps DEF FinishOfRequest, Completed, TaskReads
  <2>2. CASE FinishOfRequest(i)
    <3>1. asked' \in [1..2 -> Items \cup {NoItem}]
      BY <2>2 DEF FinishOfRequest
    <3> QED BY <2>1, <2>2, <3>1 DEF FinishOfRequest
  <2>3. CASE Completed(i)
    <3> DEFINE name == IF i \in seen THEN i ELSE NoName
    <3>1. Found(i, name) \in Results
      BY ResultTypes
    <3>2. /\ UNCHANGED <<kind, subscribed, seen, late, items, shown, alive, asked, overtime>>
          /\ result' \in {result, Found(i, name)} /\ wait_phase' \in {wait_phase, "ended"}
          /\ detached' = FALSE
      BY <2>3 DEF Completed, Return
    <3> HIDE DEF name
    <3> QED BY <2>1, <3>1, <3>2
  <2> QED BY <1>7, <2>2, <2>3
<1>8. ASSUME NEW h \in 1..2, Decide(h) \/ \E ok \in BOOLEAN : HandleDialog(h, ok)
      PROVE  WaitTypes'
  <2>1. CASE Decide(h)
    <3>1. queue' \in [1..2 -> Seq(Items)] /\ Item(h) \in Items
      BY <2>1, TookKeeps DEF Decide, Reads
    <3> QED BY <2>1, <3>1 DEF Decide
  <2>2. ASSUME NEW ok \in BOOLEAN, HandleDialog(h, ok) PROVE WaitTypes'
    <3>1. items' = items \/ (shown \in Items /\ items' = [items EXCEPT ![shown].stage = "unanswered"])
      BY <2>2, ItemsAreNamed DEF HandleDialog
    <3>2. items' \in [Items -> ItemRecords]
      BY <3>1 DEF ItemRecords
    <3> QED BY <2>2, <3>2 DEF HandleDialog
  <2> QED BY <1>8, <2>1, <2>2
<1>9. ASSUME NEW i \in Items, NEW fits \in BOOLEAN, Begins(i, fits) PROVE WaitTypes'
  <2>1. queue' \in [1..2 -> Seq(Items)]
    BY <1>9, EmitKeeps DEF Begins
  <2>2. items' \in [Items -> ItemRecords]
    BY <1>9 DEF Begins, ItemRecords
  <2> QED BY <1>9, <2>1, <2>2 DEF Begins
<1>10. ASSUME NEW i \in Items, ItemEnds(i) PROVE WaitTypes'
  <2>1. queue' \in [1..2 -> Seq(Items)]
    BY <1>10, EmitKeeps DEF ItemEnds
  <2>2. items' \in [Items -> ItemRecords]
    BY <1>10 DEF ItemEnds, ItemRecords
  <2> QED BY <1>10, <2>1, <2>2 DEF ItemEnds
<1>11. ASSUME NEW i \in Items, Opens(i) PROVE WaitTypes'
  <2>1. \A s \in 1..2 : Append(queue[s], i) \in Seq(Items)
    BY AppendKeeps
  <2>2. queue' \in [1..2 -> Seq(Items)]
    BY <1>11, <2>1 DEF Opens
  <2>3. items' \in [Items -> ItemRecords]
    BY <1>11 DEF Opens, ItemRecords
  <2> QED BY <1>11, <2>2, <2>3 DEF Opens
<1>12. CASE Closes \/ TargetGoes \/ WaitClock
  BY <1>12 DEF Closes, TargetGoes, WaitClock
<1> QED BY <1>1, <1>2, <1>3, <1>4, <1>5, <1>6, <1>7, <1>8, <1>9, <1>10, <1>11, <1>12
        DEF WaitsNext

-----------------------------------------------------------------------------
(* Waits *)

HasEnded(i) == items[i].stage = "ended"

\* The streams a wait has while it waits.
Phases ==
  /\ wait_phase = "start" => subscribed = {}
  /\ wait_phase = "subscribing" => TwoTasks /\ subscribed = {1}
  /\ wait_phase = "waiting" /\ TwoTasks => subscribed = {1, 2}

\* What ends has ended: the second stream of two tasks, the first of the others.
OverWhereItEnds ==
  /\ kind # "dialog" => \A i \in InQueue(1) : items[i].stage # "none"
  /\ TwoTasks => \A i \in InQueue(2) : HasEnded(i)
  /\ ~TwoTasks /\ kind # "dialog" => \A i \in InQueue(1) : HasEnded(i)
  /\ kind = "response" /\ asked[2] # NoItem => asked[2] \in seen /\ HasEnded(asked[2])

\* The recorder records what fits and has begun; every download fits.
Recorded ==
  /\ \A i \in seen : items[i].fits /\ items[i].stage # "none"
  /\ kind = "download" => \A i \in Items : items[i].fits

\* What fits and has begun is recorded, or on its way to the recorder, or excused.
NothingSlipsBy ==
  TwoTasks /\ wait_phase \in {"start", "subscribing", "waiting"} =>
    \A i \in Items : items[i].stage # "none" /\ items[i].fits =>
      i \in seen \/ i \in InQueue(1) \/ i \in excused

\* An event read after the deadline is the last.
OneRead == kind = "loadState" => overtime = 0 \/ (overtime = 1 /\ wait_phase = "ended")

\* What is returned is an item.
Returned == result.ended = "ok" => result.item \in Items

\* A dialog handler returns nothing.
NoResult == kind = "dialog" => result.ended # "ok"

WaitInv ==
  WaitTypes /\ Phases /\ OverWhereItEnds /\ Recorded /\ NothingSlipsBy /\ OneRead /\ Returned
  /\ NoResult /\ WaitsReturnTheirOwn

\* An action that ends no item between the subscriptions and counts as missed only what
\* is excused.
LEMMA StillMissed ==
  ASSUME WaitInv, UNCHANGED <<kind, items>>, excused \subseteq excused',
         missed' \subseteq missed \cup excused'
  PROVE  kind' # "dialog" => missed' \subseteq MayBePassedOver'
<1>1. kind # "dialog" => missed \subseteq MayBePassedOver
  BY DEF WaitInv, WaitsReturnTheirOwn
<1>2. MayBePassedOver \subseteq MayBePassedOver' /\ excused' \subseteq MayBePassedOver'
  BY DEF MayBePassedOver
<1> QED BY <1>1, <1>2

LEMMA InitWaitInv == WaitsInit => WaitInv
<1> SUFFICES ASSUME WaitsInit PROVE WaitInv
  OBVIOUS
<1>1. WaitTypes
  BY InitWaitTypes
<1>2. InQueue(1) = {} /\ InQueue(2) = {} /\ asked[2] = NoItem
  BY DEF WaitsInit, InQueue
<1>3. \A i \in Items : items[i].stage = "none" /\ items[i].fits
  BY DEF WaitsInit
<1>4. result.ended = "no" /\ missed = {} /\ overtime = 0 /\ seen = {} /\ subscribed = {}
      /\ wait_phase = "start"
  BY DEF WaitsInit, Pending
<1> QED BY <1>1, <1>2, <1>3, <1>4
        DEF WaitInv, Phases, OverWhereItEnds, Recorded, NothingSlipsBy, OneRead, Returned,
            NoResult, WaitsReturnTheirOwn, MayBePassedOver

\* The conjuncts that only grow: what an action that moves no item may do.
LEMMA QuietKeeps ==
  ASSUME WaitInv, WaitTypes', UNCHANGED <<kind, items, seen, queue, missed, overtime>>,
         excused \subseteq excused', asked'[2] \in {asked[2], NoItem},
         result' = result \/ result'.ended \in {"timeout", "closed"},
         Phases', wait_phase = "ended" => wait_phase' = "ended"
  PROVE  WaitInv'
<1> USE DEF WaitInv
<1>1. InQueue(1)' = InQueue(1) /\ InQueue(2)' = InQueue(2) /\ (TwoTasks' <=> TwoTasks)
      /\ \A i \in Items : HasEnded(i)' <=> HasEnded(i)
  BY DEF InQueue, TwoTasks, HasEnded
<1>2. OverWhereItEnds'
  BY <1>1 DEF OverWhereItEnds, HasEnded, WaitTypes, InQueue
<1>3. Recorded'
  BY DEF Recorded
<1>4. NothingSlipsBy'
  BY <1>1 DEF NothingSlipsBy, WaitTypes
<1>5. OneRead'
  BY DEF OneRead
<1>6. WaitsReturnTheirOwn' /\ Returned' /\ NoResult'
  BY StillMissed DEF WaitsReturnTheirOwn, Returned, NoResult
<1> QED BY <1>2, <1>3, <1>4, <1>5, <1>6

\* Reading a stream that ends nothing, or nothing of two tasks.
LEMMA LessToRead ==
  ASSUME WaitInv, WaitTypes', NEW s \in 1..2, queue[s] # <<>>, Took(s),
         UNCHANGED <<kind, items, asked>>, seen \subseteq seen'
  PROVE  OverWhereItEnds'
<1> USE DEF WaitInv
<1>1. \A t \in 1..2 : InQueue(t)' \subseteq InQueue(t)
  <2>1. InQueue(s)' \subseteq InQueue(s) /\ \A t \in 1..2 : t # s => queue'[t] = queue[t]
    BY TookKeeps
  <2> QED BY <2>1 DEF InQueue
<1>2. (TwoTasks' <=> TwoTasks) /\ \A i : HasEnded(i)' <=> HasEnded(i)
  BY DEF TwoTasks, HasEnded
<1>3. InQueue(1)' \subseteq InQueue(1) /\ InQueue(2)' \subseteq InQueue(2)
  BY <1>1
<1> QED BY <1>2, <1>3 DEF OverWhereItEnds, HasEnded

\* The caller's own reads.
LEMMA CallerReads == ASSUME WaitInv, WaitTypes', ReadLifecycle \/ ReadAttached PROVE WaitInv'
<1> DEFINE i == Item(1)
<1> USE DEF WaitInv
<1>1. /\ kind \in {"loadState", "popup"} /\ ~TwoTasks /\ Waiting
      /\ queue[1] # <<>> /\ Took(1) /\ Note
      /\ UNCHANGED <<kind, subscribed, seen, items, shown, alive, asked, detached, missed, excused>>
      /\ wait_phase' \in {"waiting", "ended"}
  BY DEF ReadLifecycle, ReadAttached, Reads, Return, TwoTasks, itemVars, Waiting
<1>2. i \in Items /\ i \in InQueue(1)
  BY <1>1, TookKeeps
<1>3. HasEnded(i)
  BY <1>1, <1>2 DEF OverWhereItEnds
<1>4. OverWhereItEnds'
  BY <1>1, LessToRead
<1>5. Phases' /\ NothingSlipsBy' /\ Recorded'
  BY <1>1 DEF Phases, NothingSlipsBy, Recorded, TwoTasks
<1>6. OneRead'
  <2>1. CASE kind = "loadState"
    <3>1. ReadLifecycle /\ overtime = 0
      BY <1>1, <2>1 DEF ReadAttached, OneRead, Waiting
    <3>2. overtime' = IF late THEN 1 ELSE 0
      BY <1>1, <3>1 DEF Note
    <3>3. late => wait_phase' = "ended"
      BY <3>1 DEF ReadLifecycle, Return
    <3> QED BY <3>2, <3>3 DEF OneRead
  <2> QED BY <1>1, <2>1 DEF OneRead
<1>7. result' \in {result, End("timeout")}
      \/ (result' = Found(i, NoName) /\ items[i].fits)
  <2>1. CASE ReadLifecycle
    BY <2>1 DEF ReadLifecycle, Return
  <2>2. CASE ReadAttached
    BY <2>2 DEF ReadAttached, Return
  <2> QED BY <2>1, <2>2
<1>8. WaitsReturnTheirOwn' /\ Returned' /\ NoResult'
  <2>1. CASE result' = result
    <3>1. kind # "loadState" \/ overtime' <= 1
      BY <1>1, <1>6 DEF OneRead
    <3> QED BY <1>1, <2>1, <3>1, StillMissed DEF WaitsReturnTheirOwn, Returned, NoResult
  <2>2. CASE result' = End("timeout")
    <3>1. result'.ended = "timeout"
      BY <2>2 DEF End, Pending
    <3>2. kind # "loadState" \/ overtime' <= 1
      BY <1>1, <1>6 DEF OneRead
    <3> QED BY <1>1, <3>1, <3>2, StillMissed DEF WaitsReturnTheirOwn, Returned, NoResult
  <2>3. CASE result' = Found(i, NoName) /\ items[i].fits
    <3>1. result'.item = i
      BY <2>3 DEF Found
    <3>2. kind # "loadState" \/ overtime' <= 1
      BY <1>1, <1>6 DEF OneRead
    <3> QED BY <1>1, <1>2, <1>3, <2>3, <3>1, <3>2, StillMissed
            DEF WaitsReturnTheirOwn, Returned, NoResult, HasEnded
  <2> QED BY <1>7, <2>1, <2>2, <2>3
<1> QED BY <1>4, <1>5, <1>6, <1>8

\* The recorder.
LEMMA RecorderReads == ASSUME WaitInv, WaitTypes', Record PROVE WaitInv'
<1> DEFINE i == Item(1)
<1> USE DEF WaitInv
<1>1. /\ TwoTasks /\ Waiting /\ queue[1] # <<>> /\ Took(1)
      /\ seen' = IF items[i].fits THEN seen \cup {i} ELSE seen
      /\ UNCHANGED <<kind, wait_phase, subscribed, items, asked, result, missed, excused, overtime>>
  BY DEF Record, Reads, historyVars, itemVars
<1>2. i \in Items /\ InQueue(1) \subseteq InQueue(1)' \cup {i}
  BY <1>1, TookKeeps
<1>3. OverWhereItEnds'
  BY <1>1, LessToRead
<1>4. items[i].stage # "none"
  BY <1>1, TookKeeps DEF OverWhereItEnds, TwoTasks
<1>5. Recorded'
  BY <1>1, <1>4 DEF Recorded
<1>6. NothingSlipsBy'
  BY <1>1, <1>2 DEF NothingSlipsBy, Waiting, TwoTasks
<1>7. WaitsReturnTheirOwn' /\ NoResult'
  BY <1>1, StillMissed DEF WaitsReturnTheirOwn, NoResult
<1> QED BY <1>1, <1>3, <1>5, <1>6, <1>7 DEF Phases, OneRead, Returned, TwoTasks

\* A request that ends: it is recorded and asked for, or passed over.
LEMMA RequestEnds ==
  ASSUME WaitInv, WaitTypes', NEW i \in Items, FinishOfRequest(i) PROVE WaitInv'
<1> USE DEF WaitInv
<1>1. /\ kind = "response" /\ TwoTasks /\ i = Item(2) /\ queue[2] # <<>> /\ Took(2)
      /\ UNCHANGED <<kind, wait_phase, subscribed, seen, items, result, overtime>>
  BY DEF FinishOfRequest, TaskReads, waitVars, itemVars
<1>2. /\ i \in InQueue(2) /\ InQueue(2)' \subseteq InQueue(2) /\ queue'[1] = queue[1]
  BY <1>1, TookKeeps
<1>3. InQueue(1)' = InQueue(1) /\ TwoTasks' /\ (IsQueued(i) <=> i \in InQueue(1))
  BY <1>1, <1>2 DEF InQueue, TwoTasks, IsQueued
<1>4. HasEnded(i)
  BY <1>1, <1>2 DEF OverWhereItEnds
<1>5. excused \subseteq excused'
  BY DEF FinishOfRequest, Excuse
<1>6. asked'[2] # NoItem => asked'[2] \in seen /\ HasEnded(asked'[2])
  <2>1. CASE asked' = [asked EXCEPT ![2] = i] /\ i \in seen
    BY <1>4, <2>1 DEF WaitTypes
  <2>2. CASE asked' = asked
    BY <1>1, <2>2 DEF OverWhereItEnds
  <2> QED BY <2>1, <2>2 DEF FinishOfRequest, RecordedFirst
<1>7. OverWhereItEnds'
  BY <1>1, <1>2, <1>3, <1>6 DEF OverWhereItEnds, HasEnded
<1>8. missed' \subseteq missed \cup excused'
  <2>2. CASE RecordedFirst(i)
    BY <2>2 DEF FinishOfRequest
  <2>3. CASE ~RecordedFirst(i)
    <3>1. PassOver(i) /\ Excuse(i) /\ i \notin seen
      BY <2>3 DEF FinishOfRequest, RecordedFirst
    <3>2. CASE Waiting /\ items[i].fits
      <4>1. i \in InQueue(1) \/ i \in excused
        BY <1>1, <1>4, <3>1, <3>2 DEF NothingSlipsBy, Waiting, HasEnded
      <4>2. i \in excused'
        BY <1>3, <3>1, <4>1 DEF Excuse
      <4> QED BY <3>1, <4>2 DEF PassOver
    <3>3. CASE ~(Waiting /\ items[i].fits)
      BY <3>1, <3>3 DEF PassOver
    <3> QED BY <3>2, <3>3
  <2> QED BY <2>2, <2>3
<1>9. NothingSlipsBy'
  BY <1>1, <1>3, <1>5 DEF NothingSlipsBy, TwoTasks
<1>10. WaitsReturnTheirOwn' /\ NoResult'
  BY <1>1, <1>5, <1>8, StillMissed DEF WaitsReturnTheirOwn, NoResult
<1> QED BY <1>1, <1>7, <1>9, <1>10 DEF Phases, Recorded, OneRead, Returned, TwoTasks

\* The body of the request.
LEMMA BodyArrives ==
  ASSUME WaitInv, WaitTypes', NEW ok \in BOOLEAN, Body(ok) PROVE WaitInv'
<1> DEFINE i == asked[2]
<1> USE DEF WaitInv
<1>1. /\ kind = "response" /\ TwoTasks /\ i # NoItem /\ asked'[2] = NoItem
      /\ UNCHANGED <<kind, queue, subscribed, seen, items, overtime>>
      /\ wait_phase' \in {wait_phase, "ended"}
  BY DEF Body, TwoTasks, waitVars, itemVars, Return, WaitTypes
<1>2. i \in Items /\ items[i].fits /\ HasEnded(i)
  BY <1>1 DEF OverWhereItEnds, Recorded, WaitTypes
<1>3. excused \subseteq excused' /\ missed' \subseteq missed \cup excused'
  BY <1>1 DEF Body
<1>4. InQueue(1)' = InQueue(1) /\ InQueue(2)' = InQueue(2) /\ TwoTasks'
  BY <1>1 DEF InQueue, TwoTasks
<1>5. OverWhereItEnds' /\ NothingSlipsBy' /\ Phases' /\ Recorded' /\ OneRead'
  BY <1>1, <1>3, <1>4
     DEF OverWhereItEnds, NothingSlipsBy, Phases, Recorded, OneRead, TwoTasks, HasEnded
<1>6. result' \in {result, Found(i, NoName)}
  BY DEF Body, Return, waitVars
<1>7. CASE result' = result
  BY <1>1, <1>3, <1>5, <1>7, StillMissed DEF WaitsReturnTheirOwn, Returned, NoResult
<1>8. CASE result' = Found(i, NoName)
  <2>1. result'.item = i
    BY <1>8 DEF Found
  <2> QED BY <1>1, <1>2, <1>3, <1>5, <2>1, StillMissed
          DEF WaitsReturnTheirOwn, Returned, NoResult, HasEnded
<1> QED BY <1>6, <1>7, <1>8

\* A download that ends, with the name that was recorded or none.
LEMMA DownloadEnds ==
  ASSUME WaitInv, WaitTypes', NEW i \in Items, Completed(i) PROVE WaitInv'
<1> DEFINE name == IF i \in seen THEN i ELSE NoName
<1> USE DEF WaitInv
<1>1. /\ kind = "download" /\ TwoTasks /\ i = Item(2) /\ queue[2] # <<>> /\ Took(2)
      /\ UNCHANGED <<kind, subscribed, seen, items, asked, missed, overtime>>
      /\ wait_phase' \in {wait_phase, "ended"}
      /\ result' = result \/ (Waiting /\ result' = Found(i, name))
      /\ Excuse(i)
  BY DEF Completed, TaskReads, Return, itemVars
<1>2. /\ i \in InQueue(2) /\ InQueue(2)' \subseteq InQueue(2) /\ queue'[1] = queue[1]
  BY <1>1, TookKeeps
<1>3. InQueue(1)' = InQueue(1) /\ TwoTasks' /\ (IsQueued(i) <=> i \in InQueue(1))
  BY <1>1, <1>2 DEF InQueue, TwoTasks, IsQueued
<1>4. HasEnded(i) /\ items[i].fits
  BY <1>1, <1>2 DEF OverWhereItEnds, Recorded
<1>5. excused \subseteq excused' /\ (i \in InQueue(1) => i \in excused')
  BY <1>1, <1>3 DEF Excuse
<1>6. OverWhereItEnds' /\ NothingSlipsBy' /\ Phases' /\ Recorded' /\ OneRead'
  BY <1>1, <1>2, <1>3, <1>5
     DEF OverWhereItEnds, NothingSlipsBy, Phases, Recorded, OneRead, TwoTasks, HasEnded
<1>7. missed' \subseteq MayBePassedOver' /\ NoResult'
  BY <1>1, <1>5, StillMissed DEF NoResult
<1>8. CASE result' = result
  <2>1. result.item \in excused => result.item \in excused'
    BY <1>5
  <2>2. result.ended = "ok" =>
          /\ items[result.item].fits /\ items[result.item].stage = "ended"
          /\ result.name = result.item \/ (result.name = NoName /\ result.item \in excused)
    BY <1>1 DEF WaitsReturnTheirOwn
  <2>3. Returned'
    BY <1>8 DEF Returned
  <2> HIDE DEF name
  <2>4. kind' = "download" /\ items' = items
    BY <1>1
  <2>5. WaitsReturnTheirOwn'
    BY <1>7, <1>8, <2>1, <2>2, <2>4 DEF WaitsReturnTheirOwn
  <2> QED BY <1>6, <1>7, <2>3, <2>5
<1>9. CASE Waiting /\ result' = Found(i, name)
  <2>1. result'.item = i /\ result'.name = name
    BY <1>9 DEF Found
  <2>2. i \in seen \/ i \in excused'
    BY <1>1, <1>4, <1>5, <1>9 DEF NothingSlipsBy, Waiting, HasEnded
  <2>3. result'.name = result'.item \/ (result'.name = NoName /\ result'.item \in excused')
    BY <2>1, <2>2
  <2>4. kind' = "download" /\ items' = items
    BY <1>1
  <2>5. WaitsReturnTheirOwn'
    BY <1>4, <1>7, <2>1, <2>3, <2>4 DEF WaitsReturnTheirOwn, HasEnded
  <2>6. Returned'
    BY <2>1 DEF Returned
  <2> QED BY <1>6, <1>7, <2>5, <2>6
<1> QED BY <1>1, <1>8, <1>9

\* An item begins: recorded soon, or older than the wait.
LEMMA ItemBegins ==
  ASSUME WaitInv, WaitTypes', NEW i \in Items, NEW fits \in BOOLEAN, Begins(i, fits)
  PROVE  WaitInv'
<1> DEFINE stage == IF TwoTasks THEN "begun" ELSE "ended"
<1> USE DEF WaitInv
<1>1. /\ kind # "dialog" /\ (TwoTasks \/ subscribed # {}) /\ (kind = "download" => fits)
      /\ items[i].stage = "none" /\ EmitItem(1, i)
      /\ items' = [items EXCEPT ![i] = [stage |-> stage, fits |-> fits]]
      /\ UNCHANGED <<kind, wait_phase, subscribed, seen, result, asked, missed, overtime>>
      /\ excused \subseteq excused' /\ (wait_phase = "start" => i \in excused')
  BY DEF Begins, waitVars
<1>2. /\ InQueue(1)' \subseteq InQueue(1) \cup {i} /\ InQueue(1) \subseteq InQueue(1)'
      /\ (1 \in subscribed /\ wait_phase # "ended" => i \in InQueue(1)')
      /\ queue'[2] = queue[2]
  BY <1>1, EmitKeeps
<1>3. InQueue(2)' = InQueue(2) /\ (TwoTasks' <=> TwoTasks)
  BY <1>1, <1>2 DEF InQueue, TwoTasks
<1>4. /\ items'[i].stage = stage /\ items'[i].fits = fits
      /\ \A j \in Items : j # i => items'[j] = items[j]
  BY <1>1 DEF WaitTypes
<1>5. \A j \in Items : HasEnded(j) => HasEnded(j)' /\ (items'[j].fits <=> items[j].fits)
  BY <1>1, <1>4 DEF HasEnded
<1>6. InQueue(1) \subseteq Items /\ InQueue(2) \subseteq Items /\ asked[2] \in Items \cup {NoItem}
      /\ seen \subseteq Items
  BY DEF InQueue, WaitTypes
<1>7. OverWhereItEnds'
  <2>1. \A j \in InQueue(1)' : items'[j].stage # "none"
    BY <1>1, <1>2, <1>4, <1>6 DEF OverWhereItEnds
  <2>2. TwoTasks => \A j \in InQueue(2) : HasEnded(j)'
    BY <1>5, <1>6 DEF OverWhereItEnds
  <2>3. ~TwoTasks => \A j \in InQueue(1)' : HasEnded(j)'
    BY <1>1, <1>2, <1>4, <1>5, <1>6 DEF OverWhereItEnds, HasEnded
  <2>4. kind = "response" /\ asked[2] # NoItem => asked[2] \in seen /\ items'[asked[2]].stage = "ended"
    BY <1>5, <1>6 DEF OverWhereItEnds, HasEnded
  <2> QED BY <1>1, <1>3, <2>1, <2>2, <2>3, <2>4 DEF OverWhereItEnds, HasEnded
<1>8. Recorded'
  <2>1. i \notin seen
    BY <1>1 DEF Recorded
  <2> QED BY <1>1, <1>4, <1>6, <2>1 DEF Recorded
<1>9. NothingSlipsBy'
  <2>1. TwoTasks /\ wait_phase \in {"subscribing", "waiting"} => 1 \in subscribed
    BY DEF Phases
  <2>2. TwoTasks /\ wait_phase \in {"start", "subscribing", "waiting"}
        => i \in InQueue(1)' \/ i \in excused'
    BY <1>1, <1>2, <2>1
  <2> QED BY <1>1, <1>2, <1>3, <1>4, <2>2 DEF NothingSlipsBy
<1>10. WaitsReturnTheirOwn' /\ NoResult'
  <2>1. result.ended = "ok" => items'[result.item].fits /\ items'[result.item].stage = "ended"
    BY <1>5 DEF WaitsReturnTheirOwn, Returned, HasEnded
  <2>2. missed \subseteq MayBePassedOver
    BY <1>1 DEF WaitsReturnTheirOwn
  <2>3. \A j \in Items : items[j].stage = "unheard" => items'[j].stage = "unheard"
    BY <1>1, <1>4
  <2>4. MayBePassedOver \subseteq MayBePassedOver'
    BY <1>1, <2>3 DEF MayBePassedOver
  <2> QED BY <1>1, <2>1, <2>2, <2>4 DEF WaitsReturnTheirOwn, NoResult
<1>11. Phases' /\ OneRead' /\ Returned'
  BY <1>1, <1>3 DEF Phases, OneRead, Returned
<1> QED BY <1>7, <1>8, <1>9, <1>10, <1>11

\* An item ends: the second stream hears of it, or nobody does.
LEMMA ItemIsOver ==
  ASSUME WaitInv, WaitTypes', NEW i \in Items, ItemEnds(i) PROVE WaitInv'
<1> USE DEF WaitInv
<1>0. PICK stage \in {"unheard", "ended"} : stage = IF Unheard THEN "unheard" ELSE "ended"
  OBVIOUS
<1>1. /\ TwoTasks /\ items[i].stage = "begun" /\ EmitItem(2, i)
      /\ items' = [items EXCEPT ![i].stage = stage]
      /\ missed' = IF Unheard /\ items[i].fits THEN missed \cup {i} ELSE missed
      /\ UNCHANGED <<kind, wait_phase, subscribed, seen, result, asked, overtime, excused>>
  BY <1>0 DEF ItemEnds, waitVars
<1>2. InQueue(2)' \subseteq InQueue(2) \cup {i} /\ queue'[1] = queue[1]
  BY <1>1, EmitKeeps
<1>3. InQueue(1)' = InQueue(1) /\ TwoTasks'
  BY <1>1, <1>2 DEF InQueue, TwoTasks
<1>4. /\ items'[i].stage = stage
      /\ \A j \in Items : (items'[j].fits <=> items[j].fits) /\ (j # i => items'[j] = items[j])
  BY <1>1 DEF WaitTypes, ItemRecords
<1>5. InQueue(1) \subseteq Items /\ InQueue(2) \subseteq Items /\ asked[2] \in Items \cup {NoItem}
      /\ seen \subseteq Items
  BY DEF InQueue, WaitTypes
<1>6. \A j \in Items : (HasEnded(j) => HasEnded(j)') /\ (items[j].stage # "none" <=> items'[j].stage # "none")
  BY <1>1, <1>4 DEF HasEnded
<1>7. OverWhereItEnds'
  <2>1. \A j \in InQueue(1)' : items'[j].stage # "none"
    BY <1>1, <1>3, <1>5, <1>6 DEF OverWhereItEnds, TwoTasks
  <2>2. \A j \in InQueue(2)' : HasEnded(j)'
    <3>1. CASE Unheard
      <4>1. queue' = queue
        BY <1>1, <3>1 DEF Unheard, EmitItem
      <4>2. InQueue(2)' = InQueue(2)
        BY <4>1 DEF InQueue
      <4> QED BY <1>1, <1>5, <1>6, <4>2 DEF OverWhereItEnds
    <3>2. CASE ~Unheard
      <4>1. stage = "ended"
        BY <1>0, <3>2
      <4> QED BY <1>1, <1>2, <1>4, <1>5, <1>6, <4>1 DEF OverWhereItEnds, HasEnded
    <3> QED BY <3>1, <3>2
  <2>3. kind = "response" /\ asked[2] # NoItem => asked[2] \in seen /\ items'[asked[2]].stage = "ended"
    BY <1>5, <1>6 DEF OverWhereItEnds, HasEnded
  <2> QED BY <1>1, <1>3, <2>1, <2>2, <2>3 DEF OverWhereItEnds, HasEnded
<1>8. Recorded' /\ NothingSlipsBy'
  BY <1>1, <1>3, <1>4, <1>5, <1>6 DEF Recorded, NothingSlipsBy
<1>9. missed' \subseteq MayBePassedOver'
  <2>1. missed \subseteq MayBePassedOver
    BY <1>1 DEF WaitsReturnTheirOwn, TwoTasks
  <2>2. \A j \in Items : items[j].stage = "unheard" => items'[j].stage = "unheard"
    BY <1>1, <1>4
  <2>3. MayBePassedOver \subseteq MayBePassedOver'
    BY <1>1, <2>2 DEF MayBePassedOver
  <2>4. Unheard => i \in MayBePassedOver'
    BY <1>0, <1>4 DEF MayBePassedOver
  <2> QED BY <1>1, <2>1, <2>3, <2>4
<1>10. WaitsReturnTheirOwn'
  <2>1. result.ended = "ok" => items'[result.item].fits /\ items'[result.item].stage = "ended"
    BY <1>4, <1>6 DEF WaitsReturnTheirOwn, Returned, HasEnded
  <2> QED BY <1>1, <1>9, <2>1 DEF WaitsReturnTheirOwn
<1>11. Phases' /\ OneRead' /\ Returned' /\ NoResult'
  BY <1>1, <1>3 DEF Phases, OneRead, Returned, NoResult
<1> QED BY <1>7, <1>8, <1>10, <1>11

\* What a dialog does is nothing to a wait.
LEMMA DialogsAreNoWaits ==
  ASSUME WaitInv, WaitTypes',
         \/ \E h \in 1..2 : Decide(h) \/ \E ok \in BOOLEAN : HandleDialog(h, ok)
         \/ \E i \in Items : Opens(i)
  PROVE  WaitInv'
<1> USE DEF WaitInv
<1>1. /\ kind = "dialog" /\ ~TwoTasks /\ UNCHANGED <<kind, waitVars, overtime, missed, excused>>
  BY DEF Decide, HandleDialog, Opens, TwoTasks, historyVars
<1>2. \A j \in Items : (items'[j].fits <=> items[j].fits)
                      /\ (items[j].stage # "none" => items'[j].stage # "none")
  <2>1. CASE \E i \in Items : Opens(i)
    BY <2>1 DEF Opens, WaitTypes, ItemRecords
  <2>2. CASE \E h \in 1..2 : Decide(h)
    BY <2>2 DEF Decide, itemVars
  <2>3. CASE \E h \in 1..2, ok \in BOOLEAN : HandleDialog(h, ok)
    <3>1. PICK d : d = shown
      OBVIOUS
    <3>2. items' = items \/ items' = [items EXCEPT ![d].stage = "unanswered"]
      BY <2>3, <3>1 DEF HandleDialog
    <3>3. ASSUME NEW j \in Items
          PROVE  (items'[j].fits <=> items[j].fits)
                 /\ (items[j].stage # "none" => items'[j].stage # "none")
      <4>1. items[j] \in ItemRecords /\ items \in [Items -> ItemRecords]
        BY DEF WaitTypes
      <4>2. CASE items' = items
        BY <4>2
      <4>3. CASE items' = [items EXCEPT ![d].stage = "unanswered"] /\ j # d
        <5>1. items'[j] = items[j]
          BY <4>1, <4>3
        <5> QED BY <5>1
      <4>4. CASE items' = [items EXCEPT ![d].stage = "unanswered"] /\ j = d
        <5>1. items'[j] = [items[j] EXCEPT !.stage = "unanswered"]
          BY <4>1, <4>4
        <5> QED BY <4>1, <5>1 DEF ItemRecords
      <4> QED BY <3>2, <4>2, <4>3, <4>4
    <3> QED BY <3>3
  <2> QED BY <2>1, <2>2, <2>3
<1>3. seen \subseteq Items /\ TwoTasks' = FALSE
  BY <1>1 DEF WaitTypes, TwoTasks
<1>4. Recorded'
  BY <1>1, <1>2, <1>3 DEF Recorded, waitVars
<1>5. result.ended # "ok"
  BY <1>1 DEF NoResult
<1>6. WaitsReturnTheirOwn' /\ NoResult'
  BY <1>1, <1>5 DEF WaitsReturnTheirOwn, NoResult, waitVars
<1> QED BY <1>1, <1>3, <1>4, <1>6
        DEF Phases, OverWhereItEnds, NothingSlipsBy, OneRead, Returned, waitVars, TwoTasks

\* The rest moves no item and reads nothing.
LEMMA OthersAreQuiet ==
  ASSUME WaitInv, WaitTypes',
         \/ Subscribe \/ SubscribeAgain \/ Timeout \/ StreamEnds
         \/ Closes \/ TargetGoes \/ WaitClock \/ UNCHANGED waitsVars
  PROVE  WaitInv'
<1> USE DEF waitVars, itemVars, historyVars
<1>1. CASE Subscribe
  <2>1. Phases'
    BY <1>1 DEF Subscribe, NextStream, WaitInv, Phases, TwoTasks
  <2> QED BY <1>1, <2>1, QuietKeeps DEF Subscribe
<1>2. CASE SubscribeAgain
  <2>1. Phases'
    BY <1>2 DEF SubscribeAgain, WaitInv, Phases, TwoTasks
  <2> QED BY <1>2, <2>1, QuietKeeps DEF SubscribeAgain
<1>3. CASE Timeout \/ StreamEnds
  <2>1. /\ wait_phase' = "ended" /\ result' \in {End("timeout"), End("closed")}
        /\ UNCHANGED <<kind, items, seen, queue, missed, overtime, excused, asked, subscribed>>
    BY <1>3 DEF Timeout, StreamEnds, Return
  <2>2. result'.ended \in {"timeout", "closed"}
    BY <2>1 DEF End, Pending
  <2>3. Phases'
    BY <2>1 DEF Phases
  <2> QED BY <2>1, <2>2, <2>3, QuietKeeps
<1>4. CASE Closes \/ TargetGoes \/ WaitClock \/ UNCHANGED waitsVars
  <2>1. /\ UNCHANGED <<kind, items, seen, queue, missed, overtime, asked, subscribed, result,
                       wait_phase>>
        /\ excused \subseteq excused'
    BY <1>4 DEF Closes, TargetGoes, WaitClock, waitsVars
  <2>2. Phases'
    BY <2>1 DEF WaitInv, Phases, TwoTasks
  <2> QED BY <2>1, <2>2, QuietKeeps
<1> QED BY <1>1, <1>2, <1>3, <1>4

LEMMA NextWaitInv == WaitInv /\ [WaitsNext]_waitsVars => WaitInv'
<1> SUFFICES ASSUME WaitInv, [WaitsNext]_waitsVars PROVE WaitInv'
  OBVIOUS
<1>1. WaitTypes'
  BY NextWaitTypes DEF WaitInv
<1>2. CASE UNCHANGED waitsVars
  BY <1>1, <1>2, OthersAreQuiet
<1>3. CASE WaitsNext
  <2>1. CASE Subscribe \/ SubscribeAgain \/ Timeout \/ StreamEnds
             \/ Closes \/ TargetGoes \/ WaitClock
    BY <1>1, <2>1, OthersAreQuiet
  <2>2. CASE ReadLifecycle \/ ReadAttached \/ Record
    BY <1>1, <2>2, CallerReads, RecorderReads
  <2>3. CASE \E ok \in BOOLEAN : Body(ok)
    BY <1>1, <2>3, BodyArrives
  <2>4. CASE \E i \in Items : FinishOfRequest(i) \/ Completed(i)
    BY <1>1, <2>4, RequestEnds, DownloadEnds
  <2>5. CASE \E i \in Items : ItemEnds(i) \/ \E fits \in BOOLEAN : Begins(i, fits)
    BY <1>1, <2>5, ItemIsOver, ItemBegins
  <2>6. CASE \E i \in Items : Opens(i)
    BY <1>1, <2>6, DialogsAreNoWaits
  <2>7. CASE \E h \in 1..2 : Decide(h) \/ \E ok \in BOOLEAN : HandleDialog(h, ok)
    BY <1>1, <2>7, DialogsAreNoWaits
  <2> QED BY <1>3, <2>1, <2>2, <2>3, <2>4, <2>5, <2>6, <2>7 DEF WaitsNext
<1> QED BY <1>2, <1>3

\* The types of a wait: its subscriptions, their queues and what it has seen.
THEOREM WaitsAreTyped == WaitsSpec => []WaitsTypeOK
<1>1. WaitTypes => WaitsTypeOK
  BY DEF WaitTypes, WaitsTypeOK, Results
<1> QED BY InitWaitTypes, NextWaitTypes, <1>1, PTL DEF WaitsSpec

\* A wait returns what it was for, when it is over, and what it passes over is excused or
\* ended between its two subscriptions
\* (wait_for_response, wait_for_download, wait_for_load_state, wait_for_popup).
THEOREM WaitsFindTheirOwn == WaitsSpec => []WaitsReturnTheirOwn
<1>1. WaitInv => WaitsReturnTheirOwn
  BY DEF WaitInv
<1> QED BY InitWaitInv, NextWaitInv, <1>1, PTL DEF WaitsSpec

-----------------------------------------------------------------------------
(* Dialogs *)

Unasked(h) == queue[h] = <<>> /\ asked[h] = NoItem

\* A dialog that is open is on its way to the first handler, or an answer to it failed.
Reaches ==
  /\ 1 \in subscribed \/ subscribed = {}
  /\ subscribed = {} => answers = {}
  /\ shown # NoItem =>
       1 \in subscribed /\ (~Unasked(1) \/ items[shown].stage = "unanswered")
  /\ \A h \in {1, 2} \ subscribed : Unasked(h)

\* Alone and undisturbed, the handler has no dialog but that one.
OneAtATime ==
  2 \notin subscribed /\ excused = {} =>
    /\ \A a \in answers : a[1] = a[2]
    /\ alive => \/ shown = NoItem /\ Unasked(1)
                \/ shown # NoItem /\ queue[1] = <<shown>> /\ asked[1] = NoItem
                \/ shown # NoItem /\ queue[1] = <<>> /\ asked[1] \in {shown, NoItem}

DialogInv == WaitTypes /\ (kind = "dialog" => Reaches /\ OneAtATime)

LEMMA InitDialogInv == WaitsInit => DialogInv
<1> SUFFICES ASSUME WaitsInit PROVE DialogInv
  OBVIOUS
<1>1. WaitTypes
  BY InitWaitTypes
<1>2. subscribed = {} /\ answers = {} /\ shown = NoItem /\ Unasked(1) /\ Unasked(2)
  BY DEF WaitsInit, Unasked
<1> QED BY <1>1, <1>2 DEF DialogInv, Reaches, OneAtATime

\* A handler is told of a dialog and decides: it has one fewer to hear of.
LEMMA DecideKeeps ==
  ASSUME DialogInv, WaitTypes', NEW h \in 1..2, Decide(h) PROVE DialogInv'
<1> USE DEF DialogInv
<1>1. /\ kind = "dialog" /\ queue[h] # <<>> /\ asked[h] = NoItem /\ Took(h)
      /\ asked' = [asked EXCEPT ![h] = Item(h)]
      /\ UNCHANGED <<kind, subscribed, items, shown, alive, excused, answers>>
  BY DEF Decide, Reads, waitVars, itemVars, historyVars
<1>2. Item(h) \in Items /\ \A t \in 1..2 : t # h => queue'[t] = queue[t]
  BY <1>1, TookKeeps
<1>3. asked'[h] = Item(h) /\ asked'[h] # NoItem /\ \A t \in 1..2 : t # h => asked'[t] = asked[t]
  BY <1>1, <1>2, ItemsAreNamed DEF WaitTypes
<1>4. h \in subscribed /\ ~Unasked(h)'
  BY <1>1, <1>3 DEF Reaches, Unasked
<1>5. \A t \in 1..2 : t # h => (Unasked(t)' <=> Unasked(t))
  BY <1>2, <1>3 DEF Unasked
<1>6. Reaches'
  BY <1>1, <1>4, <1>5 DEF Reaches
<1>7. OneAtATime'
  <2> SUFFICES ASSUME 2 \notin subscribed, excused = {}
               PROVE  OneAtATime'
    BY <1>1 DEF OneAtATime
  <2>1. h = 1
    BY <1>4
  <2>2. alive => shown # NoItem /\ queue[1] = <<shown>>
    BY <1>1, <2>1 DEF OneAtATime, Unasked
  <2>3. alive => queue'[1] = <<>> /\ asked'[1] = shown
    BY <1>1, <1>3, <2>1, <2>2 DEF Took, Item, WaitTypes
  <2> QED BY <1>1, <2>2, <2>3 DEF OneAtATime
<1> QED BY <1>1, <1>6, <1>7

\* The command closes the dialog that is open, or fails.
LEMMA HandleKeeps ==
  ASSUME DialogInv, WaitTypes', NEW h \in 1..2, NEW ok \in BOOLEAN, HandleDialog(h, ok)
  PROVE  DialogInv'
<1> USE DEF DialogInv
<1>1. /\ kind = "dialog" /\ asked[h] # NoItem /\ alive
      /\ asked' = [asked EXCEPT ![h] = NoItem]
      /\ UNCHANGED <<kind, queue, subscribed, alive, excused>>
  BY DEF HandleDialog, waitVars
<1>2. asked'[h] = NoItem /\ \A t \in 1..2 : t # h => asked'[t] = asked[t]
  BY <1>1 DEF WaitTypes
<1>3. h \in subscribed
  BY <1>1 DEF Reaches, Unasked
<1>4. \A t \in 1..2 : Unasked(t) => Unasked(t)'
  BY <1>1, <1>2 DEF Unasked
<1>5. \/ shown' = NoItem /\ answers' = IF shown = NoItem THEN answers ELSE answers \cup {<<asked[h], shown>>}
      \/ /\ UNCHANGED <<shown, answers>>
         /\ shown # NoItem => items'[shown].stage = "unanswered"
  BY DEF HandleDialog, WaitTypes, ItemRecords
<1>6. Reaches'
  BY <1>1, <1>3, <1>4, <1>5 DEF Reaches
<1>7. OneAtATime'
  <2> SUFFICES ASSUME 2 \notin subscribed, excused = {}
               PROVE  OneAtATime'
    BY <1>1 DEF OneAtATime
  <2>1. h = 1
    BY <1>3
  <2>2. shown # NoItem /\ queue[1] = <<>> /\ asked[1] = shown
    BY <1>1, <2>1 DEF OneAtATime, Unasked
  <2>3. queue'[1] = <<>> /\ asked'[1] = NoItem
    BY <1>1, <1>2, <2>1, <2>2
  <2>4. CASE shown' = NoItem
    BY <1>1, <1>5, <2>1, <2>2, <2>3, <2>4 DEF OneAtATime, Unasked
  <2>5. CASE UNCHANGED <<shown, answers>>
    BY <1>1, <2>2, <2>3, <2>5 DEF OneAtATime, Unasked
  <2> QED BY <1>5, <2>4, <2>5
<1> QED BY <1>1, <1>6, <1>7

\* A dialog opens where every handler hears it.
LEMMA OpensKeeps ==
  ASSUME DialogInv, WaitTypes', NEW i \in Items, Opens(i) PROVE DialogInv'
<1> USE DEF DialogInv
<1>1. /\ kind = "dialog" /\ alive /\ shown = NoItem /\ subscribed # {} /\ shown' = i
      /\ queue' = [s \in 1..2 |-> IF s \in subscribed THEN Append(queue[s], i) ELSE queue[s]]
      /\ UNCHANGED <<kind, subscribed, asked, alive, excused, answers>>
  BY DEF Opens, waitVars, historyVars
<1>2. i # NoItem /\ 1 \in subscribed
  BY <1>1, ItemsAreNamed DEF Reaches
<1>3. PICK q \in Seq(Items) : q = queue[1]
  BY DEF WaitTypes
<1>4. queue'[1] = Append(q, i) /\ \A t \in {1, 2} \ subscribed : queue'[t] = queue[t]
  BY <1>1, <1>2, <1>3
<1>5. Append(q, i) # <<>> /\ (q = <<>> => Append(q, i) = <<i>>)
  <2>1. Append(q, i) # <<>>
    BY <1>3, AppendKeeps
  <2>2. Append(<<>>, i) = <<i>>
    OBVIOUS
  <2> QED BY <2>1, <2>2
<1>6. Reaches'
  BY <1>1, <1>2, <1>4, <1>5 DEF Reaches, Unasked
<1>7. OneAtATime'
  BY <1>1, <1>2, <1>3, <1>4, <1>5 DEF OneAtATime, Unasked
<1> QED BY <1>1, <1>6, <1>7

LEMMA NextDialogInv == DialogInv /\ [WaitsNext]_waitsVars => DialogInv'
<1> SUFFICES ASSUME DialogInv, [WaitsNext]_waitsVars PROVE DialogInv'
  OBVIOUS
<1> USE DEF DialogInv, waitVars, itemVars, historyVars
<1>1. WaitTypes'
  BY NextWaitTypes
<1>2. kind' = kind
  BY DEF WaitsNext, waitsVars, Subscribe, SubscribeAgain, Timeout, StreamEnds, ReadLifecycle,
         ReadAttached, Record, Body, FinishOfRequest, Completed, ItemEnds, Opens, Begins,
         Decide, HandleDialog, Closes, TargetGoes, WaitClock, Return
<1> SUFFICES ASSUME kind = "dialog" PROVE DialogInv'
  BY <1>1, <1>2
<1>3. CASE UNCHANGED waitsVars
  BY <1>1, <1>3 DEF waitsVars, Reaches, OneAtATime, Unasked
<1>4. CASE Subscribe \/ SubscribeAgain
  <2>1. /\ UNCHANGED <<kind, queue, asked, items, shown, alive, excused, answers>>
        /\ subscribed \subseteq subscribed' /\ 1 \in subscribed'
    BY <1>4 DEF Subscribe, SubscribeAgain, NextStream, Reaches
  <2>2. \A h \in 1..2 : Unasked(h)' <=> Unasked(h)
    BY <2>1 DEF Unasked
  <2>3. Reaches'
    BY <2>1, <2>2 DEF Reaches
  <2>4. OneAtATime'
    BY <2>1, <2>2 DEF OneAtATime, Reaches
  <2> QED BY <1>1, <2>1, <2>3, <2>4
<1>5. CASE Closes \/ TargetGoes
  <2>1. /\ UNCHANGED <<kind, queue, asked, subscribed, answers>>
        /\ shown' = NoItem
        /\ (alive' = FALSE /\ excused' = excused) \/ excused' # {}
    BY <1>5 DEF Closes, TargetGoes, WaitTypes
  <2> QED BY <1>1, <2>1 DEF Reaches, OneAtATime, Unasked
<1>6. CASE \E h \in 1..2 : Decide(h) \/ \E ok \in BOOLEAN : HandleDialog(h, ok)
  BY <1>1, <1>6, DecideKeeps, HandleKeeps
<1>7. CASE \E i \in Items : Opens(i)
  BY <1>1, <1>7, OpensKeeps
<1> QED BY <1>3, <1>4, <1>5, <1>6, <1>7
        DEF WaitsNext, Timeout, StreamEnds, ReadLifecycle, ReadAttached, Record, TwoTasks, Body,
            FinishOfRequest, Completed, ItemEnds, Begins, WaitClock

\* No dialog stays open when the handlers are done but one whose answer failed, and a
\* lone handler answers the dialog it decided about (on_dialog).
THEOREM DialogsFindTheirAnswer == WaitsSpec => []DialogsAreAnswered
<1>1. DialogInv => DialogsAreAnswered
  <2> SUFFICES ASSUME DialogInv, kind = "dialog" PROVE DialogsAreAnswered
    BY DEF DialogsAreAnswered
  <2>1. (\A h \in subscribed : Unasked(h)) =>
          shown = NoItem \/ items[shown].stage = "unanswered"
    BY DEF DialogInv, Reaches
  <2>2. subscribed = {1} /\ excused = {} => \A a \in answers : a[1] = a[2]
    BY DEF DialogInv, OneAtATime
  <2> QED BY <2>1, <2>2 DEF DialogsAreAnswered, Unasked
<1> QED BY InitDialogInv, NextDialogInv, <1>1, PTL DEF WaitsSpec
=============================================================================
