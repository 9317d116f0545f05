----------------------------- MODULE LaunchArgs -----------------------------
(***************************************************************************)
(* From the BrowserConfigBuilder to the command line of the browser: the   *)
(* builder's methods in any order, the detection of the executable, and    *)
(* the ArgsBuilder, which merges what the defaults, the user and the       *)
(* configuration say of one switch.                                        *)
(*                                                                         *)
(* A switch is its key and the sequence of its values; a few of the        *)
(* default arguments stand for all.  Their order on the command line is    *)
(* that of a hash map and left out.                                        *)
(***************************************************************************)
EXTENDS Naturals, Sequences, SequencesExt

CONSTANTS
  UserArgs,  \* arguments the user may add
  Installed, \* which executables there may be, by how they are found
  MaxSetters   \* bound: setters of the builder

\* An argument has a key and values.
ASSUME UserArgsAssumption == UserArgs \subseteq [key : STRING, values : Seq(STRING)]
ASSUME SettersAreBounded == MaxSetters \in Nat

VARIABLES
  builder,    \* the BrowserConfigBuilder, then the BrowserConfig
  setters,      \* bound: how many methods were called
  build_stage,      \* building, built, launched or failed
  args        \* the command line

launchArgsVars == <<builder, setters, build_stage, args>>

-----------------------------------------------------------------------------
(* ArgsBuilder *)

Arg(key, values) == [key |-> key, values |-> values]
Has(map, key) == key \in DOMAIN map
Values(map, key) == IF Has(map, key) THEN map[key] ELSE <<>>

\* Mutant: the last argument of a key wins.
SetArg(map, arg) ==
  [k \in DOMAIN map \cup {arg.key} |-> IF k = arg.key THEN arg.values ELSE map[k]]

\* arg: the values of a known key are extended.
AddArg(map, arg) ==
  [k \in DOMAIN map \cup {arg.key} |->
     IF k = arg.key THEN Values(map, k) \o arg.values ELSE map[k]]

\* args: one after the other.
AddArgs(map, list) ==
  LET added[n \in 0..Len(list)] == IF n = 0 THEN map ELSE AddArg(added[n - 1], list[n])
  IN added[Len(list)]

NoArgs == [k \in {} |-> <<>>]

-----------------------------------------------------------------------------
(* The builder *)

Default ==
  [headless |-> "False", sandbox |-> TRUE, window_size |-> <<>>, executable |-> "detect",
   msedge |-> TRUE, unstable |-> FALSE, extensions |-> <<>>, user_data_dir |-> "none",
   incognito |-> FALSE, disable_https_first |-> FALSE, viewport |-> "default",
   args |-> <<>>, disable_default_args |-> FALSE, hidden |-> TRUE]

\* A method that sets a field.
Settings ==
  {<<"headless", m>> : m \in {"False", "True", "New"}}
  \cup {<<"sandbox", FALSE>>, <<"window_size", <<"800", "600">> >>, <<"executable", "given">>,
        <<"user_data_dir", "own">>, <<"incognito", TRUE>>, <<"disable_https_first", TRUE>>,
        <<"viewport", "none">>, <<"viewport", "default">>, <<"disable_default_args", TRUE>>}
  \cup {<<"msedge", FALSE>>, <<"unstable", TRUE>>}

Call(new) ==
  /\ build_stage = "building" /\ setters < MaxSetters /\ setters' = setters + 1
  /\ builder' = new /\ UNCHANGED <<build_stage, args>>

Set == \E s \in Settings : Call([builder EXCEPT ![s[1]] = s[2]])
AddExtension == Call([builder EXCEPT !.extensions = Append(@, "folder")])
AddUserArg == \E a \in UserArgs : Call([builder EXCEPT !.args = Append(@, a)])

\* hide: the default viewport would betray the automation.
Hide ==
  Call([builder EXCEPT !.hidden = TRUE,
          !.viewport = IF @ = "default" THEN "none" ELSE @])

-----------------------------------------------------------------------------
(* Detection: the first that is there, of those the options allow. *)

Allowed(how) ==
  CASE how = "edge" -> builder.msedge
    [] how = "unstable" -> builder.unstable
    [] how = "edgeUnstable" -> builder.msedge /\ builder.unstable
    [] OTHER -> TRUE

\* By the environment, by the name of a program, by its usual path.
Candidates == <<"environment", "stable", "unstable", "edge", "edgeUnstable", "path">>

Detected(there) ==
  SelectSeq(Candidates, LAMBDA how : how \in there /\ Allowed(how))

Build ==
  /\ build_stage = "building"
  /\ \/ builder.executable = "given" /\ build_stage' = "built" /\ UNCHANGED builder
     \/ /\ builder.executable = "detect"
        /\ \E there \in SUBSET Installed :
             IF Detected(there) = <<>> THEN build_stage' = "failed" /\ UNCHANGED builder
             ELSE /\ build_stage' = "built"
                  /\ builder' = [builder EXCEPT !.executable = Head(Detected(there))]
  /\ UNCHANGED <<setters, args>>

-----------------------------------------------------------------------------
(* BrowserConfig::launch *)

DefaultArgs == <<
  Arg("no-first-run", <<>>),
  Arg("disable-features", <<"TranslateUI">>),
  Arg("force-webrtc-ip-handling-policy", <<"disable_non_proxied_udp">>) >>

If(condition, list) == IF condition THEN list ELSE <<>>

FirstArgs(c) == AddArgs(NoArgs, If(~c.disable_default_args, DefaultArgs) \o c.args)

\* What the configuration adds; only the port is looked for among the arguments.
ConfigArgs(c) ==
  If(~Has(FirstArgs(c), "remote-debugging-port"), <<Arg("remote-debugging-port", <<"0">>)>>)
  \o (IF c.extensions = <<>> THEN <<Arg("disable-extensions", <<>>)>>
      ELSE [n \in 1..Len(c.extensions) |-> Arg("load-extension", <<c.extensions[n]>>)])
  \o <<Arg("user-data-dir",
           IF c.user_data_dir = "none" THEN <<"shared temp dir">> ELSE <<c.user_data_dir>>)>>
  \o If(c.window_size # <<>>, <<Arg("window-size", c.window_size)>>)
  \o If(~c.sandbox, <<Arg("no-sandbox", <<>>), Arg("disable-setuid-sandbox", <<>>)>>)
  \o If(c.headless # "False",
        <<Arg("headless", If(c.headless = "New", <<"new">>)), Arg("mute-audio", <<>>)>>)
  \o If(c.incognito, <<Arg("incognito", <<>>)>>)
  \o If(c.hidden, <<Arg("disable-blink-features", <<"AutomationControlled">>)>>)
  \o If(c.disable_https_first, <<Arg("disable-features", <<"HttpsUpgrades">>)>>)

LaunchCommand ==
  /\ build_stage = "built" /\ build_stage' = "launched"
  /\ args' = AddArgs(FirstArgs(builder), ConfigArgs(builder))
  /\ UNCHANGED <<builder, setters>>

ArgsInit == builder = Default /\ setters = 0 /\ build_stage = "building" /\ args = NoArgs

ArgsNext == Set \/ AddExtension \/ AddUserArg \/ Hide \/ Build \/ LaunchCommand

ArgsSpec == ArgsInit /\ [][ArgsNext]_launchArgsVars

-----------------------------------------------------------------------------
(* Properties *)

ArgsTypeOK ==
  /\ DOMAIN builder = DOMAIN Default /\ setters \in 0..MaxSetters
  /\ build_stage \in {"building", "built", "launched", "failed"}
  /\ builder.args \in Seq(UserArgs) /\ builder.extensions \in Seq({"folder"})
  /\ build_stage # "launched" => args = NoArgs

Passed(key) == {n \in 1..Len(builder.args) : builder.args[n].key = key}
Sources == If(~builder.disable_default_args, DefaultArgs) \o builder.args \o ConfigArgs(builder)

\* The switches of a command line go together, whatever was called in which order.
\* Nothing that the defaults, the user or the configuration say is lost where they share
\* a switch (TranslateUI stays disabled with the https features), and there is no switch
\* and no value that none of them has asked for.  A switch for one value has one, unless
\* the user passes it besides; the port is then the user's.  Extensions are loaded or
\* disabled, all of them, unless the user passes these switches too.
SwitchesGoTogether ==
  build_stage = "launched" =>
    /\ \A n \in 1..Len(Sources) :
         /\ Has(args, Sources[n].key)
         /\ ToSet(Sources[n].values) \subseteq ToSet(args[Sources[n].key])
    /\ \A key \in DOMAIN args :
         /\ \E n \in 1..Len(Sources) : Sources[n].key = key
         /\ \A v \in ToSet(args[key]) :
              \E n \in 1..Len(Sources) : Sources[n].key = key /\ v \in ToSet(Sources[n].values)
    /\ Passed("user-data-dir") = {} => Len(args["user-data-dir"]) = 1
    /\ Passed("remote-debugging-port") = {} => Len(args["remote-debugging-port"]) = 1
    /\ \A n \in 1..Len(builder.args) : Passed("remote-debugging-port") = {n} =>
         args["remote-debugging-port"] = builder.args[n].values
    /\ Passed("disable-extensions") = {} =>
         (Has(args, "disable-extensions") <=> builder.extensions = <<>>)
    /\ Passed("load-extension") = {} =>
         Len(Values(args, "load-extension")) = Len(builder.extensions)
=============================================================================
