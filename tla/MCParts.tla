------------------------------ MODULE MCParts ------------------------------
(***************************************************************************)
(* Eight small machines that share no state, checked in one run: `part`    *)
(* says which of them moves, the others stay in an initial state.          *)
(***************************************************************************)
EXTENDS
  FrameTree, Network, PageOps, Waits, BrowserProcess, LaunchArgs, Fetcher, Socks5Bridge

VARIABLE part

Argument(key, values) == [key |-> key, values |-> values]
MCUserArgs == {
  Argument("disable-features", <<"Mine">>), Argument("remote-debugging-port", <<"9222">>),
  Argument("user-data-dir", <<"mine">>), Argument("headless", <<>>)}
Executables == {"environment", "stable", "unstable", "edge", "edgeUnstable", "path"}

\* Two patches of one build, which share an archive path; a revision of Chromium.
MCReleases == {
  [version |-> <<131, 0, 1, 5>>, revision |-> 1300000, channels |-> {"Stable", "milestone"}],
  [version |-> <<131, 0, 1, 4>>, revision |-> 1290000, channels |-> {"Beta"}]}
Option(k, platform, version) == [kind |-> k, platform |-> platform, version |-> version]
MCOptions == {
  Option("Chrome", "Linux", [type |-> "default"]),
  Option("Chrome", "Linux", [type |-> "dotted", value |-> <<131, 0, 1, 4>>]),
  Option("Chrome", "Linux", [type |-> "number", value |-> 1290000]),
  Option("ChromeHeadlessShell", "Linux", [type |-> "number", value |-> 131]),
  Option("Chromium", "Win64", [type |-> "default"])}

MCEntries == <<"link", "exe", "file">>

Machines == {
  "FrameTree", "Network", "PageOps", "Waits", "BrowserProcess", "LaunchArgs", "Fetcher",
  "Socks5Bridge"}

AnOption == Option("Chrome", "Linux", [type |-> "default"])

\* A machine that does not move needs no more than one initial state.
PartsInit ==
  /\ part \in Machines
  /\ FrameInit /\ NetworkInit /\ OpsInit /\ WaitsInit
  /\ ProcessInit /\ ArgsInit /\ FetchInit /\ BridgeInit
  /\ part # "Waits" => kind = "dialog"
  /\ part # "Fetcher" => \A f \in DOMAIN options : options[f] = AnOption

PartsNext ==
  /\ UNCHANGED part
  /\ \/ /\ part = "FrameTree" /\ FrameNext
        /\ UNCHANGED <<networkVars, pageOpsVars, waitsVars, processVars,
                      launchArgsVars, fetchVars, bridgeVars>>
     \/ /\ part = "Network" /\ NetworkNext
        /\ UNCHANGED <<frameVars, pageOpsVars, waitsVars, processVars,
                      launchArgsVars, fetchVars, bridgeVars>>
     \/ /\ part = "PageOps" /\ OpsNext
        /\ UNCHANGED <<frameVars, networkVars, waitsVars, processVars,
                      launchArgsVars, fetchVars, bridgeVars>>
     \/ /\ part = "Waits" /\ WaitsNext
        /\ UNCHANGED <<frameVars, networkVars, pageOpsVars, processVars,
                      launchArgsVars, fetchVars, bridgeVars>>
     \/ /\ part = "BrowserProcess" /\ ProcessNext
        /\ UNCHANGED <<frameVars, networkVars, pageOpsVars, waitsVars,
                      launchArgsVars, fetchVars, bridgeVars>>
     \/ /\ part = "LaunchArgs" /\ ArgsNext
        /\ UNCHANGED <<frameVars, networkVars, pageOpsVars, waitsVars,
                      processVars, fetchVars, bridgeVars>>
     \/ /\ part = "Fetcher" /\ FetchNext
        /\ UNCHANGED <<frameVars, networkVars, pageOpsVars, waitsVars,
                      processVars, launchArgsVars, bridgeVars>>
     \/ /\ part = "Socks5Bridge" /\ BridgeNext
        /\ UNCHANGED <<frameVars, networkVars, pageOpsVars, waitsVars,
                      processVars, launchArgsVars, fetchVars>>

partsVars ==
  <<part, frameVars, networkVars, pageOpsVars, waitsVars,
    processVars, launchArgsVars, fetchVars, bridgeVars>>

PartsSpec == PartsInit /\ [][PartsNext]_partsVars

-----------------------------------------------------------------------------
\* Every machine keeps its types.
PartsTypeOK ==
  /\ FrameTypeOK /\ NetworkTypeOK /\ OpsTypeOK /\ WaitsTypeOK
  /\ ProcessTypeOK /\ ArgsTypeOK /\ FetchTypeOK /\ BridgeTypeOK
=============================================================================
