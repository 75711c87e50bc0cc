----------------------------- MODULE MCPhoneShell -----------------------------
(***************************************************************************)
(* The opened notifications and the bridge share the app's process and no  *)
(* state.  One run checks both: the first choice is the part that moves,   *)
(* and the other stays at rest in a state that nothing disturbs.           *)
(***************************************************************************)
EXTENDS PushOpen, WebShell

VARIABLE part   \* "opens" or "bridge"

MCvars == <<part, vars, shellVars>>

(* The other part's rest: no tap has happened; an error's screen is up.    *)
OpensAtRest ==
  Init /\ owners = {} /\ cookie = None /\ \A o, q \in Opens : of[o] = of[q]
BridgeAtRest ==
  /\ shell = [NewShell EXCEPT !.state = "load-error"] /\ view = NoDocument
  /\ coming = [doc |-> 0, url |-> Missing]
  /\ inbox = <<>> /\ scripts = <<>> /\ acts = 0

MCInit ==
  \/ part = "opens" /\ Init /\ BridgeAtRest
  \/ part = "bridge" /\ ShellInit /\ OpensAtRest

(* Each part's next-state relation and fairness.                           *)
MCNext ==
  \/ part = "opens" /\ Next /\ UNCHANGED <<part, shellVars>>
  \/ part = "bridge" /\ ShellNext /\ UNCHANGED <<part, vars>>

MCSpec ==
  /\ MCInit /\ [][MCNext]_MCvars
  /\ WF_MCvars(part = "opens" /\ Progress /\ UNCHANGED <<part, shellVars>>)
  /\ WF_MCvars(part = "opens" /\ Timer /\ UNCHANGED <<part, shellVars>>)
  /\ WF_MCvars(part = "bridge" /\ ShellRuns /\ UNCHANGED <<part, vars>>)

=============================================================================
