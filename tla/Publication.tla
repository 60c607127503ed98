----------------------------- MODULE Publication -----------------------------
(***************************************************************************)
(* What Builder.Package promises about the directory it is given, however  *)
(* its requests overlap and wherever they fail: every change of a          *)
(* destination is one whole file, written by a request that still owed it; *)
(* a document is written only by a request all of whose executables are    *)
(* out; and a request answers without an error only when it owes nothing.  *)
(***************************************************************************)
CONSTANTS
  Packagers,  \* requests
  Targets,
  Builds,     \* whole executables
  Documents,  \* whole documents
  NoFile

VARIABLES
  executable,   \* the executable of each target
  evidence,     \* and the document beside it
  open,         \* requests under way
  unbuilt,      \* executables each of them still owes
  undocumented, \* and documents
  succeeded     \* requests last answered without an error

vars == <<executable, evidence, open, unbuilt, undocumented, succeeded>>

Init ==
  /\ executable = [t \in Targets |-> NoFile]
  /\ evidence = [t \in Targets |-> NoFile]
  /\ open = {}
  /\ unbuilt = [p \in Packagers |-> {}]
  /\ undocumented = [p \in Packagers |-> {}]
  /\ succeeded = {}

\* Answers given so far are forgotten when a request begins.
Call(p) ==
  /\ p \notin open
  /\ \E S \in (SUBSET Targets) \ {{}} :
       /\ unbuilt' = [unbuilt EXCEPT ![p] = S]
       /\ undocumented' \in {undocumented, [undocumented EXCEPT ![p] = S]}
  /\ open' = open \cup {p}
  /\ succeeded' = {}
  /\ UNCHANGED <<executable, evidence>>

Refuse(p) ==
  /\ p \notin open
  /\ succeeded' = succeeded \ {p}
  /\ UNCHANGED <<executable, evidence, open, unbuilt, undocumented>>

Publish(p, t) ==
  /\ p \in open
  /\ t \in unbuilt[p]
  /\ \E build \in Builds : executable' = [executable EXCEPT ![t] = build]
  /\ unbuilt' = [unbuilt EXCEPT ![p] = @ \ {t}]
  /\ UNCHANGED <<evidence, open, undocumented, succeeded>>

Document(p, t) ==
  /\ p \in open
  /\ unbuilt[p] = {}
  /\ t \in undocumented[p]
  /\ \E document \in Documents : evidence' = [evidence EXCEPT ![t] = document]
  /\ undocumented' = [undocumented EXCEPT ![p] = @ \ {t}]
  /\ UNCHANGED <<executable, open, unbuilt, succeeded>>

Succeed(p) ==
  /\ p \in open
  /\ unbuilt[p] = {} /\ undocumented[p] = {}
  /\ open' = open \ {p}
  /\ succeeded' = succeeded \cup {p}
  /\ UNCHANGED <<executable, evidence, unbuilt, undocumented>>

Fail(p) ==
  /\ p \in open
  /\ open' = open \ {p}
  /\ unbuilt' = [unbuilt EXCEPT ![p] = {}]
  /\ undocumented' = [undocumented EXCEPT ![p] = {}]
  /\ UNCHANGED <<executable, evidence, succeeded>>

Next ==
  \E p \in Packagers :
    \/ Call(p) \/ Refuse(p) \/ Succeed(p) \/ Fail(p)
    \/ \E t \in Targets : Publish(p, t) \/ Document(p, t)

Spec == Init /\ [][Next]_vars
=============================================================================
