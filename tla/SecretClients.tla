---------------------------- MODULE SecretClients ----------------------------
(***************************************************************************)
(* What resolving a child-cluster client promises, whatever the cache      *)
(* does: a resolve reads the kubeconfig Secret its machine names, and the  *)
(* client it answers with was built from the version it read. The key is   *)
(* another matter. Clients are shared by Secret, so the one a machine gets *)
(* may have been built from any key of that version that is good, also     *)
(* when its own key is missing or broken; the error for a key like that is *)
(* possible, never certain. A good key of its own, on the other hand,      *)
(* always leads to a client.                                               *)
(***************************************************************************)
EXTENDS Naturals

CONSTANTS
  Machines,
  Secrets,
  Keys,
  Names      \* what a machine may ask for: a Secret, a key, and whether explicitly

VARIABLES
  names,       \* per machine: what it asks for
  kubeconfig,  \* per Secret: its version, whether it is there, and its good keys
  reading,     \* per machine: what the resolve in progress has read
  answer       \* per machine: what the last resolve came to, none while one is running

clientVars == <<names, kubeconfig, reading, answer>>

Closed == [open |-> FALSE, version |-> 0, good |-> {}]

\* Without a client there is no version and no key to tell.
Answer(kind) == [kind |-> kind, client |-> [version |-> 0, key |-> "none"]]

ChildOf(v, k) == [kind |-> "child", client |-> [version |-> v, key |-> k]]

ClientsInit ==
  /\ names \in [Machines -> Names]
  /\ kubeconfig = [s \in Secrets |-> [version |-> 1, there |-> TRUE, good |-> Keys]]
  /\ reading = [m \in Machines |-> Closed]
  /\ answer = [m \in Machines |-> Answer("none")]

Read(m) ==
  LET s == kubeconfig[names[m].secret] IN
    /\ ~reading[m].open
    /\ s.there
    /\ reading' = [reading EXCEPT ![m] = [open |-> TRUE, version |-> s.version, good |-> s.good]]
    /\ answer' = [answer EXCEPT ![m] = Answer("none")]
    /\ UNCHANGED <<names, kubeconfig>>

\* Any read may fail; without a Secret there is no client to build, and only a
\* machine that did not ask for one is given the management cluster.
GiveUp(m) ==
  /\ ~reading[m].open
  /\ \/ answer' = [answer EXCEPT ![m] = Answer("error")]
     \/ /\ ~kubeconfig[names[m].secret].there /\ ~names[m].explicit
        /\ answer' = [answer EXCEPT ![m] = Answer("management")]
  /\ UNCHANGED <<names, kubeconfig, reading>>

\* A client of a good key of the version that was read, or the error for a key of its
\* own that is not good.
Build(m) ==
  /\ reading[m].open
  /\ \/ \E k \in reading[m].good :
          answer' = [answer EXCEPT ![m] = ChildOf(reading[m].version, k)]
     \/ /\ names[m].key \notin reading[m].good
        /\ answer' = [answer EXCEPT ![m] = Answer("error")]
  /\ reading' = [reading EXCEPT ![m] = Closed]
  /\ UNCHANGED <<names, kubeconfig>>

Rotate(s) ==
  /\ \E there \in BOOLEAN, good \in SUBSET Keys :
       /\ ~there => good = {}
       /\ kubeconfig' = [kubeconfig EXCEPT ![s] =
                           [version |-> @.version + 1, there |-> there, good |-> good]]
  /\ UNCHANGED <<names, reading, answer>>

Rename(m) ==
  /\ ~reading[m].open
  /\ \E x \in Names : names' = [names EXCEPT ![m] = x]
  /\ answer' = [answer EXCEPT ![m] = Answer("none")]
  /\ UNCHANGED <<kubeconfig, reading>>

ClientsNext ==
  \/ \E m \in Machines : Read(m) \/ GiveUp(m) \/ Build(m) \/ Rename(m)
  \/ \E s \in Secrets : Rotate(s)

ClientsSpec == ClientsInit /\ [][ClientsNext]_clientVars

=============================================================================
