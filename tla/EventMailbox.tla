----------------------------- MODULE EventMailbox -----------------------------
(***************************************************************************)
(* What the table of event clients (EventClient.tla) promises its callers: *)
(* at most Capacity mailboxes are open at a time, a client is turned away  *)
(* only when that many are, a mailbox is opened and closed once, takes in  *)
(* events only while it is open, and is emptied as a whole.                *)
(***************************************************************************)
EXTENDS Naturals, FiniteSets

CONSTANTS Clients, Events, Capacity

VARIABLES
  open,     \* the clients with a mailbox
  gone,     \* the clients whose mailbox has been closed
  refused,  \* the clients turned away
  box       \* the events in each client's mailbox

vars == <<open, gone, refused, box>>

Init ==
  /\ open = {} /\ gone = {} /\ refused = {}
  /\ box = [c \in Clients |-> {}]

Unused(c) == c \notin open \cup gone \cup refused

Open(c) ==
  /\ Unused(c)
  /\ Cardinality(open) < Capacity
  /\ open' = open \cup {c}
  /\ UNCHANGED <<gone, refused, box>>

Refuse(c) ==
  /\ Unused(c)
  /\ Cardinality(open) = Capacity
  /\ refused' = refused \cup {c}
  /\ UNCHANGED <<open, gone, box>>

Post(c, events) ==
  /\ c \in open
  /\ box' = [box EXCEPT ![c] = @ \cup events]
  /\ UNCHANGED <<open, gone, refused>>

Take(c) ==
  /\ c \in open
  /\ box' = [box EXCEPT ![c] = {}]
  /\ UNCHANGED <<open, gone, refused>>

Close(c) ==
  /\ c \in open
  /\ open' = open \ {c}
  /\ gone' = gone \cup {c}
  /\ UNCHANGED <<refused, box>>

Next == \E c \in Clients :
  \/ Open(c) \/ Refuse(c) \/ Take(c) \/ Close(c)
  \/ \E events \in SUBSET Events : Post(c, events)

Spec == Init /\ [][Next]_vars
==============================================================================
