---------------------------- MODULE EchoService ----------------------------
(***************************************************************************)
(* What every echo server of the repository promises its clients, with no  *)
(* sockets, completions or threads: what comes back to a client is a       *)
(* prefix of what it sent, and a client's connection is given up only      *)
(* after the client has left, and gets nothing after that.  For the        *)
(* clients in Served, that every byte comes back and that every connection *)
(* is given up in the end.                                                 *)
(***************************************************************************)
EXTENDS Naturals, Sequences

CONSTANTS Clients, Served

VARIABLES
  sent,       \* sent[c]: how many bytes client c has sent
  echoed,     \* echoed[c]: the bytes that came back to it
  left,       \* left[c]: c has closed its end, or lost it
  released    \* released[c]: the server has closed the connection

vars == <<sent, echoed, left, released>>

Init ==
  /\ sent = [c \in Clients |-> 0]
  /\ echoed = [c \in Clients |-> << >>]
  /\ left = [c \in Clients |-> FALSE]
  /\ released = [c \in Clients |-> FALSE]

Send(c) ==
  /\ ~left[c]
  /\ sent' = [sent EXCEPT ![c] = @ + 1]
  /\ UNCHANGED <<echoed, left, released>>

\* Some of the bytes that are owed come back, in the order they were sent.
Echo(c) ==
  /\ ~released[c]
  /\ \E n \in 1..(sent[c] - Len(echoed[c])) :
       echoed' = [echoed EXCEPT ![c] = @ \o [k \in 1..n |-> Len(echoed[c]) + k]]
  /\ UNCHANGED <<sent, left, released>>

Leave(c) ==
  /\ ~left[c]
  /\ left' = [left EXCEPT ![c] = TRUE]
  /\ UNCHANGED <<sent, echoed, released>>

Release(c) ==
  /\ left[c] /\ ~released[c]
  /\ released' = [released EXCEPT ![c] = TRUE]
  /\ UNCHANGED <<sent, echoed, left>>

Next == \E c \in Clients : Send(c) \/ Echo(c) \/ Leave(c) \/ Release(c)

\* The server owes the served clients progress; clients owe it nothing.
Fair(c) == WF_vars(Echo(c)) /\ WF_vars(Release(c))

Fairness == \A c \in Served : Fair(c)

Spec == Init /\ [][Next]_vars /\ Fairness
=============================================================================
