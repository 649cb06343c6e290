----------------------------- MODULE Mailboxes -----------------------------
(***************************************************************************)
(* What the hub promises to a connection that is served: whatever is       *)
(* published for its user is owed to it until it is accepted into its      *)
(* mailbox, and delivered from there in the order of acceptance.  A        *)
(* publisher makes its next publication when it owes nothing, so nothing   *)
(* is skipped, doubled or overtaken.  A frame is only lost with the        *)
(* mailbox it is for, or with a publisher that a panic has stopped.  WSHub *)
(* reaches this with a copy of its targets and channels that anyone may    *)
(* find full or closed.                                                    *)
(***************************************************************************)
EXTENDS Integers, Sequences

CONSTANTS Users, Conns, UserOf, Callers

VARIABLES
  box,     \* "none", "open", "leaving" (nothing more is accepted), "over"
  owed,    \* published for a connection, and not accepted yet
  mail,    \* accepted and not delivered, oldest first
  got,     \* delivered, in order
  made,    \* number of publications of each caller
  alive    \* FALSE once a panic has ended the process

boxVars == <<box, owed, mail, got, made, alive>>

MailInit ==
  /\ box = [c \in Conns |-> "none"]
  /\ owed = [c \in Conns |-> {}]
  /\ mail = [c \in Conns |-> <<>>]
  /\ got = [c \in Conns |-> <<>>]
  /\ made = [p \in Callers |-> 0]
  /\ alive = TRUE

Open(c) ==
  /\ box[c] = "none"
  /\ box' = [box EXCEPT ![c] = "open"]
  /\ UNCHANGED <<owed, mail, got, made, alive>>

OwesNothing(p) == \A c \in Conns : \A m \in owed[c] : m.from # p

(* Every open connection of the user is owed the message, and no other.    *)
Publish(p, u, final) ==
  LET message == [from |-> p, seq |-> made[p] + 1, to |-> u, final |-> final]
  IN  /\ OwesNothing(p)
      /\ made' = [made EXCEPT ![p] = @ + 1]
      /\ owed' = [c \in Conns |-> IF box[c] = "open" /\ UserOf[c] = u
                                    THEN owed[c] \cup {message} ELSE owed[c]]
      /\ UNCHANGED <<box, mail, got, alive>>

Accept(c, m) ==
  /\ box[c] = "open"
  /\ m \in owed[c]
  /\ mail' = [mail EXCEPT ![c] = Append(@, m)]
  /\ owed' = [owed EXCEPT ![c] = @ \ {m}]
  /\ UNCHANGED <<box, got, made, alive>>

Deliver(c) ==
  /\ box[c] \in {"open", "leaving"}
  /\ mail[c] # <<>>
  /\ got' = [got EXCEPT ![c] = Append(@, Head(mail[c]))]
  /\ mail' = [mail EXCEPT ![c] = Tail(@)]
  /\ UNCHANGED <<box, owed, made, alive>>

(* What was accepted may still be delivered.                               *)
Leave(c) ==
  /\ box[c] = "open"
  /\ box' = [box EXCEPT ![c] = "leaving"]
  /\ owed' = [owed EXCEPT ![c] = {}]
  /\ UNCHANGED <<mail, got, made, alive>>

End(c) ==
  /\ box[c] \in {"open", "leaving"}
  /\ box' = [box EXCEPT ![c] = "over"]
  /\ owed' = [owed EXCEPT ![c] = {}]
  /\ mail' = [mail EXCEPT ![c] = <<>>]
  /\ UNCHANGED <<got, made, alive>>

(* A panic: some connection has left.  What the publisher owed to others   *)
(* is lost with the process, unless it was the empty list of a DELETE.     *)
Abandon(p) ==
  /\ \E c \in Conns : box[c] \in {"leaving", "over"}
  /\ alive' \in BOOLEAN
  /\ alive' => \A c \in Conns : \A m \in owed[c] : m.from = p => m.final
  /\ owed' = [c \in Conns |-> {m \in owed[c] : m.from # p}]
  /\ UNCHANGED <<box, mail, got, made>>

MailNext ==
  /\ alive
  /\ \/ \E c \in Conns : \/ Open(c) \/ Deliver(c) \/ Leave(c) \/ End(c)
                         \/ \E m \in owed[c] : Accept(c, m)
     \/ \E p \in Callers : \/ Abandon(p)
                           \/ \E u \in Users, final \in BOOLEAN : Publish(p, u, final)

MailSpec == MailInit /\ [][MailNext]_boxVars
=============================================================================
