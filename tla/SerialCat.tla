----------------------------- MODULE SerialCat -----------------------------
(***************************************************************************)
(* The serial CAT reader (helper/serial.go) and the port it talks through: *)
(* commands go to the radio in order, and what the radio says comes back   *)
(* in order and in pieces.  A command is its number; a frame from the      *)
(* radio has the number of the command it answers and is two pieces, its   *)
(* beginning ("FA" and digits) and its end (digits and ";").  Time is left *)
(* out: serialReplyWait may be over at any moment.                         *)
(***************************************************************************)
EXTENDS Readings, Sequences, FiniteSetsExt

CONSTANTS
    MaxCommands,  \* bound: commands written
    MaxStatus,    \* bound: frames the radio sends unasked
    MaxErrors     \* bound: opens, reads and writes that fail

ConstantsOK == {MaxCommands, MaxStatus, MaxErrors} \subseteq Nat

VARIABLES
    port,     \* s.p is open
    asking,   \* the query read() waits for, or Nothing; s.mu is held
    buf,      \* read()'s local: the pieces so far
    inbox,    \* the input buffer of the port
    out,      \* commands on their way to the radio
    back,     \* pieces on their way from it
    spent     \* ghost: events counted against the bounds

vars == <<port, asking, buf, inbox, out, back, reading, coming, spent>>

------------------------------------------------------------------------------
Spend(b, max) ==
    /\ spent[b] < max
    /\ spent' = [spent EXCEPT ![b] = @ + 1]

Piece(k, n, p) == [kind |-> k, of |-> n, part |-> p]
Frame(k, n)    == <<Piece(k, n, "begin"), Piece(k, n, "end")>>
Other          == Frame("other", 0)

(* parseFA: the frames of the buffer that are "FA" with a positive number.  *)
(* A frame whose beginning is not there is skipped, and so are the others:  *)
(* status frames, a query given back, FA with a zero.                       *)
Replies(b) ==
    {i \in 2..Len(b) : b[i].part = "end" /\ b[i].kind = "value" /\ b[i - 1].of = b[i].of}

(* Commands whose answer has not begun to arrive.                           *)
Unheard == {out[i].n : i \in DOMAIN out}
           \cup {back[i].of : i \in {j \in DOMAIN back : back[j].part = "begin"}}

(* s.reset: what is in the input buffer goes with the handle.               *)
Reset ==
    /\ port' = FALSE
    /\ inbox' = <<>>

------------------------------------------------------------------------------
(* Opening the port fails; read and set return the error.                   *)
OpenFails ==
    /\ asking = Nothing /\ ~port
    /\ Spend("errors", MaxErrors)
    /\ UNCHANGED <<port, asking, buf, inbox, out, back, reading, coming>>

(* Mutant of Query: the input buffer is not reset.                          *)
QueryKeepsInput ==
    /\ asking = Nothing
    /\ Spend("commands", MaxCommands)
    /\ asking' = spent'.commands
    /\ port' = TRUE
    /\ buf' = <<>>
    /\ out' = Append(out, [n |-> asking', cmd |-> "query"])
    /\ coming' = Unheard
    /\ reading' = Nothing
    /\ UNCHANGED <<inbox, back>>

(* read: the port is opened if need be, its input buffer dropped, FA; sent. *)
Query ==
    /\ asking = Nothing
    /\ Spend("commands", MaxCommands)
    /\ asking' = spent'.commands
    /\ port' = TRUE
    /\ buf' = <<>>
    /\ inbox' = <<>>
    /\ out' = Append(out, [n |-> asking', cmd |-> "query"])
    /\ coming' = Unheard
    /\ reading' = Nothing
    /\ UNCHANGED back

(* set: the same without a look at the answer.                              *)
Set ==
    /\ asking = Nothing
    /\ Spend("commands", MaxCommands)
    /\ port' = TRUE
    /\ out' = Append(out, [n |-> spent'.commands, cmd |-> "set"])
    /\ UNCHANGED <<asking, buf, inbox, back, reading, coming>>

(* The Write of a query or a set fails: the handle is dropped.              *)
WriteFails ==
    /\ asking = Nothing
    /\ Spend("errors", MaxErrors)
    /\ Reset
    /\ UNCHANGED <<asking, buf, out, back, reading, coming>>

(* read: what is there is taken and looked through; the first frequency in  *)
(* it is the answer.                                                        *)
Read ==
    /\ asking # Nothing /\ inbox # <<>>
    /\ inbox' = <<>>
    /\ LET b == buf \o inbox
       IN  IF Replies(b) = {}
           THEN buf' = b /\ UNCHANGED <<asking, reading>>
           ELSE /\ reading' = [query |-> asking, of |-> b[Min(Replies(b))].of]
                /\ asking' = Nothing
                /\ buf' = <<>>
    /\ UNCHANGED <<port, out, back, coming, spent>>

(* read: the Read fails.                                                    *)
ReadFails ==
    /\ asking # Nothing
    /\ Spend("errors", MaxErrors)
    /\ Reset
    /\ asking' = Nothing
    /\ buf' = <<>>
    /\ UNCHANGED <<out, back, reading, coming>>

(* read: serialReplyWait is over.                                           *)
GiveUp ==
    /\ asking # Nothing
    /\ asking' = Nothing
    /\ buf' = <<>>
    /\ UNCHANGED <<port, inbox, out, back, reading, coming, spent>>

(* close, when the source is replaced.                                      *)
Close ==
    /\ asking = Nothing /\ port
    /\ Reset
    /\ UNCHANGED <<asking, buf, out, back, reading, coming, spent>>

------------------------------------------------------------------------------
(* The radio.  A query is answered with its frequency, with a zero or not   *)
(* at all; a set is carried out or not.  Some ports give commands back.     *)
Answers(c) ==
    IF c.cmd = "query" THEN {Frame("value", c.n), Other, <<>>} ELSE {<<>>}

GivenBack(c) == {<<>>, IF c.cmd = "query" THEN Other ELSE Frame("value", c.n)}

Radio ==
    /\ out # <<>>
    /\ out' = Tail(out)
    /\ \E g \in GivenBack(Head(out)), a \in Answers(Head(out)) : back' = back \o g \o a
    /\ UNCHANGED <<port, asking, buf, inbox, reading, coming, spent>>

(* A frame nobody asked for.                                                *)
Status ==
    /\ Spend("status", MaxStatus)
    /\ back' = back \o Other
    /\ UNCHANGED <<port, asking, buf, inbox, out, reading, coming>>

(* A piece arrives; a closed port takes none.                               *)
Arrive ==
    /\ back # <<>>
    /\ back' = Tail(back)
    /\ inbox' = IF port THEN Append(inbox, Head(back)) ELSE inbox
    /\ UNCHANGED <<port, asking, buf, out, reading, coming, spent>>

------------------------------------------------------------------------------
Init ==
    /\ port = FALSE
    /\ asking = Nothing
    /\ buf = <<>> /\ inbox = <<>> /\ out = <<>> /\ back = <<>>
    /\ reading = Nothing
    /\ coming = {}
    /\ spent = [commands |-> 0, status |-> 0, errors |-> 0]

Next ==
    \/ OpenFails \/ Query \/ Set \/ WriteFails
    \/ Read \/ ReadFails \/ GiveUp \/ Close
    \/ Radio \/ Status \/ Arrive

Spec == Init /\ [][Next]_vars

------------------------------------------------------------------------------
(* Properties.                                                              *)

Command == 1..MaxCommands
Segments == [kind : {"value", "other"}, of : Command \cup {0},
            part : {"begin", "end"}]

(* Every variable has its type; a read holds an open port, and what it has  *)
(* of one query is gone before the next.                                    *)
TypeOK ==
    /\ asking \in Command \cup {Nothing}
    /\ port \in BOOLEAN
    /\ {buf, inbox, back} \subseteq Seq(Segments)
    /\ out \in Seq([n : Command, cmd : {"query", "set"}])
    /\ reading # Nothing => reading \in [query : Command, of : Command]
    /\ coming \subseteq Command \cup {0}
    /\ asking # Nothing => port
    /\ asking = Nothing => buf = <<>>
    /\ ~port => inbox = <<>>

------------------------------------------------------------------------------
(* What comments say, and the code does not keep.                           *)

(* serial.go: the next read confirms what set did: it is answered after it. *)
(* An answer later than serialReplyWait, or a port that gives commands      *)
(* back, makes it confirm what the radio has not done.                      *)
ReadbackConfirms == reading # Nothing => reading.of = reading.query
=============================================================================
