---------------------------- MODULE LaunchProofs ----------------------------
(***************************************************************************)
(* Theorems about Launch, for any number of launches, addresses, flags,    *)
(* POSTs and kills; and, in the second half, about ConfigPage, for any     *)
(* number of requests in flight, edits, Applies, lost saves and relaunches.*)
(*                                                                         *)
(* That no log of the same instance is lost needs that two processes never *)
(* hold one address (OneHolder), and that what was lost was lost by        *)
(* processes which keep the address they had (LostLaunched).  That the     *)
(* file reads back what the last save left is not inductive because it     *)
(* says nothing while somebody saves: OneSaver follows the save.           *)
(*                                                                         *)
(* What the page says of an Apply was decided when the helper answered it: *)
(* OneApply carries the answer from there to the page, and Kept says what  *)
(* of it a relaunched helper must find.                                    *)
(***************************************************************************)
EXTENDS Launch, PageSays, TLAPS

------------------------------------------------------------------------------
(* The inductive invariant.                                                 *)

Holds(p) == pc[p] = "bound" \/ Ready(p)

(* Two processes that have their address have different ones.               *)
OneHolder ==
    \A p, q \in Proc :
        Holds(p) /\ Holds(q) /\ p # q => cfg[p].listen # cfg[q].listen

(* A process whose log was truncated, or that truncated one, was launched.  *)
LostLaunched == \A x \in lost : cfg[x[1]] # None /\ cfg[x[2]] # None

(* While no save was disturbed, one process saves at a time: it finds the   *)
(* file empty, and leaves it whole.                                         *)
OneSaver ==
    ~clash =>
        /\ \A p, q \in cut : p = q
        /\ cut # {} => file.top = None
        /\ cut = {} /\ last # None => file.whole /\ file.top = last

(* A file that parses has a config.                                         *)
WholeNamed == file.whole => file.top # None

Saved == OneHolder /\ LostLaunched /\ LogKept /\ OneSaver /\ WholeNamed

Inv == TypeOK /\ Saved

USE DEF Ready, Holds

------------------------------------------------------------------------------
(* Initially every variable has its type, and nothing was launched.         *)
LEMMA InvInit == ConstantsOK /\ Init => Inv
<1> SUFFICES ASSUME ConstantsOK, Init PROVE Inv
  OBVIOUS
<1> USE DEF ConstantsOK, Init, NoFile
<1>1. TypeOK
  <2>1. file \in [top : Config \cup {None}, whole : BOOLEAN, there : BOOLEAN]
    <3>1. CASE file = [top |-> None, whole |-> FALSE, there |-> FALSE]
      BY <3>1
    <3>2. CASE file = [top |-> Default, whole |-> TRUE, there |-> TRUE]
      BY <3>2
    <3> QED
      BY <3>1, <3>2
  <2>2. /\ cfg \in [Proc -> Config \cup {None}] /\ flags \in [Proc -> Flag \cup {None}]
        /\ draft \in [Proc -> Config \cup {None}]
    OBVIOUS
  <2> QED
    BY <2>1, <2>2 DEF TypeOK
<1>2. Saved
  BY DEF Saved, OneHolder, LostLaunched, LogKept, OneSaver, WholeNamed
<1> QED
  BY <1>1, <1>2 DEF Inv

(* What a launch makes of the file and its flags is a config, and so is     *)
(* what a POST makes of one.                                                *)
LEMMA ConfigsMade ==
    ASSUME ConstantsOK, Inv
    PROVE  /\ \A f \in Flag : Overlay(Loaded, f) \in Config
           /\ \A c \in Config, s \in Lane :
                [c EXCEPT !.source = s] \in Config /\ [c EXCEPT !.source = s].listen = c.listen
<1>1. Loaded \in Config
  BY DEF ConstantsOK, Inv, TypeOK, Saved, WholeNamed, Loaded
<1> QED
  BY <1>1 DEF ConstantsOK, Overlay, Config

(* Every step keeps the types.                                              *)
LEMMA TypeStep == ConstantsOK /\ Inv /\ [Next]_vars => TypeOK'
<1> SUFFICES ASSUME ConstantsOK, Inv, [Next]_vars PROVE TypeOK'
  OBVIOUS
<1>0. None \notin Config
  BY DEF ConstantsOK
<1> USE DEF Inv, TypeOK, Goto
<1>1. ASSUME NEW p \in Proc, NEW f \in Flag, Load(p, f) PROVE TypeOK'
  BY <1>0, <1>1, ConfigsMade DEF Load
<1>2. ASSUME NEW p \in Proc, Listen(p) PROVE TypeOK'
  BY <1>0, <1>2 DEF Listen
<1>3. ASSUME NEW p \in Proc, Serve(p) PROVE TypeOK'
  BY <1>0, <1>3 DEF Serve, Truncates
<1>4. ASSUME NEW p \in Proc, OpenPage(p) PROVE TypeOK'
  BY <1>0, <1>4 DEF OpenPage
<1>5. ASSUME NEW p \in Proc, NEW s \in Lane, Post(p, s) PROVE TypeOK'
  BY <1>0, <1>5, ConfigsMade DEF Post, Spend
<1>6. ASSUME NEW p \in Proc, Truncate(p) PROVE TypeOK'
  BY <1>0, <1>6 DEF Truncate
<1>7. ASSUME NEW p \in Proc, Save(p) PROVE TypeOK'
  <2>1. file' \in [top : Config \cup {None}, whole : BOOLEAN, there : BOOLEAN]
    <3>1. PICK whole \in BOOLEAN : file' = [top |-> draft[p], whole |-> whole, there |-> TRUE]
      BY <1>7 DEF Save
    <3> QED
      BY <3>1
  <2>2. /\ \A q \in cut' : draft'[q] # None /\ Ready(q)'
        /\ draft' \in [Proc -> Config \cup {None}] /\ last' \in Config \cup {None}
    BY <1>7 DEF Save
  <2> QED
    BY <1>7, <2>1, <2>2 DEF Save
<1>8. ASSUME NEW p \in Proc, Quit(p) PROVE TypeOK'
  BY <1>0, <1>8 DEF Quit
<1>9. ASSUME NEW p \in Proc, Exit(p) PROVE TypeOK'
  BY <1>0, <1>9 DEF Exit, Ends
<1>10. ASSUME NEW p \in Proc, Crash(p) PROVE TypeOK'
  <2>1. /\ pc' = [pc EXCEPT ![p] = "exited"] /\ draft' = [draft EXCEPT ![p] = None]
        /\ cut' = cut \ {p} /\ clash' \in BOOLEAN /\ pc[p] # "off"
        /\ UNCHANGED <<flags, cfg, first, due, shown, file, lost, last>>
    BY <1>10 DEF Crash, Ends, Alive
  <2> QED
    BY <1>0, <2>1
<1>11. ASSUME UNCHANGED vars PROVE TypeOK'
  BY <1>11 DEF vars
<1> QED
  BY <1>1, <1>2, <1>3, <1>4, <1>5, <1>6, <1>7, <1>8, <1>9, <1>10, <1>11 DEF Next, ProcStep

(* Every step keeps the rest.                                               *)
LEMMA SavedStep == ConstantsOK /\ Inv /\ [Next]_vars => Saved'
<1> SUFFICES ASSUME ConstantsOK, Inv, [Next]_vars PROVE Saved'
  OBVIOUS
<1>0. None \notin Config
  BY DEF ConstantsOK
<1> USE DEF Inv, TypeOK, Goto
<1> USE DEF Saved, OneHolder, LostLaunched, LogKept, OneSaver, WholeNamed
<1>1. ASSUME NEW p \in Proc, NEW f \in Flag, Load(p, f) PROVE Saved'
  <2>1. (OneHolder /\ LostLaunched /\ LogKept /\ WholeNamed)'
    BY <1>0, <1>1, ConfigsMade DEF Load
  <2>2. OneSaver'
    BY <1>0, <1>1, ConfigsMade DEF Load
  <2> QED
    BY <2>1, <2>2
<1>2. ASSUME NEW p \in Proc, Listen(p) PROVE Saved'
  BY <1>2 DEF Listen, InUse
<1>3. ASSUME NEW p \in Proc, Serve(p) PROVE Saved'
  <2>1. (OneHolder /\ LostLaunched /\ LogKept /\ WholeNamed)'
    BY <1>0, <1>3 DEF Serve, Truncates
  <2>2. OneSaver'
    BY <1>0, <1>3 DEF Serve, Truncates
  <2> QED
    BY <2>1, <2>2
<1>4. ASSUME NEW p \in Proc, OpenPage(p) PROVE Saved'
  BY <1>4 DEF OpenPage
<1>5. ASSUME NEW p \in Proc, NEW s \in Lane, Post(p, s) PROVE Saved'
  <2>1. (OneHolder /\ LostLaunched /\ LogKept /\ WholeNamed)'
    BY <1>0, <1>5, ConfigsMade DEF Post
  <2>2. OneSaver'
    BY <1>0, <1>5, ConfigsMade DEF Post
  <2> QED
    BY <2>1, <2>2
<1>6. ASSUME NEW p \in Proc, Truncate(p) PROVE Saved'
  <2>1. (OneHolder /\ LostLaunched /\ LogKept /\ WholeNamed)'
    BY <1>0, <1>6 DEF Truncate
  <2>2. OneSaver'
    BY <1>0, <1>6 DEF Truncate
  <2> QED
    BY <2>1, <2>2
<1>7. ASSUME NEW p \in Proc, Save(p) PROVE Saved'
  <2>1. (OneHolder /\ LostLaunched /\ LogKept /\ WholeNamed)'
    BY <1>0, <1>7 DEF Save
  <2>2. OneSaver'
    <3> SUFFICES ASSUME ~clash PROVE OneSaver'
      BY <1>7 DEF Save
    <3>1. cut = {p} /\ file.top = None
      BY <1>7 DEF Save
    <3>2. file' = [top |-> draft[p], whole |-> TRUE, there |-> TRUE]
      BY <1>7, <3>1 DEF Save
    <3>3. cut' = {} /\ last' = draft[p]
      BY <1>7, <3>1 DEF Save
    <3> QED
      BY <3>2, <3>3
  <2> QED
    BY <2>1, <2>2
<1>8. ASSUME NEW p \in Proc, Quit(p) PROVE Saved'
  BY <1>8 DEF Quit
<1>9. ASSUME NEW p \in Proc, Exit(p) PROVE Saved'
  <2>1. (OneHolder /\ LostLaunched /\ LogKept /\ WholeNamed)'
    BY <1>0, <1>9 DEF Exit, Ends
  <2>2. OneSaver'
    <3>1. CASE p \in cut
      BY <1>9, <3>1 DEF Exit, Ends
    <3>2. CASE p \notin cut
      <4>1. cut' = cut /\ file' = file /\ last' = last /\ clash' = clash
        BY <1>9, <3>2 DEF Exit, Ends
      <4> QED
        BY <4>1
    <3> QED
      BY <3>1, <3>2
  <2> QED
    BY <2>1, <2>2
<1>10. ASSUME NEW p \in Proc, Crash(p) PROVE Saved'
  <2>1. (OneHolder /\ LostLaunched /\ LogKept /\ WholeNamed)'
    BY <1>0, <1>10 DEF Crash, Ends
  <2>2. OneSaver'
    <3>1. CASE p \in cut
      BY <1>10, <3>1 DEF Crash, Ends
    <3>2. CASE p \notin cut
      <4>1. cut' = cut /\ file' = file /\ last' = last /\ clash' = clash
        BY <1>10, <3>2 DEF Crash, Ends
      <4> QED
        BY <4>1
    <3> QED
      BY <3>1, <3>2
  <2> QED
    BY <2>1, <2>2
<1>11. ASSUME UNCHANGED vars PROVE Saved'
  BY <1>11 DEF vars
<1> QED
  BY <1>1, <1>2, <1>3, <1>4, <1>5, <1>6, <1>7, <1>8, <1>9, <1>10, <1>11 DEF Next, ProcStep

(* A process that is launched keeps its address, and one that has or had it *)
(* keeps it or has ended.                                                   *)
Had(q) == Ready(q) \/ pc[q] \in {"bound", "exited"}

(* Every step keeps GivesWay: only net.Listen makes a launch give way.      *)
LEMMA WayStep == ConstantsOK /\ Inv /\ GivesWay /\ [Next]_vars => GivesWay'
<1> SUFFICES ASSUME ConstantsOK, Inv, GivesWay, [Next]_vars PROVE GivesWay'
  OBVIOUS
<1>0. None \notin Config
  BY DEF ConstantsOK
<1> USE DEF Inv, TypeOK, Goto, Had
<1> DEFINE Keeps == \A q \in Proc :
                      /\ pc[q] # "off" => cfg'[q] # None /\ cfg'[q].listen = cfg[q].listen
                      /\ Had(q) => Had(q)'
                      /\ pc'[q] \in {"second", "fatal"} =>
                           \/ pc[q] \in {"second", "fatal"}
                           \/ pc[q] = "starting" /\ InUse(cfg[q].listen)
<1>1. ASSUME NEW p \in Proc, NEW f \in Flag, Load(p, f) PROVE Keeps
  BY <1>0, <1>1, ConfigsMade DEF Load
<1>2. ASSUME NEW p \in Proc, Listen(p) PROVE Keeps
  BY <1>0, <1>2 DEF Listen, InUse
<1>3. ASSUME NEW p \in Proc, Serve(p) PROVE Keeps
  BY <1>0, <1>3 DEF Serve, Truncates
<1>4. ASSUME NEW p \in Proc, OpenPage(p) PROVE Keeps
  BY <1>0, <1>4 DEF OpenPage
<1>5. ASSUME NEW p \in Proc, NEW s \in Lane, Post(p, s) PROVE Keeps
  BY <1>0, <1>5, ConfigsMade DEF Post
<1>6. ASSUME NEW p \in Proc, Truncate(p) PROVE Keeps
  BY <1>0, <1>6 DEF Truncate
<1>7. ASSUME NEW p \in Proc, Save(p) PROVE Keeps
  BY <1>0, <1>7 DEF Save
<1>8. ASSUME NEW p \in Proc, Quit(p) PROVE Keeps
  BY <1>0, <1>8 DEF Quit
<1>9. ASSUME NEW p \in Proc, Exit(p) PROVE Keeps
  BY <1>0, <1>9 DEF Exit, Ends
<1>10. ASSUME NEW p \in Proc, Crash(p) PROVE Keeps
  BY <1>0, <1>10 DEF Crash, Ends, Alive
<1>11. ASSUME UNCHANGED vars PROVE Keeps
  BY <1>0, <1>11 DEF vars
<1>12. Keeps
  BY <1>1, <1>2, <1>3, <1>4, <1>5, <1>6, <1>7, <1>8, <1>9, <1>10, <1>11 DEF Next, ProcStep
<1> HIDE DEF Inv, TypeOK, Goto, Had
<1>13. SUFFICES ASSUME NEW p \in Proc, pc'[p] \in {"second", "fatal"}
                PROVE  \E q \in Proc \ {p} : Had(q)' /\ cfg'[q] # None
                                              /\ cfg'[q].listen = cfg'[p].listen
  BY DEF GivesWay, Had
<1>14. PICK q \in Proc \ {p} : Had(q) /\ cfg[q].listen = cfg[p].listen /\ pc[p] # "off"
  <2>1. CASE pc[p] \in {"second", "fatal"}
    BY <2>1 DEF GivesWay, Had
  <2>2. CASE pc[p] = "starting" /\ InUse(cfg[p].listen)
    BY <2>2 DEF InUse, Had
  <2> QED
    BY <1>12, <1>13, <2>1, <2>2
<1>15. pc[q] # "off"
  BY <1>14 DEF Had
<1> QED
  BY <1>12, <1>14, <1>15

------------------------------------------------------------------------------
(* The theorems.                                                            *)

(* The invariant holds in every reachable state.                            *)
LEMMA InvAlways == ASSUME ConstantsOK PROVE Spec => []Inv
<1>1. Init => Inv
  BY ConstantsOK, InvInit
<1>2. Inv /\ [Next]_vars => Inv'
  BY ConstantsOK, TypeStep, SavedStep DEF Inv
<1> QED
  BY <1>1, <1>2, PTL DEF Spec

(* Every variable keeps its type, and a process that truncated the file has *)
(* a draft to write.                                                        *)
THEOREM TypeCorrect == ASSUME ConstantsOK PROVE Spec => []TypeOK
<1>1. Inv => TypeOK
  BY DEF Inv
<1> QED
  BY InvAlways, <1>1, PTL

(* helper/main.go and logging.go: setupLogging runs after net.Listen, so no *)
(* launch truncates the log of a running instance of its own address.       *)
THEOREM LogNeverClobbered == ASSUME ConstantsOK PROVE Spec => []LogKept
<1>1. Inv => LogKept
  BY DEF Inv, Saved
<1> QED
  BY InvAlways, <1>1, PTL

(* helper/config.go: whichever instances save, the next launch reads what   *)
(* the last save wrote, unless saves overlapped or one was cut short.       *)
THEOREM LastSaveReadBack == ASSUME ConstantsOK PROVE Spec => []SaveReadBack
<1>1. Inv => SaveReadBack
  BY DEF Inv, Saved, OneSaver, SaveReadBack, Loaded
<1> QED
  BY InvAlways, <1>1, PTL

(* helper/main.go: of launches that race for an address, those that give    *)
(* way give way to one that got it, and has it until it is stopped.         *)
THEOREM OneInstanceRuns == ASSUME ConstantsOK PROVE Spec => []GivesWay
<1>1. Init => GivesWay
  BY DEF Init, GivesWay
<1>2. Inv /\ GivesWay /\ [Next]_vars => GivesWay'
  BY ConstantsOK, WayStep
<1> QED
  BY InvAlways, <1>1, <1>2, PTL DEF Spec

------------------------------------------------------------------------------
(* The config page and its helper.                                          *)

CONSTANTS Port, Slots, Found, Answering, Plan
VARIABLES iqMode, err, have, poll, plugged, good, title

P == INSTANCE ConfigPage WITH Saved <- Found

(* A request is a record of its four parts; what it asks with and what      *)
(* comes back fit its kind.                                                 *)
Whole(c) ==
    /\ c = [kind |-> c.kind, arg |-> c.arg, at |-> c.at, reply |-> c.reply]
    /\ c.kind \in {"status", "ports", "config", "quit"}
    /\ c.at \in {"sent", "half", "back", "failed"}
    /\ c.at = "half" => c.kind = "status"
    /\ c.kind = "status" /\ c.at \in {"half", "back"} => c.reply.of \in P!Config
    /\ c.kind = "ports" => c.arg \in Port \cup {Nothing}
    /\ c.kind = "ports" /\ c.at = "back" => c.reply \subseteq Port
    /\ c.kind = "config" => c.arg \in P!Config
    /\ c.kind = "config" /\ c.at = "back" =>
         c.reply \in {"applied", "unsaved", "restart", "refused"}

Asking ==
    /\ DOMAIN call = P!Slot
    /\ \A k \in P!Slot : call[k] # Nothing => Whole(call[k])

(* The fields of the page and of the helper, without the requests.          *)
Fields ==
    /\ up \in {"running", "quitting", "stopped"}
    /\ {iqMode, formInit, halted, racing} \subseteq BOOLEAN
    /\ {live, saved} \subseteq P!Config
    /\ {src, err, have, posted} \subseteq P!Config \cup {Nothing}
    /\ poll \in [src : P!Config, at : {"read", "tick"}, old : BOOLEAN] \cup {Nothing}
    /\ plugged \subseteq Port /\ options \subseteq Port
    /\ form \in P!Config
    /\ form.port \in options \cup {Nothing}
    /\ note \in {"none", "applying", "applied", "unsaved", "restart", "refused",
                 "unreachable"}

PageTypes == Fields /\ Asking /\ left \in [P!Event -> Nat]

Of(k, kind) == call[k] # Nothing /\ call[k].kind = kind

(* What a reply to an Apply stands for, also in the process that is         *)
(* launched next: a config that was swapped in can be built again.          *)
Kept(r) ==
    /\ r = "applied" => /\ src = posted /\ live = posted
                        /\ posted.source # "iq" /\ P!Buildable(posted)
    /\ r \in {"applied", "restart"} => saved = posted

(* The one POST that is on its way, unless Applies overlap, is of the form  *)
(* last applied, and the page has no reply of another one to show.          *)
OneApply ==
    ~racing =>
        /\ \A j, k \in P!Slot : Of(j, "config") /\ Of(k, "config") => j = k
        /\ \A k \in P!Slot : Of(k, "config") =>
             /\ call[k].arg = posted /\ note = "applying"
             /\ call[k].at = "back" => Kept(call[k].reply)

Said == ~racing => Kept(note)

(* A /quit that is over has ended the process, or it had ended before.      *)
QuitEnds ==
    \A k \in P!Slot :
        Of(k, "quit") /\ call[k].at \in {"back", "failed"} => up # "running"

Truths == OneApply /\ Said /\ QuitEnds /\ StoppedTrue

------------------------------------------------------------------------------
(* Requests come and go.                                                    *)

LEMMA Fetched ==
    ASSUME P!ConstantsOK, DOMAIN call = P!Slot,
           \A k \in P!Slot : call[k] # Nothing => Whole(call[k]),
           NEW kind, NEW arg, P!Fetch(kind, arg),
           Whole([kind |-> kind, arg |-> arg, at |-> "sent", reply |-> Nothing])
    PROVE  /\ DOMAIN call' = P!Slot
           /\ \A k \in P!Slot : call'[k] # Nothing => Whole(call'[k])
           /\ \E k \in P!Slot :
                /\ call[k] = Nothing
                /\ call'[k] = [kind |-> kind, arg |-> arg, at |-> "sent", reply |-> Nothing]
                /\ \A j \in P!Slot \ {k} : call'[j] = call[j]
<1> DEFINE c == [kind |-> kind, arg |-> arg, at |-> "sent", reply |-> Nothing]
<1>1. PICK k \in P!Slot : call[k] = Nothing /\ call' = [call EXCEPT ![k] = c]
  BY DEF P!Fetch
<1>2. call'[k] = c /\ DOMAIN call' = P!Slot /\ \A j \in P!Slot \ {k} : call'[j] = call[j]
  BY <1>1
<1>3. Whole(c)
  OBVIOUS
<1> HIDE DEF c
<1>4. \A j \in P!Slot : call'[j] # Nothing => Whole(call'[j])
  BY <1>2, <1>3
<1>5. \E i \in P!Slot :
         call[i] = Nothing /\ call'[i] = c /\ \A j \in P!Slot \ {i} : call'[j] = call[j]
  BY <1>1, <1>2
<1> QED
  BY <1>2, <1>4, <1>5 DEF c

LEMMA Answered ==
    ASSUME DOMAIN call = P!Slot,
           \A k \in P!Slot : call[k] # Nothing => Whole(call[k]),
           NEW k \in P!Slot, call[k] # Nothing, NEW at, NEW r, P!Answer(k, at, r),
           Whole([kind |-> call[k].kind, arg |-> call[k].arg, at |-> at, reply |-> r])
    PROVE  /\ DOMAIN call' = P!Slot
           /\ \A j \in P!Slot : call'[j] # Nothing => Whole(call'[j])
           /\ call'[k] = [kind |-> call[k].kind, arg |-> call[k].arg, at |-> at, reply |-> r]
           /\ \A j \in P!Slot \ {k} : call'[j] = call[j]
<1> DEFINE c == [kind |-> call[k].kind, arg |-> call[k].arg, at |-> at, reply |-> r]
<1>1. call[k] = [kind |-> call[k].kind, arg |-> call[k].arg, at |-> call[k].at,
                 reply |-> call[k].reply]
  BY DEF Whole
<1>2. call'[k] = [[call[k] EXCEPT !.at = at] EXCEPT !.reply = r]
  BY DEF P!Answer
<1>3. call'[k] = c
  BY <1>1, <1>2
<1>4. DOMAIN call' = P!Slot /\ \A j \in P!Slot \ {k} : call'[j] = call[j]
  BY DEF P!Answer
<1>5. Whole(c)
  OBVIOUS
<1> HIDE DEF c
<1>6. \A j \in P!Slot : call'[j] # Nothing => Whole(call'[j])
  BY <1>3, <1>4, <1>5
<1> QED
  BY <1>3, <1>4, <1>6 DEF c

LEMMA Forgotten ==
    ASSUME DOMAIN call = P!Slot,
           \A k \in P!Slot : call[k] # Nothing => Whole(call[k]),
           NEW k \in P!Slot, NEW c, c # Nothing => Whole(c), call' = [call EXCEPT ![k] = c]
    PROVE  /\ DOMAIN call' = P!Slot
           /\ \A j \in P!Slot : call'[j] # Nothing => Whole(call'[j])
           /\ call'[k] = c
           /\ \A j \in P!Slot \ {k} : call'[j] = call[j]
<1>1. call'[k] = c /\ DOMAIN call' = P!Slot /\ \A j \in P!Slot \ {k} : call'[j] = call[j]
  OBVIOUS
<1>2. \A j \in P!Slot : call'[j] # Nothing => Whole(call'[j])
  BY <1>1
<1> QED
  BY <1>1, <1>2

LEMMA Spent ==
    ASSUME left \in [P!Event -> Nat], NEW b \in P!Event, P!Spend(b)
    PROVE  /\ left' \in [P!Event -> Nat]
           /\ left'[b] # left[b]
           /\ \A x \in P!Event \ {b} : left'[x] = left[x]
<1> USE DEF P!Spend
<1>1. left[b] \in Nat
  OBVIOUS
<1>2. left'[b] = left[b] - 1 /\ left[b] - 1 \in Nat
  BY <1>1
<1> QED
  BY <1>1, <1>2

LEMMA Typed == PageTypes => P!TypeOK
  BY DEF PageTypes, P!TypeOK, Fields, Asking, Whole

LEMMA PollTypes == ASSUME PageTypes, P!PollStep PROVE PageTypes'
<1> USE DEF P!worldVars, P!pageVars, P!ghostVars
<1>1. Asking' /\ left' \in [P!Event -> Nat]
  BY DEF PageTypes, Asking, P!PollStep, P!PollTake, P!PollFails, P!PollClears, P!PollTicks
<1>2. Fields /\ UNCHANGED <<up, iqMode, formInit, halted, racing, live, saved, src, posted,
                           plugged, options, form, note>>
  BY DEF PageTypes, P!PollStep, P!PollTake, P!PollFails, P!PollClears, P!PollTicks
<1> DEFINE T == [src : P!Config, at : {"read", "tick"}, old : BOOLEAN]
<1>3. err' \in P!Config \cup {Nothing} /\ have' \in P!Config \cup {Nothing}
      /\ poll' \in T \cup {Nothing}
  <2>1. CASE P!PollTake
    BY <1>2, <2>1 DEF Fields, P!PollTake
  <2>2. CASE P!PollFails
    BY <1>2, <2>2 DEF Fields, P!PollFails
  <2>3. CASE P!PollClears
    BY <1>2, <2>3 DEF Fields, P!PollClears
  <2>4. CASE P!PollTicks
    BY <1>2, <2>4 DEF Fields, P!PollTicks
  <2> QED
    BY <2>1, <2>2, <2>3, <2>4 DEF P!PollStep
<1>4. Fields'
  BY <1>2, <1>3 DEF Fields
<1> QED
  BY <1>1, <1>4 DEF PageTypes

(* Of the helper's handlers only a POST changes more than the request.      *)
LEMMA ServeTypes ==
    ASSUME P!ConstantsOK, PageTypes, NEW k \in P!Slot, P!Serve(k)
    PROVE  PageTypes'
<1> USE DEF P!helperVars, P!worldVars, P!pageVars, P!ghostVars
<1> USE DEF PageTypes
<1>1. CASE P!StatusSource(k)
  <2>1. Asking'
    BY <1>1, Answered DEF P!StatusSource, P!Asked, Asking, Fields, Whole
  <2> QED
    BY <1>1, <2>1 DEF P!StatusSource, Fields
<1>2. CASE P!StatusFreq(k)
  <2>1. Asking'
    BY <1>2, Answered DEF P!StatusFreq, P!Asked, Asking, Fields, Whole
  <2> QED
    BY <1>2, <2>1 DEF P!StatusFreq, Fields
<1>3. CASE P!Ports(k)
  <2>1. Asking'
    BY <1>3, Answered DEF P!Ports, P!Asked, Asking, Fields, Whole
  <2> QED
    BY <1>3, <2>1 DEF P!Ports, Fields
<1>4. CASE P!HandleQuit(k)
  <2> DEFINE w == [kind |-> call[k].kind, arg |-> call[k].arg, at |-> "back",
                   reply |-> Nothing]
  <2>0. Whole(w) /\ P!Answer(k, "back", Nothing) /\ call[k] # Nothing
    BY <1>4 DEF P!HandleQuit, P!Asked, Asking, Whole
  <2>1. Asking'
    BY <2>0, Answered DEF Asking
  <2> QED
    BY <1>4, <2>1 DEF P!HandleQuit, Fields
<1>5. CASE P!Refuse(k)
  <2> DEFINE w == [kind |-> call[k].kind, arg |-> call[k].arg, at |-> "failed",
                   reply |-> Nothing]
  <2>0. Whole(w) /\ P!Answer(k, "failed", Nothing) /\ call[k] # Nothing
    BY <1>5 DEF P!Refuse, P!Asked, Asking, Whole
  <2>1. Asking'
    BY <2>0, Answered DEF Asking
  <2> QED
    BY <1>5, <2>1 DEF P!Refuse, Fields
<1>6. CASE P!HandleConfig(k)
  <2>0. /\ call[k] # Nothing /\ call[k].kind = "config" /\ call[k].at = "sent"
        /\ Whole(call[k]) /\ call[k].arg \in P!Config
    BY <1>6 DEF P!HandleConfig, P!Asked, Asking, Whole
  <2>1. PICK r \in {"applied", "unsaved", "restart", "refused"} : P!Answer(k, "back", r)
    BY <1>6 DEF P!HandleConfig, P!Saving
  <2> DEFINE w == [kind |-> call[k].kind, arg |-> call[k].arg, at |-> "back", reply |-> r]
  <2>1a. Whole(w)
    BY <2>0, <2>1 DEF Whole
  <2>2. Asking'
    BY <2>0, <2>1, <2>1a, Answered DEF Asking
  <2>3. left' \in [P!Event -> Nat]
    BY <1>6, Spent DEF P!HandleConfig, P!Saving, P!Event
  <2>4. /\ live' \in P!Config /\ saved' \in P!Config
        /\ src' \in P!Config \cup {Nothing} /\ err' \in P!Config \cup {Nothing}
    BY <1>6, <2>0 DEF P!HandleConfig, P!Saving, Fields
  <2>5. poll' \in [src : P!Config, at : {"read", "tick"}, old : BOOLEAN] \cup {Nothing}
    BY <1>6 DEF P!HandleConfig, Fields
  <2>6. Fields'
    BY <1>6, <2>4, <2>5 DEF P!HandleConfig, Fields
  <2> QED
    BY <2>2, <2>3, <2>6
<1>7. CASE P!AbortConfig(k)
  <2> DEFINE w == [kind |-> call[k].kind, arg |-> call[k].arg, at |-> "failed",
                   reply |-> Nothing]
  <2>0. /\ Whole(w) /\ P!Answer(k, "failed", Nothing) /\ call[k] # Nothing
        /\ call[k].arg \in P!Config
    BY <1>7 DEF P!AbortConfig, P!Asked, Asking, Whole
  <2>1. Asking'
    BY <2>0, Answered DEF Asking
  <2>2. /\ live' = call[k].arg /\ src' = call[k].arg /\ err' = Nothing /\ left' = left
        /\ poll \in [src : P!Config, at : {"read", "tick"}, old : BOOLEAN]
        /\ poll' = [poll EXCEPT !.old = TRUE]
        /\ UNCHANGED <<up, iqMode, have, saved, plugged, options, form, formInit, halted,
                       note, posted, racing>>
    BY <1>7 DEF P!AbortConfig, Fields
  <2>3. Fields'
    BY <2>0, <2>2 DEF Fields
  <2> QED
    BY <2>1, <2>2, <2>3
<1> QED
  BY <1>1, <1>2, <1>3, <1>4, <1>5, <1>6, <1>7 DEF P!Serve

(* What comes back is forgotten, or asks for the ports in its own slot.     *)
LEMMA DeliverTypes ==
    ASSUME P!ConstantsOK, PageTypes, NEW k \in P!Slot, P!Deliver(k)
    PROVE  PageTypes'
<1> USE DEF P!helperVars, P!worldVars, P!pageVars, P!ghostVars
<1> USE DEF PageTypes
<1>0. ASSUME call' = [call EXCEPT ![k] = Nothing] PROVE Asking'
  BY <1>0, Forgotten DEF Asking
<1>1. CASE P!OnStatus(k)
  <2> DEFINE c == call[k].reply.of
             w == [kind |-> "ports", arg |-> c.port, at |-> "sent", reply |-> Nothing]
  <2>1. c \in P!Config
    BY <1>1 DEF P!OnStatus, P!Asked, Asking, Whole
  <2>2. Whole(w)
    BY <2>1 DEF Whole, P!Config
  <2>3. Asking'
    <3>1. CASE formInit
      BY <1>0, <1>1, <3>1 DEF P!OnStatus
    <3>2. CASE ~formInit
      <4>1. call' = [call EXCEPT ![k] = w]
        BY <1>1, <3>2 DEF P!OnStatus
      <4> HIDE DEF w
      <4> QED
        BY <2>2, <4>1, Forgotten DEF Asking
    <3> QED
      BY <3>1, <3>2
  <2>4. form' \in P!Config /\ form'.port = form.port
    BY <1>1, <2>1 DEF P!OnStatus, Fields, P!Config
  <2> QED
    BY <1>1, <2>3, <2>4 DEF P!OnStatus, Fields
<1>2. CASE P!OnPorts(k)
  <2> DEFINE list == call[k].reply
             q == form'.port
  <2>1. list \subseteq Port /\ call[k].arg \in Port \cup {Nothing}
    BY <1>2 DEF P!OnPorts, P!Asked, Asking, Whole
  <2>2. form' \in P!Config /\ q \in list \cup {Nothing}
    BY <1>2, <2>1 DEF P!OnPorts, Fields, P!Config
  <2>3. options' = list /\ Asking'
    BY <1>0, <1>2 DEF P!OnPorts
  <2> QED
    BY <1>2, <2>1, <2>2, <2>3 DEF P!OnPorts, Fields
<1>3. CASE P!OnConfig(k)
  <2>1. note' \in {"applied", "unsaved", "restart", "refused"} /\ Asking'
    BY <1>0, <1>3 DEF P!OnConfig, P!Asked, Asking, Whole
  <2> QED
    BY <1>3, <2>1 DEF P!OnConfig, Fields
<1>4. CASE P!OnQuit(k)
  BY <1>0, <1>4 DEF P!OnQuit, Fields
<1>5. CASE P!OnFailure(k)
  BY <1>0, <1>5 DEF P!OnFailure, Fields
<1> QED
  BY <1>1, <1>2, <1>3, <1>4, <1>5 DEF P!Deliver

(* A request that the page sends is whole.                                  *)
LEMMA AskTypes ==
    ASSUME P!ConstantsOK, Fields, Asking, NEW kind \in {"status", "ports", "config", "quit"},
           NEW arg, kind = "ports" => arg = Nothing, kind = "config" => arg \in P!Config,
           P!Fetch(kind, arg)
    PROVE  Asking'
<1>1. Whole([kind |-> kind, arg |-> arg, at |-> "sent", reply |-> Nothing])
  BY DEF Whole
<1> QED
  BY <1>1, Fetched DEF Asking

LEMMA UserTypes ==
    ASSUME P!ConstantsOK, PageTypes,
           P!Edit \/ P!Refresh \/ P!Apply \/ P!ClickQuit \/ P!ClearNote \/ P!Tick
    PROVE  PageTypes'
<1> USE DEF P!helperVars, P!worldVars, P!pageVars, P!ghostVars
<1> USE DEF PageTypes
<1>1. CASE P!Edit
  <2>1. form' \in P!Config /\ form'.port \in options \cup {Nothing}
    BY <1>1 DEF P!Edit, Fields, P!Config
  <2>2. left' \in [P!Event -> Nat]
    BY <1>1, Spent DEF P!Edit, P!Event
  <2> QED
    BY <1>1, <2>1, <2>2 DEF P!Edit, Fields, Asking
<1>2. CASE P!Refresh
  <2>1. Asking' /\ left' \in [P!Event -> Nat]
    BY <1>2, AskTypes, Spent DEF P!Refresh, P!Event
  <2> QED
    BY <1>2, <2>1 DEF P!Refresh, Fields
<1>3. CASE P!Apply
  <2>1. Asking' /\ left' \in [P!Event -> Nat]
    BY <1>3, AskTypes, Spent DEF P!Apply, P!Event, Fields
  <2>2. racing' \in BOOLEAN /\ posted' \in P!Config
    BY <1>3 DEF P!Apply, Fields, P!Busy
  <2> QED
    BY <1>3, <2>1, <2>2 DEF P!Apply, Fields
<1>4. CASE P!ClickQuit
  <2>1. Asking' /\ left' \in [P!Event -> Nat]
    BY <1>4, AskTypes, Spent DEF P!ClickQuit, P!Event
  <2> QED
    BY <1>4, <2>1 DEF P!ClickQuit, Fields
<1>5. CASE P!ClearNote
  BY <1>5 DEF P!ClearNote, Fields, Asking
<1>6. CASE P!Tick
  <2>1. Asking'
    BY <1>6, AskTypes DEF P!Tick
  <2> QED
    BY <1>6, <2>1 DEF P!Tick, Fields
<1> QED
  BY <1>1, <1>2, <1>3, <1>4, <1>5, <1>6

LEMMA WorldTypes ==
    ASSUME P!ConstantsOK, PageTypes, P!Exit \/ P!Crash \/ P!Relaunch \/ P!Plug
    PROVE  PageTypes'
<1> USE DEF P!helperVars, P!worldVars, P!pageVars, P!ghostVars
<1> USE DEF PageTypes
<1>1. CASE P!Exit
  BY <1>1 DEF P!Exit, Fields, Asking
<1>2. CASE P!Crash
  <2>1. left' \in [P!Event -> Nat]
    BY <1>2, Spent DEF P!Crash, P!Event
  <2> QED
    BY <1>2, <2>1 DEF P!Crash, Fields, Asking
<1>3. CASE P!Plug
  <2>1. left' \in [P!Event -> Nat]
    BY <1>3, Spent DEF P!Plug, P!Event
  <2>2. plugged' \subseteq Port
    BY <1>3 DEF P!Plug, Fields
  <2> QED
    BY <1>3, <2>1, <2>2 DEF P!Plug, Fields, Asking
<1>4. CASE P!Relaunch
  <2>1. /\ up' = "running" /\ live' \in P!Config /\ saved' \in P!Config
        /\ iqMode' \in BOOLEAN /\ src' \in P!Config \cup {Nothing}
        /\ err' = Nothing /\ have' = Nothing /\ poll' = Nothing
        /\ UNCHANGED <<plugged, posted, racing, left>>
    BY <1>4 DEF P!Relaunch, P!Boot, Fields
  <2>2. CASE halted
    <3>1. Asking'
      BY <1>4, <2>2 DEF P!Relaunch, Asking
    <3>2. /\ form' \in P!Config /\ form'.port = Nothing /\ options' = {}
          /\ formInit' = FALSE /\ halted' = FALSE /\ note' = "none"
      BY <1>4, <2>2 DEF P!Relaunch, P!NoForm, P!Config, P!Kind
    <3> QED
      BY <2>1, <3>1, <3>2 DEF Fields
  <2>3. CASE ~halted
    <3>1. UNCHANGED <<form, options, formInit, halted, note, call>>
      BY <1>4, <2>3 DEF P!Relaunch
    <3> QED
      BY <2>1, <3>1 DEF Fields, Asking
  <2> QED
    BY <2>2, <2>3
<1> QED
  BY <1>1, <1>2, <1>3, <1>4

LEMMA TypesStep ==
    ASSUME P!ConstantsOK, PageTypes, [P!Next]_P!vars
    PROVE  PageTypes'
<1>1. CASE UNCHANGED P!vars
  BY <1>1 DEF P!vars, P!helperVars, P!worldVars, P!pageVars, P!ghostVars, PageTypes,
              Fields, Asking
<1> QED
  BY <1>1, PollTypes, ServeTypes, DeliverTypes, UserTypes, WorldTypes
  DEF P!Next, P!Request, P!Environment

LEMMA TypesInit == ASSUME P!ConstantsOK, P!Init PROVE PageTypes
<1> USE DEF P!ConstantsOK, P!Init
<1>1. Asking
  BY DEF Asking
<1>2. form \in P!Config /\ form.port = Nothing /\ live \in P!Config
  BY DEF P!NoForm, P!Config, P!Kind
<1>3. src \in P!Config \cup {Nothing}
  BY <1>2
<1>4. left \in [P!Event -> Nat]
  OBVIOUS
<1> QED
  BY <1>1, <1>2, <1>3, <1>4 DEF PageTypes, Fields

------------------------------------------------------------------------------
(* What the page says.                                                      *)

(* A step that leaves the Apply, the helper and its file alone, and touches *)
(* no request but one of another kind.                                      *)
LEMMA Elsewhere ==
    ASSUME Truths, UNCHANGED <<up, live, src, saved, posted, racing, note, halted>>,
           NEW k \in P!Slot, ~Of(k, "config")', ~Of(k, "quit")',
           \A j \in P!Slot \ {k} : call'[j] = call[j]
    PROVE  Truths'
<1>1. \A j \in P!Slot : Of(j, "config")' => Of(j, "config") /\ call'[j] = call[j]
  BY DEF Of
<1>2. \A j \in P!Slot : Of(j, "quit")' => Of(j, "quit") /\ call'[j] = call[j]
  BY DEF Of
<1>3. \A r : Kept(r) => Kept(r)'
  BY DEF Kept, P!Buildable
<1>4. OneApply'
  BY <1>1, <1>3 DEF Truths, OneApply
<1>5. Said'
  BY <1>3 DEF Truths, Said
<1>6. QuitEnds' /\ StoppedTrue'
  BY <1>2 DEF Truths, QuitEnds, StoppedTrue
<1> QED
  BY <1>4, <1>5, <1>6 DEF Truths

(* ... and one that touches no request at all.                              *)
LEMMA Apart ==
    ASSUME Truths,
           UNCHANGED <<up, live, src, saved, posted, racing, note, halted, call>>
    PROVE  Truths'
  BY DEF Truths, OneApply, Said, QuitEnds, StoppedTrue, Of, Kept, P!Buildable

LEMMA QuietTruths ==
    ASSUME P!ConstantsOK, PageTypes, Truths,
           P!PollStep \/ P!Plug \/ P!Edit \/ P!Refresh \/ P!Tick
    PROVE  Truths'
<1> USE DEF P!helperVars, P!worldVars, P!pageVars, P!ghostVars
<1>1. CASE P!PollStep \/ P!Plug \/ P!Edit
  BY <1>1, Apart DEF P!PollStep, P!PollTake, P!PollFails, P!PollClears, P!PollTicks,
                     P!Plug, P!Edit
<1>2. ASSUME NEW kind \in {"ports", "status"}, P!Fetch(kind, Nothing)
      PROVE  \E k \in P!Slot : /\ ~Of(k, "config")' /\ ~Of(k, "quit")'
                              /\ \A j \in P!Slot \ {k} : call'[j] = call[j]
  <2>1. Whole([kind |-> kind, arg |-> Nothing, at |-> "sent", reply |-> Nothing])
    BY DEF Whole
  <2> QED
    BY <1>2, <2>1, Fetched DEF PageTypes, Asking, Of
<1>3. CASE P!Refresh
  BY <1>2, <1>3, Elsewhere DEF P!Refresh
<1>4. CASE P!Tick
  BY <1>2, <1>4, Elsewhere DEF P!Tick
<1> QED
  BY <1>1, <1>3, <1>4

(* A handler's answer keeps the kind and the argument of its request.       *)
LEMMA Reply ==
    ASSUME PageTypes, NEW k \in P!Slot, call[k] # Nothing, NEW at, NEW r, P!Answer(k, at, r)
    PROVE  /\ call'[k] # Nothing => Of(k, call[k].kind)'
           /\ call'[k].kind = call[k].kind /\ call'[k].arg = call[k].arg
           /\ call'[k].at = at /\ call'[k].reply = r
           /\ \A j \in P!Slot \ {k} : call'[j] = call[j]
<1>1. /\ DOMAIN call = P!Slot
      /\ call[k] = [kind |-> call[k].kind, arg |-> call[k].arg, at |-> call[k].at,
                    reply |-> call[k].reply]
  BY DEF PageTypes, Asking, Whole
<1>2. call'[k] = [[call[k] EXCEPT !.at = at] EXCEPT !.reply = r]
  BY <1>1 DEF P!Answer
<1>3. /\ call'[k].kind = call[k].kind /\ call'[k].arg = call[k].arg
      /\ call'[k].at = at /\ call'[k].reply = r
  BY <1>1, <1>2
<1>4. \A j \in P!Slot \ {k} : call'[j] = call[j]
  BY <1>1 DEF P!Answer
<1> QED
  BY <1>3, <1>4 DEF Of

LEMMA ServeTruths ==
    ASSUME P!ConstantsOK, PageTypes, Truths, NEW k \in P!Slot, P!Serve(k)
    PROVE  Truths'
<1> USE DEF P!helperVars, P!worldVars, P!pageVars, P!ghostVars
<1>1. CASE P!StatusSource(k) \/ P!StatusFreq(k) \/ P!Ports(k)
  <2>1. call[k] # Nothing /\ call[k].kind \in {"status", "ports"}
    BY <1>1 DEF P!StatusSource, P!StatusFreq, P!Ports, P!Asked
  <2>2. PICK at, r : P!Answer(k, at, r)
    BY <1>1 DEF P!StatusSource, P!StatusFreq, P!Ports
  <2>3. ~Of(k, "config")' /\ ~Of(k, "quit")' /\ \A j \in P!Slot \ {k} : call'[j] = call[j]
    BY <2>1, <2>2, Reply DEF Of
  <2> QED
    BY <1>1, <2>3, Elsewhere DEF P!StatusSource, P!StatusFreq, P!Ports
<1>2. CASE P!HandleQuit(k)
  <2>1. /\ call[k] # Nothing /\ call[k].kind = "quit" /\ P!Answer(k, "back", Nothing)
        /\ up' = "quitting" /\ UNCHANGED <<live, src, saved, posted, racing, note, halted>>
    BY <1>2 DEF P!HandleQuit, P!Asked
  <2>2. ~Of(k, "config")' /\ \A j \in P!Slot \ {k} : call'[j] = call[j]
    BY <2>1, Reply DEF Of
  <2>3. \A j \in P!Slot : Of(j, "config")' => Of(j, "config") /\ call'[j] = call[j]
    BY <2>2 DEF Of
  <2>4. \A r : Kept(r) => Kept(r)'
    BY <2>1 DEF Kept, P!Buildable
  <2>5. OneApply' /\ Said'
    BY <2>1, <2>3, <2>4 DEF Truths, OneApply, Said
  <2>6. QuitEnds' /\ StoppedTrue'
    BY <2>1 DEF QuitEnds, StoppedTrue
  <2> QED
    BY <2>5, <2>6 DEF Truths
<1>3. CASE P!Refuse(k)
  <2>1. /\ call[k] # Nothing /\ P!Answer(k, "failed", Nothing) /\ up = "stopped"
        /\ UNCHANGED <<up, live, src, saved, posted, racing, note, halted>>
    BY <1>3 DEF P!Refuse, P!Serving
  <2>2. /\ call'[k].kind = call[k].kind /\ call'[k].arg = call[k].arg
        /\ call'[k].at = "failed" /\ \A j \in P!Slot \ {k} : call'[j] = call[j]
    BY <2>1, Reply
  <2>3. \A j \in P!Slot : Of(j, "config")' =>
          /\ Of(j, "config") /\ call'[j].arg = call[j].arg
          /\ call'[j].at = "back" => call[j].at = "back" /\ call'[j].reply = call[j].reply
    BY <2>1, <2>2 DEF Of
  <2>4. \A r : Kept(r) => Kept(r)'
    BY <2>1 DEF Kept, P!Buildable
  <2>5. OneApply' /\ Said'
    BY <2>1, <2>3, <2>4 DEF Truths, OneApply, Said
  <2>6. QuitEnds' /\ StoppedTrue'
    BY <2>1 DEF QuitEnds, StoppedTrue
  <2> QED
    BY <2>5, <2>6 DEF Truths
<1>4. CASE P!HandleConfig(k)
  <2>1. /\ call[k] # Nothing /\ call[k].kind = "config" /\ call[k].at = "sent"
        /\ UNCHANGED <<up, posted, racing, note, halted>>
    BY <1>4 DEF P!HandleConfig, P!Asked
  <2>2. PICK r : P!Answer(k, "back", r)
    BY <1>4 DEF P!HandleConfig, P!Saving
  <2>3. /\ call'[k].kind = "config" /\ call'[k].arg = call[k].arg
        /\ call'[k].at = "back" /\ call'[k].reply = r
        /\ \A j \in P!Slot \ {k} : call'[j] = call[j]
    BY <2>1, <2>2, Reply
  <2>4. QuitEnds' /\ StoppedTrue'
    <3>1. \A j \in P!Slot : Of(j, "quit")' => Of(j, "quit") /\ call'[j] = call[j]
      BY <2>1, <2>3 DEF Of
    <3> QED
      BY <2>1, <3>1 DEF Truths, QuitEnds, StoppedTrue
  <2>5. OneApply' /\ Said'
    <3>1. SUFFICES ASSUME ~racing PROVE OneApply' /\ Said'
      BY <2>1 DEF OneApply, Said
    <3>2. call[k].arg = posted /\ note = "applying"
      BY <2>1, <3>1 DEF Truths, OneApply, Of
    <3>3. call[k].arg = posted => Kept(r)'
      <4> SUFFICES ASSUME call[k].arg = posted PROVE Kept(r)'
        OBVIOUS
      <4>1. ASSUME NEW x, P!Answer(k, "back", x) PROVE r = x
        BY <2>1, <2>3, <4>1, Reply
      <4>2. CASE r \in {"unsaved", "refused"}
        BY <4>2 DEF Kept
      <4>3. CASE r = "restart" /\ saved' = posted
        BY <2>1, <4>3 DEF Kept
      <4>4. CASE /\ r = "applied" /\ saved' = posted /\ src' = posted /\ live' = posted
                 /\ posted.source # "iq" /\ P!Buildable(posted)
        BY <2>1, <4>4 DEF Kept, P!Buildable
      <4> QED
        BY <1>4, <4>1, <4>2, <4>3, <4>4 DEF P!HandleConfig, P!Saving
    <3>4. \A j \in P!Slot : Of(j, "config")' => Of(j, "config")
      BY <2>1, <2>3 DEF Of
    <3>5. \A j \in P!Slot : Of(j, "config") => j = k
      BY <2>1, <3>1 DEF Truths, OneApply, Of
    <3>6. OneApply'
      BY <2>1, <2>3, <3>2, <3>3, <3>4, <3>5 DEF OneApply
    <3>7. Said'
      BY <2>1, <3>2 DEF Said, Kept
    <3> QED
      BY <3>6, <3>7
  <2> QED
    BY <2>4, <2>5 DEF Truths
<1>5. CASE P!AbortConfig(k)
  <2>1. /\ call[k] # Nothing /\ call[k].kind = "config" /\ P!Answer(k, "failed", Nothing)
        /\ UNCHANGED <<up, posted, racing, note, halted>>
    BY <1>5 DEF P!AbortConfig, P!Asked
  <2>2. /\ call'[k].kind = "config" /\ call'[k].arg = call[k].arg
        /\ call'[k].at = "failed" /\ \A j \in P!Slot \ {k} : call'[j] = call[j]
    BY <2>1, Reply
  <2>3. QuitEnds' /\ StoppedTrue'
    <3>1. \A j \in P!Slot : Of(j, "quit")' => Of(j, "quit") /\ call'[j] = call[j]
      BY <2>1, <2>2 DEF Of
    <3> QED
      BY <2>1, <3>1 DEF Truths, QuitEnds, StoppedTrue
  <2>4. OneApply' /\ Said'
    <3>1. SUFFICES ASSUME ~racing PROVE OneApply' /\ Said'
      BY <2>1 DEF OneApply, Said
    <3>2. call[k].arg = posted /\ note = "applying"
      BY <2>1, <3>1 DEF Truths, OneApply, Of
    <3>3. \A j \in P!Slot : Of(j, "config")' => j = k
      BY <2>1, <2>2, <3>1 DEF Truths, OneApply, Of
    <3>4. OneApply'
      BY <2>1, <2>2, <3>2, <3>3 DEF OneApply
    <3>5. Said'
      BY <2>1, <3>2 DEF Said, Kept
    <3> QED
      BY <3>4, <3>5
  <2> QED
    BY <2>3, <2>4 DEF Truths
<1> QED
  BY <1>1, <1>2, <1>3, <1>4, <1>5 DEF P!Serve

(* A POST's reply is shown as it was given; other replies say nothing about *)
(* an Apply, and a /quit that is over has ended the process.                *)
LEMMA DeliverTruths ==
    ASSUME P!ConstantsOK, PageTypes, Truths, NEW k \in P!Slot, P!Deliver(k)
    PROVE  Truths'
<1> USE DEF P!helperVars, P!worldVars, P!pageVars, P!ghostVars
<1> DEFINE Over == call' = [call EXCEPT ![k] = Nothing]
<1>0. ASSUME Over
      PROVE  /\ ~Of(k, "config")' /\ ~Of(k, "quit")'
             /\ \A j \in P!Slot \ {k} : call'[j] = call[j]
  BY <1>0 DEF PageTypes, Asking, Of
<1>1. CASE P!OnStatus(k) \/ P!OnPorts(k)
  <2>1. PICK c : call' = [call EXCEPT ![k] = c] /\ (c # Nothing => c.kind = "ports")
    BY <1>1 DEF P!OnStatus, P!OnPorts
  <2>2. /\ ~Of(k, "config")' /\ ~Of(k, "quit")'
        /\ \A j \in P!Slot \ {k} : call'[j] = call[j]
    BY <2>1 DEF PageTypes, Asking, Of
  <2> QED
    BY <1>1, <2>2, Elsewhere DEF P!OnStatus, P!OnPorts
<1>2. CASE P!OnConfig(k)
  <2>1. /\ Of(k, "config") /\ call[k].at = "back" /\ note' = call[k].reply /\ Over
        /\ UNCHANGED <<up, live, src, saved, posted, racing, halted>>
    BY <1>2 DEF P!OnConfig, P!Asked, Of
  <2>2. \A r : Kept(r) => Kept(r)'
    BY <2>1 DEF Kept, P!Buildable
  <2>3. Said'
    BY <2>1, <2>2 DEF Truths, OneApply, Said
  <2>4. OneApply'
    <3>1. SUFFICES ASSUME ~racing PROVE \A j \in P!Slot : ~Of(j, "config")'
      BY <2>1 DEF OneApply
    <3>2. \A j \in P!Slot : Of(j, "config") => j = k
      BY <2>1, <3>1 DEF Truths, OneApply
    <3> QED
      BY <1>0, <2>1, <3>2 DEF Of
  <2>5. QuitEnds' /\ StoppedTrue'
    <3>1. \A j \in P!Slot : Of(j, "quit")' => Of(j, "quit") /\ call'[j] = call[j]
      BY <1>0, <2>1 DEF Of
    <3> QED
      BY <2>1, <3>1 DEF Truths, QuitEnds, StoppedTrue
  <2> QED
    BY <2>3, <2>4, <2>5 DEF Truths
<1>3. CASE P!OnQuit(k)
  <2>1. /\ Of(k, "quit") /\ call[k].at \in {"back", "failed"} /\ Over
        /\ UNCHANGED <<up, live, src, saved, posted, racing, note>>
    BY <1>3 DEF P!OnQuit, P!Asked, Of
  <2>2. up # "running"
    BY <2>1 DEF Truths, QuitEnds
  <2>3. \A j \in P!Slot : Of(j, "config")' => Of(j, "config") /\ call'[j] = call[j]
    BY <1>0, <2>1 DEF Of
  <2>4. \A r : Kept(r) => Kept(r)'
    BY <2>1 DEF Kept, P!Buildable
  <2>5. OneApply' /\ Said'
    BY <2>1, <2>3, <2>4 DEF Truths, OneApply, Said
  <2> QED
    BY <2>1, <2>2, <2>5 DEF Truths, QuitEnds, StoppedTrue
<1>4. CASE P!OnFailure(k)
  <2>1. /\ call[k] # Nothing /\ Over
        /\ note' = IF call[k].kind = "config" THEN "unreachable" ELSE note
        /\ UNCHANGED <<up, live, src, saved, posted, racing, halted>>
    BY <1>4 DEF P!OnFailure
  <2>2. CASE call[k].kind = "config"
    <3>1. Said'
      BY <2>1, <2>2 DEF Said, Kept
    <3>2. OneApply'
      <4>1. SUFFICES ASSUME ~racing PROVE \A j \in P!Slot : ~Of(j, "config")'
        BY <2>1 DEF OneApply
      <4>2. \A j \in P!Slot : Of(j, "config") => j = k
        BY <2>1, <2>2, <4>1 DEF Truths, OneApply, Of
      <4> QED
        BY <1>0, <2>1, <4>2 DEF Of
    <3>3. QuitEnds' /\ StoppedTrue'
      <4>1. \A j \in P!Slot : Of(j, "quit")' => Of(j, "quit") /\ call'[j] = call[j]
        BY <1>0, <2>1 DEF Of
      <4> QED
        BY <2>1, <4>1 DEF Truths, QuitEnds, StoppedTrue
    <3> QED
      BY <3>1, <3>2, <3>3 DEF Truths
  <2>3. CASE call[k].kind # "config"
    BY <1>0, <2>1, <2>3, Elsewhere
  <2> QED
    BY <2>2, <2>3
<1> QED
  BY <1>1, <1>2, <1>3, <1>4 DEF P!Deliver

(* An Apply that finds no other on its way has the page to itself.          *)
LEMMA ApplyTruths == ASSUME P!ConstantsOK, PageTypes, Truths, P!Apply PROVE Truths'
<1> USE DEF P!helperVars, P!worldVars
<1> DEFINE c == [kind |-> "config", arg |-> form, at |-> "sent", reply |-> Nothing]
<1>1. /\ note' = "applying" /\ posted' = form /\ racing' = P!Busy("config")
      /\ P!Fetch("config", form)
      /\ UNCHANGED <<up, live, src, saved, halted>>
  BY DEF P!Apply
<1>2. Whole(c)
  BY DEF PageTypes, Fields, Whole
<1>3. PICK k \in P!Slot : call'[k] = c /\ \A j \in P!Slot \ {k} : call'[j] = call[j]
  BY <1>1, <1>2, Fetched DEF PageTypes, Asking
<1>4. Said'
  BY <1>1 DEF Said, Kept
<1>5. OneApply'
  <2>1. SUFFICES ASSUME ~racing' PROVE OneApply'
    BY DEF OneApply
  <2>2. \A j \in P!Slot : Of(j, "config")' => j = k
    BY <1>1, <1>3, <2>1 DEF P!Busy, Of
  <2> QED
    BY <1>1, <1>3, <2>2 DEF OneApply
<1>6. QuitEnds' /\ StoppedTrue'
  <2>1. \A j \in P!Slot : Of(j, "quit")' => Of(j, "quit") /\ call'[j] = call[j]
    BY <1>3 DEF Of
  <2> QED
    BY <1>1, <2>1 DEF Truths, QuitEnds, StoppedTrue
<1> QED
  BY <1>4, <1>5, <1>6 DEF Truths

(* A /quit that is sent is not over.                                        *)
LEMMA ClickQuitTruths == ASSUME P!ConstantsOK, PageTypes, Truths, P!ClickQuit PROVE Truths'
<1> USE DEF P!helperVars, P!worldVars, P!pageVars
<1> DEFINE c == [kind |-> "quit", arg |-> Nothing, at |-> "sent", reply |-> Nothing]
<1>1. P!Fetch("quit", Nothing)
      /\ UNCHANGED <<up, live, src, saved, posted, racing, note, halted>>
  BY DEF P!ClickQuit
<1>2. Whole(c)
  BY DEF Whole
<1>3. PICK k \in P!Slot : call'[k] = c /\ \A j \in P!Slot \ {k} : call'[j] = call[j]
  BY <1>1, <1>2, Fetched DEF PageTypes, Asking
<1>4. \A j \in P!Slot : Of(j, "config")' => Of(j, "config") /\ call'[j] = call[j]
  BY <1>3 DEF Of
<1>5. \A r : Kept(r) => Kept(r)'
  BY <1>1 DEF Kept, P!Buildable
<1>6. OneApply' /\ Said'
  BY <1>1, <1>4, <1>5 DEF Truths, OneApply, Said
<1>7. QuitEnds' /\ StoppedTrue'
  <2>1. \A j \in P!Slot : Of(j, "quit")' /\ call'[j].at \in {"back", "failed"} =>
          Of(j, "quit") /\ call'[j] = call[j]
    BY <1>3 DEF Of
  <2> QED
    BY <1>1, <2>1 DEF Truths, QuitEnds, StoppedTrue
<1> QED
  BY <1>6, <1>7 DEF Truths

(* The end of the process changes nothing that was said; the process that   *)
(* is launched next has the config from the file.                           *)
LEMMA ProcessTruths ==
    ASSUME P!ConstantsOK, PageTypes, Truths,
           P!Exit \/ P!Crash \/ P!Relaunch \/ P!ClearNote
    PROVE  Truths'
<1> USE DEF P!helperVars, P!worldVars, P!pageVars, P!ghostVars
<1>1. CASE P!Exit \/ P!Crash
  <2>1. up' = "stopped"
        /\ UNCHANGED <<live, src, saved, posted, racing, note, halted, call>>
    BY <1>1 DEF P!Exit, P!Crash
  <2> QED
    BY <2>1 DEF Truths, OneApply, Said, QuitEnds, StoppedTrue, Of, Kept, P!Buildable
<1>2. CASE P!ClearNote
  <2>1. /\ note = "applied" /\ note' = "none"
        /\ UNCHANGED <<up, live, src, saved, posted, racing, halted, call>>
    BY <1>2 DEF P!ClearNote
  <2>2. Said'
    BY <2>1 DEF Said, Kept
  <2>3. OneApply'
    BY <2>1 DEF Truths, OneApply, Of, Kept, P!Buildable
  <2>4. QuitEnds' /\ StoppedTrue'
    BY <2>1 DEF Truths, QuitEnds, StoppedTrue, Of
  <2> QED
    BY <2>2, <2>3, <2>4 DEF Truths
<1>3. CASE P!Relaunch
  <2>1. /\ up' = "running" /\ live' = saved /\ UNCHANGED <<saved, posted, racing>>
        /\ src' = IF saved.source # "iq" /\ P!Buildable(saved) THEN saved ELSE Nothing
        /\ \A k \in P!Slot : ~Of(k, "quit")
    BY <1>3 DEF P!Relaunch, P!Boot, P!Busy, Of
  <2>2. \A r : Kept(r) => Kept(r)'
    BY <2>1 DEF Kept, P!Buildable
  <2>3. CASE halted
    <3>1. note' = "none" /\ ~halted' /\ \A k \in P!Slot : call'[k] = Nothing
      BY <1>3, <2>3 DEF P!Relaunch
    <3> QED
      BY <3>1 DEF Truths, OneApply, Said, QuitEnds, StoppedTrue, Of, Kept
  <2>4. CASE ~halted
    <3>1. UNCHANGED <<halted, note, call>>
      BY <1>3, <2>4 DEF P!Relaunch
    <3>2. OneApply' /\ Said'
      BY <2>1, <2>2, <3>1 DEF Truths, OneApply, Said, Of
    <3>3. QuitEnds' /\ StoppedTrue'
      BY <2>1, <2>4, <3>1 DEF QuitEnds, StoppedTrue, Of
    <3> QED
      BY <3>2, <3>3 DEF Truths
  <2> QED
    BY <2>3, <2>4
<1> QED
  BY <1>1, <1>2, <1>3

LEMMA TruthsStep ==
    ASSUME P!ConstantsOK, PageTypes, Truths, [P!Next]_P!vars
    PROVE  Truths'
<1>1. CASE UNCHANGED P!vars
  BY <1>1, Apart DEF P!vars, P!helperVars, P!pageVars, P!ghostVars
<1> QED
  BY <1>1, QuietTruths, ServeTruths, DeliverTruths, ApplyTruths, ClickQuitTruths,
     ProcessTruths DEF P!Next, P!Request, P!Environment

LEMMA TruthsInit == ASSUME P!ConstantsOK, P!Init PROVE Truths
  BY DEF P!Init, Truths, OneApply, Said, QuitEnds, StoppedTrue, Of, Kept

LEMMA PageAlways == ASSUME P!ConstantsOK PROVE P!Spec => [](PageTypes /\ Truths)
<1>1. P!Init => PageTypes /\ Truths
  BY TypesInit, TruthsInit
<1>2. PageTypes /\ Truths /\ [P!Next]_P!vars => (PageTypes /\ Truths)'
  BY TypesStep, TruthsStep
<1> QED
  BY <1>1, <1>2, PTL DEF P!Spec

(* The config page and its helper keep their types (TypeOK of ConfigPage,   *)
(* which the run's HelperTypeOK states of its page): whatever requests are  *)
(* on their way, refused or left over from an earlier process.              *)
THEOREM ConfigPageTyped == ASSUME P!ConstantsOK PROVE P!Spec => []P!TypeOK
<1>1. PageTypes /\ Truths => P!TypeOK
  BY Typed
<1> QED
  BY <1>1, PageAlways, PTL

(* web.go: what the page says of the last Apply, and of the helper's end,   *)
(* is so, for any number of requests in flight, Applies, lost saves,        *)
(* crashes and relaunches.                                                  *)
THEOREM PageSaysTrue == ASSUME P!ConstantsOK PROVE P!Spec => []PageTrue
<1>1. PageTypes /\ Truths => PageTrue
  BY DEF Truths, Said, Kept, StoppedTrue, MessageTrue, PageTrue
<1> QED
  BY <1>1, PageAlways, PTL

(* web.go: once the seeded port list is in, no reply and no timer takes     *)
(* back what the user edited.                                               *)
THEOREM EditsStay == ASSUME P!ConstantsOK PROVE P!Spec => SettledEditsKept
<1> DEFINE Settled == formInit /\ formInit' /\ ~Seeding /\ left'.edits = left.edits
           Stays == /\ form'.source = form.source
                    /\ form'.port # form.port => form.port \notin options'
<1> USE DEF P!helperVars, P!worldVars, P!pageVars, P!ghostVars
<1>1. ASSUME PageTypes, [P!Next]_P!vars, form' # form, Settled PROVE Stays
  <2>1. CASE P!Edit
    <3>1. left'["edits"] # left["edits"]
      BY <1>1, <2>1, Spent DEF P!Edit, P!Event, PageTypes
    <3> QED
      BY <1>1, <3>1
  <2>2. CASE P!Relaunch
    BY <1>1, <2>2 DEF P!Relaunch
  <2>3. ASSUME NEW k \in P!Slot, P!OnStatus(k) PROVE FALSE
    BY <1>1, <2>3 DEF P!OnStatus
  <2>4. ASSUME NEW k \in P!Slot, P!OnPorts(k) PROVE Stays
    <3>1. DOMAIN call = P!Slot /\ form \in P!Config
      BY <1>1 DEF PageTypes, Asking, Fields
    <3>2. call[k].arg = Nothing
      BY <1>1, <2>4, <3>1 DEF P!OnPorts, P!Asked, Seeding
    <3>3. options' = call[k].reply /\ form'.source = form.source
          /\ (form.port \in call[k].reply => form'.port = form.port)
      BY <2>4, <3>1, <3>2 DEF P!OnPorts, P!Config
    <3> QED
      BY <3>3
  <2>5. \/ P!Edit \/ P!Relaunch
        \/ \E k \in P!Slot : P!OnStatus(k) \/ P!OnPorts(k)
    BY <1>1 DEF P!Next, P!Request, P!Environment, P!vars, P!PollStep, P!PollTake,
                P!PollFails, P!PollClears, P!PollTicks, P!Serve, P!StatusSource,
                P!StatusFreq, P!Ports, P!HandleConfig, P!AbortConfig, P!HandleQuit,
                P!Refuse, P!Deliver, P!OnConfig, P!OnQuit, P!OnFailure, P!Exit, P!Tick, P!Crash, P!Plug,
                P!Refresh, P!Apply, P!ClickQuit, P!ClearNote
  <2> QED
    BY <2>1, <2>2, <2>3, <2>4, <2>5
<1>2. PageTypes /\ [P!Next]_P!vars => [Settled => Stays]_form
  BY <1>1
<1> QED
  BY <1>2, PageAlways, PTL DEF P!Spec, SettledEditsKept
=============================================================================
