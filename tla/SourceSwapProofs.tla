-------------------------- MODULE SourceSwapProofs --------------------------
(***************************************************************************)
(* Theorems about SourceSwap, for any number of POSTs, steering Bridges,   *)
(* ports, addresses, failures and restarts of the process; and about the   *)
(* CAT port under a serial source (SerialCat), for any number of commands. *)
(*                                                                         *)
(* None of SourceSwap's properties is inductive.  That two goroutines never*)
(* talk on one port needs who may be at which statement (Steps), that a    *)
(* reader of a serial object works on a serial object (Kinds), that a port *)
(* has one open handle (Handles) and that the talker holds both the mutex  *)
(* and the open handle of its object (Locked): the mutex makes it unique   *)
(* on one object, the exclusive open across a replaced object and its      *)
(* successor.  That every replaced object is closed, and that /status      *)
(* tells the config of the live object, need that an object under          *)
(* construction is nobody's yet (Fresh) and that a POST which closes       *)
(* closes an installed object other than the live one, and no other POST   *)
(* the same (Owners).  A close that was aborted leaves no connection,      *)
(* because what aborts it is the poll loop having cleared the field on its *)
(* way out of its last read of that object (Cut).                          *)
(*                                                                         *)
(* The last part is about what goes through such a port, SerialCat.        *)
(* Whatever is lost of what the radio said, what is left of it is its last *)
(* words (Paired), so that an end which parseFA finds behind a beginning   *)
(* of the same frame is the end of a whole answer; and every answer that   *)
(* has begun to come is to the query or to a command it found unanswered   *)
(* (Expected).                                                             *)
(***************************************************************************)
EXTENDS SourceSwap, Readings, Sequences, WellFoundedInduction, TLAPS

------------------------------------------------------------------------------
(* The inductive invariant.                                                 *)

(* Which goroutines may be at which statement.                              *)
Steps ==
    /\ \A g \in Goroutine : pc[g] \in {"idle", "lock", "open", "write"} => g \notin Post
    /\ \A g \in Goroutine :
         pc[g] \in {"reply", "check", "dial", "deadline", "send", "receive"} => g = Poll
    /\ \A g \in Goroutine : pc[g] \in InReset => g \in Post \cup {Poll}
    /\ \A g \in Goroutine :
         pc[g] \in {"off", "build", "swap", "close", "truncate", "save", "done",
                   "aborted"} => g \in Post

(* A goroutine runs the methods of its object's type.                       *)
Kinds ==
    /\ \A g \in Goroutine :
         pc[g] \in InRead \cup {"close"} => conf[use[g]].source = "serial"
    /\ \A g \in Goroutine :
         pc[g] \in InReset \cup {"check", "dial", "deadline", "send", "receive", "aborted"} =>
             conf[use[g]].source # "serial"

(* Only built objects have handles, only rigctld's can be closed and not    *)
(* nil, and a serial port has one open handle.                              *)
Handles ==
    /\ \A o \in Object : conf[o] = None => handle[o] = "nil"
    /\ \A o \in Object : conf[o] # None /\ conf[o].source = "serial" => handle[o] # "shut"
    /\ \A o, q \in Object :
         /\ handle[o] = "open" /\ conf[o].source = "serial"
         /\ handle[q] = "open" /\ conf[q].source = "serial"
         /\ conf[o].port = conf[q].port
         => o = q

(* Inside read and set the mutex is held, and past open the handle is open. *)
Locked ==
    \A g \in Goroutine :
        /\ pc[g] \in {"open", "write", "reply"} => mu[use[g]] = g
        /\ pc[g] \in {"write", "reply"} => handle[use[g]] = "open"

(* The object a POST will install is not built before Build, is what its    *)
(* draft says after it, and is not installed before Swap.                   *)
Fresh ==
    \A r \in Post :
        /\ pc[r] \in {"off", "build"} => conf[r] = None
        /\ pc[r] \in {"off", "build", "swap"} => r \notin installed
        /\ pc[r] = "build" => draft[r] # None
        /\ pc[r] = "swap" => conf[r] = draft[r] /\ conf[r] # None

(* Installed objects are built, the live one is installed, and what a POST  *)
(* closes was installed, is no longer live and is no other POST's.          *)
Owners ==
    /\ src # None => src \in installed
    /\ \A o \in installed : conf[o] # None
    /\ \A r \in Post : use[r] # None => use[r] \in installed /\ use[r] # src
    /\ \A r, q \in Post : use[r] # None /\ use[r] = use[q] => r = q

(* A close that finds no connection where it found one lost it to the poll  *)
(* loop's reset, which may still be at its last statement; and after an     *)
(* aborted close there is no connection.                                    *)
Cut ==
    \A r \in Post :
        /\ pc[r] = "aborted" => handle[use[r]] = "nil"
        /\ pc[r] \in {"shut", "aborted"} /\ handle[use[r]] = "nil" /\ use[Poll] = use[r]
           => pc[Poll] = "reader"

Coupled ==
    /\ Steps /\ Kinds /\ Handles /\ Locked
    /\ Fresh /\ Owners /\ Cut /\ ReplacedIsClosed /\ StatusCoherent

Inv == TypeOK /\ Coupled

USE DEF Kind, Config, Object, Goroutine, liveVars, handleVars, goVars, ghostVars, InRead, InReset

------------------------------------------------------------------------------
(* TypeOK in four parts, for the steps that disturb several of them.        *)

Places == {"idle", "off", "check", "dial", "deadline", "send", "receive", "build", "swap",
           "close", "truncate", "save", "done", "aborted"} \cup InRead \cup InReset

Records ==
    /\ up \in {"running", "stopped", "panicked"}
    /\ iqMode \in BOOLEAN
    /\ src \in Object \cup {None}
    /\ cfg \in Config
    /\ conf \in [Object -> Config \cup {None}]
    /\ draft \in [Post -> Config \cup {None}]
    /\ file \in [top : Config \cup {None}, size : Nat]
    /\ used \in [steers : 0..MaxSteers, failures : 0..MaxFailures, stops : 0..MaxStops]

Maps ==
    /\ handle \in [Object -> {"nil", "open", "shut"}]
    /\ br \in [Object -> BOOLEAN]
    /\ mu \in [Object -> Goroutine \cup {None}]
    /\ pc \in [Goroutine -> Places]
    /\ use \in [Goroutine -> Object \cup {None}]

Holding ==
    /\ \A g \in Goroutine :
         (use[g] = None) = (pc[g] \in {"idle", "off", "build", "swap", "truncate", "save",
                                       "done"})
    /\ \A g \in Goroutine : use[g] # None => conf[use[g]] # None

Ghosts == closed \subseteq installed /\ installed \subseteq Object

(* The four parts are the whole of it.                                      *)
LEMMA TypeSplit == TypeOK <=> Records /\ Maps /\ Holding /\ Ghosts
  BY DEF TypeOK, Records, Maps, Holding, Ghosts, Places

------------------------------------------------------------------------------
(* Initially every variable has its type, and the invariant holds: the only *)
(* object is the one main builds, and nobody works on it yet.               *)
LEMMA InvInit == Init => Inv
<1> SUFFICES ASSUME Init PROVE Inv
  OBVIOUS
<1> USE ConstantsOK DEF Init, Booted, Buildable
<1>1. TypeOK
  BY DEF TypeOK, Size
<1>2. Coupled
  BY DEF Coupled, Steps, Kinds, Handles, Locked, Fresh, Owners, Cut,
         ReplacedIsClosed, StatusCoherent
<1> QED
  BY <1>1, <1>2 DEF Inv

(* Every step keeps the types.  Steps into an object need that it is built  *)
(* (Owners, Fresh), and closes that what they close is installed.           *)
LEMMA TypeStep == Inv /\ [Next]_vars => TypeOK'
<1> SUFFICES ASSUME Inv, [Next]_vars PROVE TypeOK'
  OBVIOUS
<1> USE ConstantsOK DEF Inv, Coupled, TypeOK, Steps, Goto, Spend, Running
<1>1. ASSUME PollTake PROVE TypeOK'
  <2> USE <1>1 DEF PollTake
  <2>1. Records'
    BY DEF Records, Fresh
  <2>2. Maps'
    BY DEF Maps, Places
  <2>3. Holding'
    BY DEF Holding, Owners, Fresh, Maps, Places
  <2>4. Ghosts'
    BY DEF Ghosts, Owners
  <2> QED
    BY <2>1, <2>2, <2>3, <2>4 DEF Records, Maps, Holding, Ghosts, Places
<1>2. ASSUME NEW k \in Steer, Control(k) PROVE TypeOK'
  <2> USE <1>2 DEF Control
  <2>1. Records'
    BY DEF Records, Fresh
  <2>2. Maps'
    BY DEF Maps, Places
  <2>3. Holding'
    BY DEF Holding, Owners, Fresh, Maps, Places
  <2>4. Ghosts'
    BY DEF Ghosts, Owners
  <2> QED
    BY <2>1, <2>2, <2>3, <2>4 DEF Records, Maps, Holding, Ghosts, Places
<1>3. ASSUME NEW g \in Steer \cup {Poll}, Lock(g) PROVE TypeOK'
  BY <1>3 DEF Lock
<1>4. ASSUME NEW g \in Steer \cup {Poll}, Open(g) PROVE TypeOK'
  BY SMTT(60), <1>4 DEF Open, PortFree, Leave
<1>5. ASSUME NEW g \in Steer \cup {Poll}, Write(g) PROVE TypeOK'
  BY SMTT(60), <1>5 DEF Write, Leave
<1>6. ASSUME Reply PROVE TypeOK'
  BY <1>6 DEF Reply, Leave
<1>7. ASSUME CheckConn PROVE TypeOK'
  BY <1>7 DEF CheckConn
<1>8. ASSUME Dial PROVE TypeOK'
  <2> USE <1>8 DEF Dial, Leave
  <2>1. Records'
    BY DEF Records, Fresh
  <2>2. Maps'
    <3>1. pc' \in [Goroutine -> Places] /\ use' \in [Goroutine -> Object \cup {None}] /\ mu' = mu
      BY DEF Places
    <3>2. \/ /\ handle' = [handle EXCEPT ![use[Poll]] = "open"]
             /\ br' = [br EXCEPT ![use[Poll]] = TRUE]
          \/ handle' = handle /\ br' = br
      OBVIOUS
    <3> HIDE <1>8 DEF Dial, Leave
    <3> QED
      BY ZenonT(60), <3>1, <3>2 DEF Maps
  <2>3. Holding'
    BY DEF Holding, Owners, Fresh, Maps, Places
  <2>4. Ghosts'
    BY DEF Ghosts, Owners
  <2> QED
    BY <2>1, <2>2, <2>3, <2>4 DEF Records, Maps, Holding, Ghosts, Places
<1>9. ASSUME SetDeadline PROVE TypeOK'
  BY <1>9 DEF SetDeadline, OnConn, Panic
<1>10. ASSUME SendQuery PROVE TypeOK'
  BY <1>10 DEF SendQuery, OnConn, Panic
<1>11. ASSUME Receive PROVE TypeOK'
  BY <1>11 DEF Receive, Panic, Leave
<1>12. ASSUME NEW g \in Post \cup {Poll}, TestConn(g) PROVE TypeOK'
  <2> USE <1>12 DEF TestConn, Leave
  <2>1. Records'
    BY DEF Records, Fresh
  <2>2. Maps'
    BY DEF Maps, Places
  <2>3. Holding'
    BY DEF Holding, Owners, Fresh, Maps, Places
  <2>4. Ghosts'
    BY DEF Ghosts, Owners
  <2> QED
    BY <2>1, <2>2, <2>3, <2>4 DEF Records, Maps, Holding, Ghosts, Places
<1>13. ASSUME NEW g \in Post \cup {Poll}, ShutConn(g) PROVE TypeOK'
  BY <1>13 DEF ShutConn, OnConn, Panic
<1>14. ASSUME NEW g \in Post \cup {Poll}, ClearConn(g) PROVE TypeOK'
  BY <1>14 DEF ClearConn
<1>15. ASSUME NEW g \in Post \cup {Poll}, ClearReader(g) PROVE TypeOK'
  <2> USE <1>15 DEF ClearReader, Leave
  <2>1. Records'
    BY DEF Records, Fresh
  <2>2. Maps'
    BY DEF Maps, Places
  <2>3. Holding'
    BY DEF Holding, Owners, Fresh, Maps, Places
  <2>4. Ghosts'
    BY DEF Ghosts, Owners
  <2> QED
    BY <2>1, <2>2, <2>3, <2>4 DEF Records, Maps, Holding, Ghosts, Places
<1>16. ASSUME NEW r \in Post, NEW b \in Body, CopyConfig(r, b) PROVE TypeOK'
  BY <1>16 DEF CopyConfig, Merge
<1>17. ASSUME NEW r \in Post, Build(r) PROVE TypeOK'
  <2> USE <1>17 DEF Build, Buildable
  <2>1. Records'
    BY DEF Records, Fresh
  <2>2. Maps'
    BY DEF Maps, Places
  <2>3. Holding'
    BY DEF Holding, Owners, Fresh, Maps, Places
  <2>4. Ghosts'
    BY DEF Ghosts, Owners
  <2> QED
    BY <2>1, <2>2, <2>3, <2>4 DEF Records, Maps, Holding, Ghosts, Places
<1>18. ASSUME NEW r \in Post, Swap(r) PROVE TypeOK'
  <2> USE <1>18 DEF Swap, CloseAt
  <2>1. Records'
    BY DEF Records, Fresh
  <2>2. Maps'
    BY DEF Maps, Places
  <2>3. Holding'
    BY DEF Holding, Owners, Fresh, Maps, Places
  <2>4. Ghosts'
    BY DEF Ghosts, Owners
  <2> QED
    BY <2>1, <2>2, <2>3, <2>4 DEF Records, Maps, Holding, Ghosts, Places
<1>19. ASSUME NEW r \in Post, CloseSerial(r) PROVE TypeOK'
  <2> USE <1>19 DEF CloseSerial, Leave
  <2>1. Records'
    BY DEF Records, Fresh
  <2>2. Maps'
    BY DEF Maps, Places
  <2>3. Holding'
    BY DEF Holding, Owners, Fresh, Maps, Places
  <2>4. Ghosts'
    BY DEF Ghosts, Owners
  <2> QED
    BY <2>1, <2>2, <2>3, <2>4 DEF Records, Maps, Holding, Ghosts, Places
<1>20. ASSUME NEW r \in Post, Truncate(r) PROVE TypeOK'
  BY <1>20 DEF Truncate
<1>21. ASSUME NEW r \in Post, Save(r) PROVE TypeOK'
  BY <1>21 DEF Save, Size
<1>22. ASSUME Stop PROVE TypeOK'
  BY <1>22 DEF Stop
<1>23. ASSUME Launch PROVE TypeOK'
  BY <1>23 DEF Launch, Loaded, Booted, Buildable
<1>24. ASSUME UNCHANGED vars PROVE TypeOK'
  BY <1>24 DEF vars
<1> QED
  BY <1>1, <1>2, <1>3, <1>4, <1>5, <1>6, <1>7, <1>8, <1>9, <1>10, <1>11, <1>12, <1>13,
     <1>14, <1>15, <1>16, <1>17, <1>18, <1>19, <1>20, <1>21, <1>22, <1>23, <1>24
     DEF Next, PollStep, SerialStep, ResetStep, PostStep, Environment

(* Every step keeps the rest of the invariant.                              *)
LEMMA CoupledStep == Inv /\ [Next]_vars => Coupled'
<1> SUFFICES ASSUME Inv, [Next]_vars PROVE Coupled'
  OBVIOUS
<1>0. TypeOK'
  BY TypeStep
<1> USE ConstantsOK DEF Inv, TypeOK, Coupled, Goto, Spend, Running
<1> USE DEF Steps, Kinds, Handles, Locked, Fresh, Owners, Cut, ReplacedIsClosed, StatusCoherent
<1>1. ASSUME PollTake PROVE Coupled'
  <2>1. (Steps /\ Kinds /\ Handles /\ Locked)'
    BY <1>1, <1>0 DEF PollTake
  <2>2. Fresh' /\ StatusCoherent'
    BY SMTT(30), <1>1, <1>0 DEF PollTake
  <2>3. Owners'
    BY SMTT(30), <1>1, <1>0 DEF PollTake
  <2>4. Cut'
    BY SMTT(30), <1>1, <1>0 DEF PollTake
  <2>5. ReplacedIsClosed'
    BY SMTT(30), <1>1, <1>0 DEF PollTake
  <2> QED
    BY <2>1, <2>2, <2>3, <2>4, <2>5
<1>2. ASSUME NEW k \in Steer, Control(k) PROVE Coupled'
  <2>1. Steps' /\ Kinds'
    BY SMTT(30), <1>2, <1>0 DEF Control
  <2>2. Handles' /\ Locked'
    BY SMTT(30), <1>2, <1>0 DEF Control
  <2>3. (Fresh /\ Owners /\ Cut /\ ReplacedIsClosed /\ StatusCoherent)'
    BY SMTT(30), <1>2, <1>0 DEF Control
  <2> QED
    BY <2>1, <2>2, <2>3
<1>3. ASSUME NEW g \in Steer \cup {Poll}, Lock(g) PROVE Coupled'
  BY SMTT(60), <1>3, <1>0 DEF Lock
<1>4. ASSUME NEW g \in Steer \cup {Poll}, Open(g) PROVE Coupled'
  <2>1. Steps' /\ Kinds'
    BY SMTT(30), <1>4, <1>0 DEF Open, Leave
  <2>2. Handles'
    BY SMTT(30), <1>4, <1>0 DEF Open, PortFree
  <2>3. Locked'
    BY SMTT(30), <1>4, <1>0 DEF Open, Leave
  <2>4. Fresh' /\ StatusCoherent'
    BY SMTT(30), <1>4, <1>0 DEF Open, Leave
  <2>5. Owners'
    BY SMTT(30), <1>4, <1>0 DEF Open, Leave
  <2>6. Cut'
    BY SMTT(30), <1>4, <1>0 DEF Open, Leave
  <2>7. ReplacedIsClosed'
    BY SMTT(30), <1>4, <1>0 DEF Open, Leave
  <2> QED
    BY <2>1, <2>2, <2>3, <2>4, <2>5, <2>6, <2>7
<1>5. ASSUME NEW g \in Steer \cup {Poll}, Write(g) PROVE Coupled'
  <2>1. Steps' /\ Kinds'
    BY SMTT(30), <1>5, <1>0 DEF Write, Leave
  <2>2. Handles' /\ Locked'
    BY SMTT(30), <1>5, <1>0 DEF Write, Leave
  <2>3. Fresh' /\ StatusCoherent'
    BY SMTT(30), <1>5, <1>0 DEF Write, Leave
  <2>4. Owners'
    BY SMTT(30), <1>5, <1>0 DEF Write, Leave
  <2>5. Cut'
    BY SMTT(30), <1>5, <1>0 DEF Write, Leave
  <2>6. ReplacedIsClosed'
    BY SMTT(30), <1>5, <1>0 DEF Write, Leave
  <2> QED
    BY <2>1, <2>2, <2>3, <2>4, <2>5, <2>6
<1>6. ASSUME Reply PROVE Coupled'
  <2>1. (Steps /\ Kinds)'
    BY <1>6, <1>0 DEF Reply, Leave
  <2>2. Handles' /\ Locked'
    BY SMTT(30), <1>6, <1>0 DEF Reply, Leave
  <2>3. (Fresh /\ StatusCoherent)'
    BY <1>6, <1>0 DEF Reply, Leave
  <2>4. Owners'
    BY SMTT(30), <1>6, <1>0 DEF Reply, Leave
  <2>5. Cut'
    BY SMTT(30), <1>6, <1>0 DEF Reply, Leave
  <2>6. ReplacedIsClosed'
    BY SMTT(30), <1>6, <1>0 DEF Reply, Leave
  <2> QED
    BY <2>1, <2>2, <2>3, <2>4, <2>5, <2>6
<1>7. ASSUME CheckConn PROVE Coupled'
  BY <1>7, <1>0 DEF CheckConn
<1>8. ASSUME Dial PROVE Coupled'
  <2>1. Steps' /\ Kinds'
    BY SMTT(30), <1>8, <1>0 DEF Dial, Leave
  <2>2. Handles' /\ Locked'
    BY SMTT(30), <1>8, <1>0 DEF Dial, Leave
  <2>3. (Fresh /\ Owners)'
    BY SMTT(30), <1>8, <1>0 DEF Dial, Leave
  <2>4. (ReplacedIsClosed /\ StatusCoherent)'
    BY SMTT(30), <1>8, <1>0 DEF Dial, Leave
  <2>5. Cut'
    BY SMTT(30), <1>8, <1>0 DEF Dial, Leave
  <2> QED
    BY <2>1, <2>2, <2>3, <2>4, <2>5
<1>9. ASSUME SetDeadline PROVE Coupled'
  BY <1>9, <1>0 DEF SetDeadline, OnConn, Panic
<1>10. ASSUME SendQuery PROVE Coupled'
  BY <1>10, <1>0 DEF SendQuery, OnConn, Panic
<1>11. ASSUME Receive PROVE Coupled'
  BY SMTT(60), <1>11, <1>0 DEF Receive, Panic, Leave
<1>12. ASSUME NEW g \in Post \cup {Poll}, TestConn(g) PROVE Coupled'
  <2>1. (Steps /\ Kinds /\ Handles /\ Locked)'
    BY <1>12, <1>0 DEF TestConn, Leave
  <2>2. (Fresh /\ StatusCoherent)'
    BY <1>12, <1>0 DEF TestConn, Leave
  <2>3. Owners' /\ Cut'
    BY SMTT(30), <1>12, <1>0 DEF TestConn, Leave
  <2>4. ReplacedIsClosed'
    BY SMTT(30), <1>12, <1>0 DEF TestConn, Leave
  <2> QED
    BY <2>1, <2>2, <2>3, <2>4
<1>13. ASSUME NEW g \in Post \cup {Poll}, ShutConn(g) PROVE Coupled'
  <2>1. Steps' /\ Kinds'
    BY SMTT(30), <1>13, <1>0 DEF ShutConn, OnConn, Panic
  <2>2. Handles' /\ Locked'
    BY SMTT(30), <1>13, <1>0 DEF ShutConn, OnConn, Panic
  <2>3. Fresh' /\ Owners' /\ StatusCoherent'
    BY SMTT(30), <1>13, <1>0 DEF ShutConn, OnConn, Panic
  <2>4. Cut'
    BY SMTT(30), <1>13, <1>0 DEF ShutConn, OnConn, Panic
  <2>5. ReplacedIsClosed'
    BY SMTT(30), <1>13, <1>0 DEF ShutConn, OnConn, Panic
  <2> QED
    BY <2>1, <2>2, <2>3, <2>4, <2>5
<1>14. ASSUME NEW g \in Post \cup {Poll}, ClearConn(g) PROVE Coupled'
  BY <1>14, <1>0 DEF ClearConn
<1>15. ASSUME NEW g \in Post \cup {Poll}, ClearReader(g) PROVE Coupled'
  BY <1>15, <1>0 DEF ClearReader, Leave
<1>16. ASSUME NEW r \in Post, NEW b \in Body, CopyConfig(r, b) PROVE Coupled'
  BY <1>16, <1>0 DEF CopyConfig, Merge
<1>17. ASSUME NEW r \in Post, Build(r) PROVE Coupled'
  <2> USE <1>17 DEF Build, Buildable
  <2>1. ASSUME NEW g \in Goroutine, use'[g] # None
        PROVE  use'[g] = use[g] /\ pc'[g] = pc[g] /\ conf'[use[g]] = conf[use[g]]
    BY <2>1
  <2>2. ASSUME NEW g \in Goroutine,
               pc'[g] \in InRead \cup InReset \cup {"close", "check", "dial", "deadline",
                                                  "send", "receive", "aborted"}
        PROVE  use'[g] # None
    BY <1>0, <2>2
  <2>3. Kinds'
    BY <2>1, <2>2
  <2>4. (Steps /\ Handles /\ Locked /\ Fresh /\ Owners /\ Cut /\ ReplacedIsClosed
        /\ StatusCoherent)'
    BY SMTT(60)
  <2> QED
    BY <2>3, <2>4
<1>18. ASSUME NEW r \in Post, Swap(r) PROVE Coupled'
  <2>1. (Steps /\ Kinds /\ Handles /\ Locked)'
    BY SMTT(30), <1>18, <1>0 DEF Swap, CloseAt
  <2>2. Fresh' /\ Owners'
    BY SMTT(30), <1>18, <1>0 DEF Swap, CloseAt
  <2>3. ReplacedIsClosed' /\ StatusCoherent'
    BY SMTT(30), <1>18, <1>0 DEF Swap, CloseAt
  <2>4. Cut'
    BY SMTT(30), <1>18, <1>0 DEF Swap, CloseAt
  <2> QED
    BY <2>1, <2>2, <2>3, <2>4
<1>19. ASSUME NEW r \in Post, CloseSerial(r) PROVE Coupled'
  BY SMTT(60), <1>19, <1>0 DEF CloseSerial, Leave
<1>20. ASSUME NEW r \in Post, Truncate(r) PROVE Coupled'
  <2>1. (Steps /\ Kinds /\ Handles /\ Locked)'
    BY <1>20, <1>0 DEF Truncate
  <2>2. (Fresh /\ Owners /\ Cut /\ ReplacedIsClosed /\ StatusCoherent)'
    BY SMTT(60), <1>20, <1>0 DEF Truncate
  <2> QED
    BY <2>1, <2>2
<1>21. ASSUME NEW r \in Post, Save(r) PROVE Coupled'
  BY SMTT(60), <1>21, <1>0 DEF Save, Size
<1>22. ASSUME Stop PROVE Coupled'
  BY SMTT(60), <1>22, <1>0 DEF Stop
<1>23. ASSUME Launch PROVE Coupled'
  <2>1. /\ src' = IF Booted(Loaded) THEN Boot ELSE None
        /\ cfg' = Loaded
        /\ conf' = [o \in Object |-> IF o = Boot /\ Booted(Loaded) THEN Loaded ELSE None]
        /\ installed' = IF Booted(Loaded) THEN {Boot} ELSE {}
        /\ closed' = {}
        /\ handle' = [o \in Object |-> "nil"]
        /\ use' = [g \in Goroutine |-> None]
        /\ \A g \in Goroutine : IF g \in Post THEN pc'[g] \in {"off", "done"} ELSE pc'[g] = "idle"
        /\ Boot \notin Post
    BY <1>23, <1>0 DEF Launch
  <2>2. Steps'
    BY <2>1
  <2>3. Kinds' /\ Locked'
    BY <2>1
  <2>4. Handles' /\ Fresh'
    BY <2>1
  <2>5. Loaded # None
    BY <1>0 DEF Loaded, ConstantsOK
  <2>6. (Owners /\ Cut /\ ReplacedIsClosed /\ StatusCoherent)'
    BY <2>1, <2>5
  <2> QED
    BY <2>2, <2>3, <2>4, <2>6 DEF Coupled
<1>24. ASSUME UNCHANGED vars PROVE Coupled'
  BY <1>24, <1>0 DEF vars
<1> QED
  BY <1>1, <1>2, <1>3, <1>4, <1>5, <1>6, <1>7, <1>8, <1>9, <1>10, <1>11, <1>12, <1>13,
     <1>14, <1>15, <1>16, <1>17, <1>18, <1>19, <1>20, <1>21, <1>22, <1>23, <1>24
     DEF Next, PollStep, SerialStep, ResetStep, PostStep, Environment

------------------------------------------------------------------------------
(* The theorems.                                                            *)

(* The invariant holds in every reachable state.                            *)
LEMMA InvAlways == Spec => []Inv
<1>1. Inv /\ [Next]_vars => Inv'
  BY TypeStep, CoupledStep DEF Inv
<1> QED
  BY InvInit, <1>1, PTL DEF Spec

(* Every variable keeps its type, and a goroutine has an object exactly     *)
(* while it works on one.                                                   *)
THEOREM TypeCorrect == Spec => []TypeOK
<1>1. Inv => TypeOK
  BY DEF Inv
<1> QED
  BY InvAlways, <1>1, PTL

(* helper/serial.go: two goroutines never have bytes of theirs on one port, *)
(* not even while a POST replaces the source of that port by another.       *)
THEOREM OneTalkerOnPort == Spec => []OneTalker
<1>1. Inv => OneTalker
  <2> SUFFICES ASSUME Inv, NEW g \in Goroutine, NEW h \in Goroutine,
                      Talking(g), Talking(h), conf[use[g]].port = conf[use[h]].port
               PROVE  g = h
    BY DEF OneTalker
  <2> USE DEF Inv, Coupled, TypeOK, Talking
  <2>1. use[g] \in Object /\ use[h] \in Object
    OBVIOUS
  <2>2. conf[use[g]].source = "serial" /\ conf[use[h]].source = "serial"
    BY DEF Kinds
  <2>3. mu[use[g]] = g /\ mu[use[h]] = h /\ handle[use[g]] = "open" /\ handle[use[h]] = "open"
    BY DEF Locked
  <2>4. use[g] = use[h]
    BY <2>1, <2>2, <2>3 DEF Handles
  <2> QED
    BY <2>3, <2>4
<1> QED
  BY InvAlways, <1>1, PTL

(* helper/main.go setSource: however POSTs overlap, a replaced source is    *)
(* closed or about to be closed by the POST that replaced it, or that POST  *)
(* was aborted when the poll loop had closed the connection itself; and the *)
(* live source is never closed.                                             *)
THEOREM EveryReplacedCloses == Spec => []ReplacedIsClosed
<1>1. Inv => ReplacedIsClosed
  BY DEF Inv, Coupled
<1> QED
  BY InvAlways, <1>1, PTL

(* helper/web.go: the config /status reports is that of the live source.    *)
THEOREM StatusTellsLive == Spec => []StatusCoherent
<1>1. Inv => StatusCoherent
  BY DEF Inv, Coupled
<1> QED
  BY InvAlways, <1>1, PTL

------------------------------------------------------------------------------
(* The frames on a serial port: the state of SerialCat.                     *)
CONSTANTS MaxCommands, MaxStatus, MaxErrors
VARIABLES port, asking, buf, inbox, out, back, spent

Cat == INSTANCE SerialCat

------------------------------------------------------------------------------
(* The serial port: types and the line.                                     *)

(* A frame of a command says its number; any other has none.                *)
CatPiece == [kind : {"value"}, of : Cat!Command, part : {"begin", "end"}]
              \cup [kind : {"other"}, of : {0}, part : {"begin", "end"}]

CatOrder == [n : Cat!Command, cmd : {"query", "set"}]

CatTyped ==
    /\ asking \in Cat!Command \cup {Nothing}
    /\ port \in BOOLEAN
    /\ buf \in Seq(CatPiece) /\ inbox \in Seq(CatPiece) /\ back \in Seq(CatPiece)
    /\ out \in Seq(CatOrder)
    /\ reading # Nothing => reading \in [query : Cat!Command, of : Cat!Command]
    /\ coming \subseteq Cat!Command \cup {0}
    /\ asking # Nothing => port
    /\ asking = Nothing => buf = <<>>
    /\ ~port => inbox = <<>>
    /\ spent \in [commands : 0..MaxCommands, status : 0..MaxStatus, errors : 0..MaxErrors]

(* Whatever was dropped of what the radio said, what is left is its last    *)
(* words: no end of a frame is there without its beginning, but at most the *)
(* first.                                                                   *)
Paired(q) == \A i \in 1..(Len(q) - 1) :
                 q[i + 1].part = "end" => q[i].part = "begin" /\ q[i].of = q[i + 1].of

Line == (buf \o inbox) \o back

(* The answers that begin in q, with those to come, are to the query or to  *)
(* commands it found unanswered.                                            *)
Begins(q, N) == \A i \in DOMAIN q : q[i].part = "begin" => q[i].of \in N \cup {0}

Expected ==
    asking # Nothing =>
        /\ \A i \in DOMAIN out : out[i].n \in coming \cup {asking}
        /\ Begins(buf, coming \cup {asking})
        /\ Begins(inbox, coming \cup {asking})
        /\ Begins(back, coming \cup {asking})

CatInv == CatTyped /\ Paired(Line) /\ Expected /\ StaleOnlyInTransit

(* A set of numbers has a least one.                                        *)
Below == {p \in Nat \X Nat : p[1] < p[2]}

LEMMA Least == ASSUME NEW S \in SUBSET Nat, S # {} PROVE \E x \in S : \A y \in S : x <= y
<1>1. IsWellFoundedOn(Below, Nat)
  BY NatLessThanWellFounded DEF OpToRel, Below
<1>2. PICK x \in S : \A y \in S : ~ (<<y, x>> \in Below)
  BY <1>1, WFMin, Zenon
<1>3. \A y \in Nat : y < x => <<y, x>> \in Below
  BY DEF Below
<1>4. \A y \in S : y \in Nat /\ x \in Nat /\ ~(y < x)
  BY <1>2, <1>3
<1>5. \A y \in S : x <= y
  BY <1>4
<1> QED
  BY <1>5

(* What parseFA finds is the end of a frame whose beginning is there.       *)
LEMMA ReplyWhole ==
    ASSUME NEW b \in Seq(CatPiece), Paired(b), Cat!Replies(b) # {}, NEW N, Begins(b, N)
    PROVE  b[Cat!Min(Cat!Replies(b))].of \in Cat!Command \cap N
<1> DEFINE i == Cat!Min(Cat!Replies(b))
<1>1. i \in Cat!Replies(b)
  <2>1. Cat!Replies(b) \in SUBSET Nat
    BY DEF Cat!Replies
  <2>2. \E x \in Cat!Replies(b) : \A y \in Cat!Replies(b) : x <= y
    BY <2>1, Least
  <2> QED
    BY <2>2 DEF Cat!Min
<1> HIDE DEF i
<1>2. i \in 2..Len(b) /\ b[i].part = "end" /\ b[i].kind = "value" /\ b[i - 1].of = b[i].of
  BY <1>1 DEF Cat!Replies
<1>3. i - 1 \in 1..(Len(b) - 1) /\ (i - 1) + 1 = i /\ i \in DOMAIN b /\ i - 1 \in DOMAIN b
  BY <1>2
<1>4. b[i - 1].part = "begin"
  BY <1>2, <1>3 DEF Paired
<1>5. b[i] \in CatPiece
  BY <1>3
<1>6. b[i].of \in Cat!Command /\ b[i].of # 0
  BY <1>2, <1>5 DEF CatPiece, Cat!Command
<1>7. b[i].of \in N
  BY <1>2, <1>3, <1>4, <1>6 DEF Begins
<1> QED
  BY <1>6, <1>7 DEF i

(* Concatenations, by their elements.                                       *)
LEMMA Joined ==
    ASSUME NEW q \in Seq(CatPiece), NEW r \in Seq(CatPiece)
    PROVE  /\ q \o r \in Seq(CatPiece)
           /\ Len(q \o r) = Len(q) + Len(r) /\ Len(q) \in Nat /\ Len(r) \in Nat
           /\ \A i \in 1..Len(q) : (q \o r)[i] = q[i]
           /\ \A i \in 1..Len(r) : (q \o r)[Len(q) + i] = r[i]
  OBVIOUS

LEMMA PairedParts ==
    ASSUME NEW q \in Seq(CatPiece), NEW r \in Seq(CatPiece), Paired(q \o r)
    PROVE  Paired(q) /\ Paired(r)
<1> DEFINE s == q \o r
<1>1. /\ Len(s) = Len(q) + Len(r) /\ Len(q) \in Nat /\ Len(r) \in Nat
      /\ \A i \in 1..Len(q) : s[i] = q[i]
      /\ \A i \in 1..Len(r) : s[Len(q) + i] = r[i]
  BY Joined
<1>2. \A i \in 1..(Len(s) - 1) : s[i + 1].part = "end" => s[i].part = "begin" /\ s[i].of = s[i + 1].of
  BY DEF Paired
<1> HIDE DEF s
<1>3. ASSUME NEW i \in 1..(Len(q) - 1), q[i + 1].part = "end"
      PROVE  q[i].part = "begin" /\ q[i].of = q[i + 1].of
  <2>1. i \in 1..(Len(s) - 1) /\ i \in 1..Len(q) /\ i + 1 \in 1..Len(q)
    BY <1>1
  <2> QED
    BY <1>1, <1>2, <1>3, <2>1
<1>4. ASSUME NEW i \in 1..(Len(r) - 1), r[i + 1].part = "end"
      PROVE  r[i].part = "begin" /\ r[i].of = r[i + 1].of
  <2>1. /\ Len(q) + i \in 1..(Len(s) - 1) /\ i \in 1..Len(r) /\ i + 1 \in 1..Len(r)
        /\ (Len(q) + i) + 1 = Len(q) + (i + 1)
    BY <1>1
  <2> QED
    BY <1>1, <1>2, <1>4, <2>1
<1> QED
  BY <1>3, <1>4 DEF Paired

LEMMA PairedJoin ==
    ASSUME NEW q \in Seq(CatPiece), NEW r \in Seq(CatPiece), Paired(q), Paired(r),
           r # <<>> => r[1].part = "begin"
    PROVE  Paired(q \o r)
<1> DEFINE s == q \o r
<1>1. /\ Len(s) = Len(q) + Len(r) /\ Len(q) \in Nat /\ Len(r) \in Nat
      /\ \A i \in 1..Len(q) : s[i] = q[i]
      /\ \A i \in 1..Len(r) : s[Len(q) + i] = r[i]
  BY Joined
<1> HIDE DEF s
<1>2. SUFFICES ASSUME NEW i \in 1..(Len(s) - 1), s[i + 1].part = "end"
               PROVE  s[i].part = "begin" /\ s[i].of = s[i + 1].of
  BY DEF Paired, s
<1>3. CASE i + 1 <= Len(q)
  <2>1. i \in 1..(Len(q) - 1) /\ i \in 1..Len(q) /\ i + 1 \in 1..Len(q)
    BY <1>1, <1>3
  <2> QED
    BY <1>1, <1>2, <2>1 DEF Paired
<1>4. CASE i = Len(q)
  <2>1. 1 \in 1..Len(r) /\ i + 1 = Len(q) + 1 /\ r # <<>>
    BY <1>1, <1>4
  <2>2. s[i + 1] = r[1]
    BY <1>1, <2>1
  <2>3. r[1].part = "begin"
    BY <2>1
  <2> QED
    BY <1>2, <2>2, <2>3
<1>5. CASE i > Len(q)
  <2> DEFINE j == i - Len(q)
  <2>1. j \in 1..(Len(r) - 1) /\ j \in 1..Len(r) /\ j + 1 \in 1..Len(r)
        /\ i = Len(q) + j /\ i + 1 = Len(q) + (j + 1)
    <3>1. Len(q) \in Nat /\ Len(r) \in Nat /\ i \in 1..(Len(q) + Len(r) - 1)
      BY <1>1
    <3> QED
      BY <1>5, <3>1
  <2> HIDE DEF j
  <2>2. s[i] = r[j] /\ s[i + 1] = r[j + 1]
    BY <1>1, <2>1
  <2> QED
    BY <1>2, <2>1, <2>2 DEF Paired
<1> QED
  BY <1>1, <1>3, <1>4, <1>5

LEMMA BeginsJoin ==
    ASSUME NEW q \in Seq(CatPiece), NEW r \in Seq(CatPiece), NEW N, Begins(q, N), Begins(r, N)
    PROVE  Begins(q \o r, N)
<1> DEFINE s == q \o r
<1>1. /\ s \in Seq(CatPiece)
      /\ Len(s) = Len(q) + Len(r) /\ Len(q) \in Nat /\ Len(r) \in Nat
      /\ \A i \in 1..Len(q) : s[i] = q[i]
      /\ \A i \in 1..Len(r) : s[Len(q) + i] = r[i]
  BY Joined
<1>2. DOMAIN s = 1..Len(s) /\ DOMAIN q = 1..Len(q) /\ DOMAIN r = 1..Len(r)
  BY <1>1
<1> HIDE DEF s
<1>3. SUFFICES ASSUME NEW i \in 1..Len(s), s[i].part = "begin" PROVE s[i].of \in N \cup {0}
  BY <1>2 DEF Begins, s
<1>4. CASE i <= Len(q)
  BY <1>1, <1>2, <1>3, <1>4 DEF Begins
<1>5. CASE i > Len(q)
  <2> DEFINE j == i - Len(q)
  <2>1. j \in 1..Len(r) /\ Len(q) + j = i
    <3>1. Len(q) \in Nat /\ Len(r) \in Nat /\ i \in 1..(Len(q) + Len(r))
      BY <1>1
    <3> QED
      BY <1>5, <3>1
  <2> HIDE DEF j
  <2>2. s[i] = r[j] /\ j \in DOMAIN r
    BY <1>1, <1>2, <2>1
  <2> QED
    BY <1>3, <2>2 DEF Begins
<1> QED
  BY <1>1, <1>4, <1>5

LEMMA BeginsTail ==
    ASSUME NEW q \in Seq(CatPiece), q # <<>>, NEW N, Begins(q, N)
    PROVE  /\ Tail(q) \in Seq(CatPiece) /\ Head(q) \in CatPiece
           /\ Begins(Tail(q), N)
           /\ Head(q).part = "begin" => Head(q).of \in N \cup {0}
<1>1. /\ DOMAIN q = 1..Len(q) /\ Len(q) \in Nat \ {0} /\ DOMAIN Tail(q) = 1..(Len(q) - 1)
      /\ \A i \in 1..(Len(q) - 1) : Tail(q)[i] = q[i + 1]
      /\ Head(q) = q[1]
      /\ Tail(q) \in Seq(CatPiece) /\ Head(q) \in CatPiece
  OBVIOUS
<1>2. \A i \in 1..(Len(q) - 1) : i + 1 \in 1..Len(q)
  BY <1>1
<1> QED
  BY <1>1, <1>2 DEF Begins

LEMMA Grouped ==
    ASSUME NEW q \in Seq(CatPiece), NEW r \in Seq(CatPiece), NEW s \in Seq(CatPiece)
    PROVE  (q \o r) \o s = q \o (r \o s)
<1>1. /\ (q \o r) \o s \in Seq(CatPiece) /\ q \o (r \o s) \in Seq(CatPiece)
      /\ Len((q \o r) \o s) = Len(q \o (r \o s))
  OBVIOUS
<1>2. ASSUME NEW i \in 1..Len((q \o r) \o s) PROVE ((q \o r) \o s)[i] = (q \o (r \o s))[i]
  OBVIOUS
<1> QED
  BY <1>1, <1>2

LEMMA NothingSaid ==
    ASSUME NEW q \in Seq(CatPiece)
    PROVE  q \o <<>> = q /\ <<>> \o q = q /\ <<>> \in Seq(CatPiece)
  OBVIOUS

LEMMA FirstPiece ==
    ASSUME NEW q \in Seq(CatPiece), q # <<>>
    PROVE  /\ <<Head(q)>> \in Seq(CatPiece) /\ Tail(q) \in Seq(CatPiece)
           /\ <<Head(q)>> \o Tail(q) = q
<1>1. <<Head(q)>> \in Seq(CatPiece) /\ Tail(q) \in Seq(CatPiece)
  OBVIOUS
<1>2. /\ <<Head(q)>> \o Tail(q) \in Seq(CatPiece)
      /\ Len(<<Head(q)>> \o Tail(q)) = Len(q)
      /\ \A i \in 1..Len(q) : (<<Head(q)>> \o Tail(q))[i] = q[i]
  OBVIOUS
<1> QED
  BY <1>1, <1>2

(* What the radio says at once: nothing, a frame, or two.                   *)
LEMMA Frames ==
    ASSUME NEW k \in {"value", "other"}, NEW n \in Nat,
           k = "value" => n \in Cat!Command, k = "other" => n = 0
    PROVE  /\ Cat!Frame(k, n) \in Seq(CatPiece)
           /\ Paired(Cat!Frame(k, n))
           /\ Cat!Frame(k, n)[1].part = "begin"
           /\ \A N : n \in N \cup {0} => Begins(Cat!Frame(k, n), N)
<1> DEFINE b == Cat!Piece(k, n, "begin")
           e == Cat!Piece(k, n, "end")
<1>1. b \in CatPiece /\ e \in CatPiece /\ b.part = "begin" /\ e.part = "end" /\ b.of = n /\ e.of = n
  BY DEF Cat!Piece, CatPiece
<1> HIDE DEF b, e
<1>2. /\ <<b, e>> \in Seq(CatPiece) /\ Len(<<b, e>>) = 2 /\ DOMAIN <<b, e>> = 1..2
      /\ <<b, e>>[1] = b /\ <<b, e>>[2] = e
  BY <1>1
<1>3. Cat!Frame(k, n) = <<b, e>>
  BY DEF Cat!Frame, b, e
<1> QED
  BY <1>1, <1>2, <1>3 DEF Paired, Begins

(* An event is counted.                                                     *)
LEMMA Spent ==
    ASSUME Cat!ConstantsOK,
           spent \in [commands : 0..MaxCommands, status : 0..MaxStatus, errors : 0..MaxErrors],
           \/ Cat!Spend("commands", MaxCommands)
           \/ Cat!Spend("status", MaxStatus)
           \/ Cat!Spend("errors", MaxErrors)
    PROVE  /\ spent' \in [commands : 0..MaxCommands, status : 0..MaxStatus, errors : 0..MaxErrors]
           /\ Cat!Spend("commands", MaxCommands) => spent'.commands \in Cat!Command
<1>1. MaxCommands \in Nat /\ MaxStatus \in Nat /\ MaxErrors \in Nat
  BY DEF Cat!ConstantsOK
<1>2. /\ spent.commands \in 0..MaxCommands /\ spent.status \in 0..MaxStatus
      /\ spent.errors \in 0..MaxErrors
  OBVIOUS
<1>3. CASE Cat!Spend("commands", MaxCommands)
  <2>1. spent.commands < MaxCommands /\ spent' = [spent EXCEPT !.commands = @ + 1]
    BY <1>3 DEF Cat!Spend
  <2>2. spent.commands + 1 \in 0..MaxCommands /\ spent.commands + 1 \in Cat!Command
    BY <1>1, <1>2, <2>1 DEF Cat!Command
  <2> QED
    BY <2>1, <2>2
<1>4. CASE Cat!Spend("status", MaxStatus)
  <2>1. spent.status < MaxStatus /\ spent' = [spent EXCEPT !.status = @ + 1]
    BY <1>4 DEF Cat!Spend
  <2>2. spent.status + 1 \in 0..MaxStatus
    BY <1>1, <1>2, <2>1
  <2> QED
    BY <1>3, <2>1, <2>2
<1>5. CASE Cat!Spend("errors", MaxErrors)
  <2>1. spent.errors < MaxErrors /\ spent' = [spent EXCEPT !.errors = @ + 1]
    BY <1>5 DEF Cat!Spend
  <2>2. spent.errors + 1 \in 0..MaxErrors
    BY <1>1, <1>2, <2>1
  <2> QED
    BY <1>3, <2>1, <2>2
<1> QED
  BY <1>3, <1>4, <1>5

(* More is said: the line stays paired, and so do its parts.                *)
LEMMA MoreSaid ==
    ASSUME CatTyped, Paired(Line), NEW f \in Seq(CatPiece), Paired(f), f # <<>> => f[1].part = "begin"
    PROVE  /\ back \o f \in Seq(CatPiece)
           /\ Line \in Seq(CatPiece)
           /\ (buf \o inbox) \o (back \o f) = Line \o f
           /\ Paired((buf \o inbox) \o (back \o f))
<1>1. buf \o inbox \in Seq(CatPiece) /\ back \in Seq(CatPiece)
  BY Joined DEF CatTyped
<1>2. Line \in Seq(CatPiece) /\ back \o f \in Seq(CatPiece)
  BY <1>1, Joined DEF Line
<1>3. (buf \o inbox) \o (back \o f) = Line \o f
  BY <1>1, Grouped DEF Line
<1> QED
  BY <1>2, <1>3, PairedJoin

(* The radio's steps.                                                       *)
LEMMA CatRadioStep ==
    ASSUME Cat!ConstantsOK, CatInv, Cat!Radio \/ Cat!Status \/ Cat!Arrive
    PROVE  CatInv'
<1>0. /\ CatTyped /\ Paired(Line) /\ Expected /\ StaleOnlyInTransit
      /\ buf \in Seq(CatPiece) /\ inbox \in Seq(CatPiece) /\ back \in Seq(CatPiece)
      /\ out \in Seq(CatOrder) /\ Cat!Command \subseteq Nat
  BY DEF CatInv, CatTyped, Cat!Command
<1>1. ASSUME Cat!Radio PROVE CatInv'
  <2> DEFINE c == Head(out)
  <2>1. /\ out # <<>> /\ out' = Tail(out)
        /\ UNCHANGED <<port, asking, buf, inbox, reading, coming, spent>>
    BY <1>1 DEF Cat!Radio
  <2>2. c \in CatOrder /\ Tail(out) \in Seq(CatOrder)
    BY <1>0, <2>1
  <2>3. \A i \in DOMAIN Tail(out) : i + 1 \in DOMAIN out /\ Tail(out)[i] = out[i + 1]
    BY <1>0, <2>1
  <2>4. 1 \in DOMAIN out /\ c = out[1]
    BY <1>0, <2>1
  <2> DEFINE Sayable(f) == /\ f \in Seq(CatPiece) /\ Paired(f)
                           /\ f # <<>> => f[1].part = "begin"
                           /\ \A N : c.n \in N => Begins(f, N)
  <2>5. Sayable(<<>>) /\ Sayable(Cat!Other) /\ Sayable(Cat!Frame("value", c.n))
    <3>1. c.n \in Cat!Command
      BY <2>2 DEF CatOrder
    <3>2. Sayable(<<>>)
      BY NothingSaid DEF Paired, Begins
    <3>3. Sayable(Cat!Frame("value", c.n))
      BY <1>0, <3>1, Frames
    <3>4. Sayable(Cat!Other)
      BY Frames DEF Cat!Other
    <3> QED
      BY <3>2, <3>3, <3>4
  <2>6. PICK g \in Cat!GivenBack(c), a \in Cat!Answers(c) : back' = (back \o g) \o a
    BY <1>1 DEF Cat!Radio
  <2>7. Sayable(g) /\ Sayable(a)
    BY <2>5, <2>6 DEF Cat!GivenBack, Cat!Answers
  <2> HIDE DEF c
  <2>8. /\ back \o g \in Seq(CatPiece) /\ (back \o g) \o a \in Seq(CatPiece)
        /\ Line \in Seq(CatPiece)
        /\ (buf \o inbox) \o (back \o g) = Line \o g
        /\ Paired(Line \o g) /\ Line \o g \in Seq(CatPiece)
    BY <1>0, <2>7, MoreSaid, Joined
  <2>9. (buf \o inbox) \o ((back \o g) \o a) = (Line \o g) \o a
    <3>1. buf \o inbox \in Seq(CatPiece)
      BY <1>0, Joined
    <3>2. ((buf \o inbox) \o (back \o g)) \o a = (buf \o inbox) \o ((back \o g) \o a)
      <4>1. back \o g \in Seq(CatPiece) /\ a \in Seq(CatPiece)
        BY <2>7, <2>8
      <4> QED
        BY <3>1, <4>1, Grouped, Zenon
    <3> QED
      BY <2>8, <3>2
  <2>10. Paired((Line \o g) \o a)
    BY <2>7, <2>8, PairedJoin
  <2>11. Paired(Line)'
    BY <2>1, <2>6, <2>9, <2>10 DEF Line
  <2>12. CatTyped'
    BY <1>0, <2>1, <2>2, <2>6, <2>8 DEF CatTyped
  <2>13. Expected'
    <3> SUFFICES ASSUME asking # Nothing PROVE Expected'
      BY <2>1 DEF Expected
    <3> DEFINE N == coming \cup {asking}
    <3>1. c.n \in N
      BY <1>0, <2>4 DEF Expected
    <3>2. Begins(back, N)
      BY <1>0 DEF Expected
    <3> HIDE DEF N
    <3>3. Begins(g, N) /\ Begins(a, N)
      BY <2>7, <3>1
    <3>4. Begins((back \o g) \o a, N)
      BY <1>0, <2>7, <2>8, <3>2, <3>3, BeginsJoin
    <3> QED
      BY <1>0, <2>1, <2>3, <2>6, <3>4 DEF Expected, Begins, N
  <2> QED
    BY <1>0, <2>1, <2>11, <2>12, <2>13 DEF CatInv, StaleOnlyInTransit
<1>2. ASSUME Cat!Status PROVE CatInv'
  <2>1. back' = back \o Cat!Other /\ UNCHANGED <<port, asking, buf, inbox, out, reading, coming>>
        /\ Cat!Spend("status", MaxStatus)
    BY <1>2 DEF Cat!Status
  <2>2. /\ Cat!Other \in Seq(CatPiece) /\ Paired(Cat!Other) /\ Cat!Other[1].part = "begin"
        /\ \A N : Begins(Cat!Other, N)
    BY Frames DEF Cat!Other
  <2>3. back \o Cat!Other \in Seq(CatPiece) /\ Paired((buf \o inbox) \o (back \o Cat!Other))
    BY <1>0, <2>2, MoreSaid
  <2>4. Paired(Line)'
    BY <2>1, <2>3 DEF Line
  <2>5. spent' \in [commands : 0..MaxCommands, status : 0..MaxStatus, errors : 0..MaxErrors]
    BY <1>0, <2>1, Spent DEF CatTyped
  <2>6. CatTyped'
    BY <1>0, <2>1, <2>3, <2>5 DEF CatTyped
  <2>7. Expected'
    <3> SUFFICES ASSUME asking # Nothing PROVE Expected'
      BY <2>1 DEF Expected
    <3>1. Begins(back \o Cat!Other, coming \cup {asking})
      BY <1>0, <2>2, BeginsJoin DEF Expected
    <3> QED
      BY <1>0, <2>1, <3>1 DEF Expected, Begins
  <2> QED
    BY <1>0, <2>1, <2>4, <2>6, <2>7 DEF CatInv, StaleOnlyInTransit
<1>3. ASSUME Cat!Arrive PROVE CatInv'
  <2>1. /\ back # <<>> /\ back' = Tail(back)
        /\ inbox' = IF port THEN Append(inbox, Head(back)) ELSE inbox
        /\ UNCHANGED <<port, asking, buf, out, reading, coming, spent>>
    BY <1>3 DEF Cat!Arrive
  <2> DEFINE h == <<Head(back)>>
  <2>2. h \in Seq(CatPiece) /\ Tail(back) \in Seq(CatPiece) /\ h \o Tail(back) = back
    BY <1>0, <2>1, FirstPiece
  <2>3. Append(inbox, Head(back)) = inbox \o h
    BY <1>0
  <2> HIDE DEF h
  <2>4. CASE port
    <3>1. inbox' = inbox \o h /\ inbox \o h \in Seq(CatPiece)
      BY <1>0, <2>1, <2>2, <2>3, <2>4, Joined
    <3>2. /\ buf \o (inbox \o h) = (buf \o inbox) \o h /\ buf \o inbox \in Seq(CatPiece)
          /\ ((buf \o inbox) \o h) \o Tail(back) = (buf \o inbox) \o (h \o Tail(back))
      <4>1. buf \o inbox \in Seq(CatPiece)
        BY <1>0, Joined
      <4>2. buf \o (inbox \o h) = (buf \o inbox) \o h
        BY <1>0, <2>2, Grouped
      <4>3. ((buf \o inbox) \o h) \o Tail(back) = (buf \o inbox) \o (h \o Tail(back))
        BY <2>2, <4>1, Grouped
      <4> QED
        BY <4>1, <4>2, <4>3
    <3>3. Line' = Line
      BY <2>1, <2>2, <3>1, <3>2 DEF Line
    <3>4. CatTyped'
      BY <1>0, <2>1, <2>2, <2>4, <3>1 DEF CatTyped
    <3>5. Expected'
      <4> SUFFICES ASSUME asking # Nothing PROVE Expected'
        BY <2>1 DEF Expected
      <4> DEFINE N == coming \cup {asking}
      <4>1. Begins(back, N) /\ Begins(inbox, N)
        BY <1>0 DEF Expected
      <4> HIDE DEF N
      <4>2. Begins(Tail(back), N) /\ (Head(back).part = "begin" => Head(back).of \in N \cup {0})
        BY <1>0, <2>1, <4>1, BeginsTail
      <4>3. Begins(h, N)
        BY <4>2 DEF h, Begins
      <4>4. Begins(inbox \o h, N)
        BY <1>0, <2>2, <4>1, <4>3, BeginsJoin
      <4> QED
        BY <1>0, <2>1, <3>1, <4>2, <4>4 DEF Expected, N, Begins
    <3> QED
      BY <1>0, <2>1, <3>3, <3>4, <3>5 DEF CatInv, StaleOnlyInTransit
  <2>5. CASE ~port
    <3>1. inbox = <<>> /\ inbox' = <<>> /\ asking = Nothing /\ buf = <<>>
      BY <1>0, <2>1, <2>5 DEF CatTyped
    <3>2. Line = back /\ Line' = Tail(back)
      BY <1>0, <2>1, <2>2, <3>1, NothingSaid DEF Line
    <3>3. Paired(h \o Tail(back))
      BY <1>0, <2>2, <3>2
    <3>4. Paired(Line)'
      BY <2>2, <3>2, <3>3, PairedParts
    <3>5. CatTyped'
      BY <1>0, <2>1, <2>2, <3>1, <2>5 DEF CatTyped
    <3>6. Expected'
      BY <2>1, <3>1 DEF Expected
    <3> QED
      BY <1>0, <2>1, <3>4, <3>5, <3>6 DEF CatInv, StaleOnlyInTransit
  <2> QED
    BY <2>4, <2>5
<1> QED
  BY <1>1, <1>2, <1>3

(* The reader's steps.                                                      *)
LEMMA CatReaderStep ==
    ASSUME Cat!ConstantsOK, CatInv,
           \/ Cat!OpenFails \/ Cat!Query \/ Cat!Set \/ Cat!WriteFails \/ Cat!Read \/ Cat!ReadFails
           \/ Cat!GiveUp \/ Cat!Close \/ UNCHANGED Cat!vars
    PROVE  CatInv'
<1>0. /\ CatTyped /\ Paired(Line) /\ Expected /\ StaleOnlyInTransit
      /\ buf \in Seq(CatPiece) /\ inbox \in Seq(CatPiece) /\ back \in Seq(CatPiece)
      /\ out \in Seq(CatOrder) /\ Cat!Command \subseteq Nat
      /\ spent \in [commands : 0..MaxCommands, status : 0..MaxStatus, errors : 0..MaxErrors]
  BY DEF CatInv, CatTyped, Cat!Command
<1>1. /\ buf \o inbox \in Seq(CatPiece) /\ <<>> \o back = back
      /\ <<>> \o <<>> = <<>> /\ <<>> \in Seq(CatPiece)
      /\ <<>> \o (inbox \o back) = (<<>> \o inbox) \o back
      /\ (buf \o inbox) \o <<>> = buf \o inbox
      /\ inbox \o back \in Seq(CatPiece)
      /\ <<>> \o inbox = inbox
  BY <1>0, NothingSaid, Joined
<1>2. Paired(back) /\ Paired(buf \o inbox)
  BY <1>0, <1>1, PairedParts DEF Line
<1>3. Paired(inbox \o back)
  <2>1. Line = buf \o (inbox \o back)
    BY <1>0, Grouped DEF Line
  <2> QED
    BY <1>0, <1>1, <2>1, PairedParts
<1>4. ASSUME Cat!Spend("commands", MaxCommands)
      PROVE  /\ spent' \in [commands : 0..MaxCommands, status : 0..MaxStatus, errors : 0..MaxErrors]
             /\ spent'.commands \in Cat!Command
  BY <1>0, <1>4, Spent
<1>5. ASSUME Cat!Spend("errors", MaxErrors)
      PROVE  spent' \in [commands : 0..MaxCommands, status : 0..MaxStatus, errors : 0..MaxErrors]
  BY <1>0, <1>5, Spent
<1>6. ASSUME Cat!OpenFails PROVE CatInv'
  <2>1. UNCHANGED <<port, asking, buf, inbox, out, back, reading, coming>> /\ Cat!Spend("errors", MaxErrors)
    BY <1>6 DEF Cat!OpenFails
  <2>2. CatTyped'
    BY <1>0, <1>5, <2>1 DEF CatTyped
  <2> QED
    BY <1>0, <2>1, <2>2 DEF CatInv, Line, Expected, StaleOnlyInTransit
<1>7. ASSUME Cat!Query PROVE CatInv'
  <2> DEFINE o == [n |-> asking', cmd |-> "query"]
  <2>1. /\ asking = Nothing /\ Cat!Spend("commands", MaxCommands) /\ asking' = spent'.commands
        /\ port' = TRUE /\ buf' = <<>> /\ inbox' = <<>> /\ out' = Append(out, o)
        /\ coming' = Cat!Unheard /\ reading' = Nothing /\ back' = back
    BY <1>7 DEF Cat!Query
  <2>2. asking' \in Cat!Command
    BY <1>4, <2>1
  <2>3. o \in CatOrder
    BY <2>2 DEF CatOrder
  <2>4. Append(out, o) \in Seq(CatOrder)
        /\ \A i \in DOMAIN Append(out, o) : (i \in DOMAIN out /\ Append(out, o)[i] = out[i])
                                            \/ Append(out, o)[i] = o
    BY <1>0, <2>3
  <2>5. \A i \in DOMAIN back : back[i] \in CatPiece
    BY <1>0
  <2>6. \A i \in DOMAIN out : out[i].n \in Cat!Command
    <3>1. \A i \in DOMAIN out : out[i] \in CatOrder
      BY <1>0
    <3> QED
      BY <3>1 DEF CatOrder
  <2>7. Cat!Unheard \subseteq Cat!Command \cup {0}
    BY <2>5, <2>6 DEF Cat!Unheard, CatPiece
  <2> HIDE DEF o
  <2>8. CatTyped'
    BY <1>0, <1>1, <1>4, <2>1, <2>2, <2>4, <2>7 DEF CatTyped
  <2>9. Begins(back, coming')
    BY <2>1 DEF Begins, Cat!Unheard
  <2>10. \A i \in DOMAIN out : out[i].n \in coming'
    BY <2>1 DEF Cat!Unheard
  <2>11. \A i \in DOMAIN out' : out'[i].n \in coming' \cup {asking'}
    BY <2>1, <2>4, <2>10 DEF o
  <2>12. Expected'
    BY <2>1, <2>9, <2>11 DEF Expected, Begins
  <2>13. Line' = back
    BY <1>1, <2>1 DEF Line
  <2>14. Paired(Line)'
    BY <1>2, <2>13
  <2> QED
    BY <2>1, <2>8, <2>12, <2>14 DEF CatInv, StaleOnlyInTransit
<1>8. ASSUME Cat!Set PROVE CatInv'
  <2> DEFINE o == [n |-> spent'.commands, cmd |-> "set"]
  <2>1. /\ asking = Nothing /\ Cat!Spend("commands", MaxCommands)
        /\ port' = TRUE /\ out' = Append(out, o)
        /\ UNCHANGED <<asking, buf, inbox, back, reading, coming>>
    BY <1>8 DEF Cat!Set
  <2>2. o \in CatOrder
    BY <1>4, <2>1 DEF CatOrder
  <2>3. Append(out, o) \in Seq(CatOrder)
    BY <1>0, <2>2
  <2> HIDE DEF o
  <2>4. CatTyped'
    BY <1>0, <1>4, <2>1, <2>3 DEF CatTyped
  <2> QED
    BY <1>0, <2>1, <2>4 DEF CatInv, Line, Expected, StaleOnlyInTransit
<1>9. ASSUME Cat!WriteFails \/ Cat!ReadFails \/ Cat!Close PROVE CatInv'
  <2>1. /\ port' = FALSE /\ inbox' = <<>> /\ asking' = Nothing /\ buf' = <<>>
        /\ UNCHANGED <<out, back, reading, coming>>
        /\ Cat!Spend("errors", MaxErrors) \/ spent' = spent
    BY <1>0, <1>9 DEF Cat!WriteFails, Cat!ReadFails, Cat!Close, Cat!Reset, CatTyped
  <2>2. CatTyped'
    BY <1>0, <1>1, <1>5, <2>1 DEF CatTyped
  <2>3. Line' = back
    BY <1>1, <2>1 DEF Line
  <2> QED
    BY <1>0, <1>2, <2>1, <2>2, <2>3 DEF CatInv, Expected, StaleOnlyInTransit
<1>10. ASSUME Cat!Read PROVE CatInv'
  <2> DEFINE b == buf \o inbox
             N == coming \cup {asking}
  <2>1. /\ asking # Nothing /\ inbox' = <<>> /\ UNCHANGED <<port, out, back, coming, spent>>
        /\ \/ Cat!Replies(b) = {} /\ buf' = b /\ UNCHANGED <<asking, reading>>
           \/ /\ Cat!Replies(b) # {}
              /\ reading' = [query |-> asking, of |-> b[Cat!Min(Cat!Replies(b))].of]
              /\ asking' = Nothing /\ buf' = <<>>
    BY <1>10 DEF Cat!Read
  <2>2. Begins(buf, N) /\ Begins(inbox, N) /\ Begins(back, N)
    BY <1>0, <2>1 DEF Expected
  <2>3. Begins(b, N)
    BY <1>0, <2>2, BeginsJoin
  <2>4. CASE Cat!Replies(b) = {}
    <3>1. buf' = b /\ UNCHANGED <<asking, reading>>
      BY <2>1, <2>4
    <3>2. Line' = Line
      BY <1>1, <2>1, <3>1 DEF Line
    <3>3. CatTyped'
      BY <1>0, <1>1, <2>1, <3>1 DEF CatTyped
    <3>4. Expected'
      <4>1. Begins(b, coming' \cup {asking'}) /\ Begins(back', coming' \cup {asking'})
        BY <2>1, <2>2, <2>3, <3>1
      <4>2. Begins(inbox', coming' \cup {asking'})
        BY <2>1 DEF Begins
      <4> QED
        BY <1>0, <2>1, <3>1, <4>1, <4>2 DEF Expected, Begins
    <3> QED
      BY <1>0, <2>1, <3>1, <3>2, <3>3, <3>4 DEF CatInv, StaleOnlyInTransit
  <2>5. CASE Cat!Replies(b) # {}
    <3> DEFINE n == b[Cat!Min(Cat!Replies(b))].of
    <3>1. n \in Cat!Command \cap N
      BY <1>1, <1>2, <2>3, <2>5, ReplyWhole, Zenon
    <3> HIDE DEF n
    <3>2. reading' = [query |-> asking, of |-> n] /\ asking' = Nothing /\ buf' = <<>>
      BY <2>1, <2>5 DEF n
    <3>3. asking \in Cat!Command
      BY <1>0, <2>1 DEF CatTyped
    <3>4. CatTyped'
      BY <1>0, <1>1, <2>1, <3>1, <3>2, <3>3 DEF CatTyped
    <3>5. Line' = back
      BY <1>1, <2>1, <3>2 DEF Line
    <3>6. StaleOnlyInTransit'
      BY <2>1, <3>1, <3>2 DEF StaleOnlyInTransit
    <3> QED
      BY <1>2, <3>2, <3>4, <3>5, <3>6 DEF CatInv, Expected
  <2> QED
    BY <2>4, <2>5
<1>11. ASSUME Cat!GiveUp PROVE CatInv'
  <2>1. asking' = Nothing /\ buf' = <<>> /\ UNCHANGED <<port, inbox, out, back, reading, coming, spent>>
    BY <1>11 DEF Cat!GiveUp
  <2>2. Line' = inbox \o back
    BY <1>1, <2>1 DEF Line
  <2>3. CatTyped'
    BY <1>0, <1>1, <2>1 DEF CatTyped
  <2> QED
    BY <1>0, <1>3, <2>1, <2>2, <2>3 DEF CatInv, Expected, StaleOnlyInTransit
<1>12. ASSUME UNCHANGED Cat!vars PROVE CatInv'
  <2>1. UNCHANGED <<port, asking, buf, inbox, out, back, reading, coming, spent>>
    BY <1>12 DEF Cat!vars
  <2> QED
    BY <1>0, <2>1 DEF CatInv, CatTyped, Line, Expected, StaleOnlyInTransit
<1> QED
  BY <1>6, <1>7, <1>8, <1>9, <1>10, <1>11, <1>12

LEMMA CatAlways == ASSUME Cat!ConstantsOK PROVE Cat!Spec => []CatInv
<1>1. Cat!Init => CatInv
  <2> SUFFICES ASSUME Cat!Init PROVE CatInv
    OBVIOUS
  <2>1. CatTyped
    <3>1. spent \in [commands : 0..MaxCommands, status : 0..MaxStatus, errors : 0..MaxErrors]
      <4>1. MaxCommands \in Nat /\ MaxStatus \in Nat /\ MaxErrors \in Nat
        BY DEF Cat!ConstantsOK
      <4>2. 0 \in 0..MaxCommands /\ 0 \in 0..MaxStatus /\ 0 \in 0..MaxErrors
        BY <4>1
      <4>3. spent = [commands |-> 0, status |-> 0, errors |-> 0]
        BY DEF Cat!Init
      <4> QED
        BY <4>2, <4>3
    <3>2. <<>> \in Seq(CatPiece) /\ <<>> \in Seq(CatOrder)
      OBVIOUS
    <3> QED
      BY <3>1, <3>2 DEF Cat!Init, CatTyped
  <2>2. Line = <<>>
    BY NothingSaid DEF Cat!Init, Line
  <2>3. Paired(Line)
    BY <2>2 DEF Paired
  <2>4. Expected /\ StaleOnlyInTransit
    BY DEF Cat!Init, Expected, StaleOnlyInTransit
  <2> QED
    BY <2>1, <2>3, <2>4 DEF CatInv
<1>2. CatInv /\ [Cat!Next]_Cat!vars => CatInv'
  BY CatRadioStep, CatReaderStep DEF Cat!Next
<1> QED
  BY <1>1, <1>2, PTL DEF Cat!Spec

(* Every variable of the CAT port has its type; a read holds an open port,  *)
(* and what it has of one query is gone before the next.                    *)
THEOREM CatTypeCorrect == ASSUME Cat!ConstantsOK PROVE Cat!Spec => []Cat!TypeOK
<1>1. CatPiece \subseteq Cat!Segments /\ CatOrder = [n : Cat!Command, cmd : {"query", "set"}]
  BY DEF CatPiece, CatOrder, Cat!Segments
<1>2. \A q \in Seq(CatPiece) : q \in Seq(Cat!Segments)
  BY <1>1
<1>3. CatInv => Cat!TypeOK
  BY <1>1, <1>2 DEF CatInv, CatTyped, Cat!TypeOK
<1> QED
  BY <1>3, CatAlways, PTL

(* helper/serial.go: a reading is a whole answer, to its own query or to a  *)
(* command whose answer was still on its way when the query was sent,       *)
(* however late answers come, whatever is given back or sent unasked, and   *)
(* however often the port fails, is closed or times out.                    *)
THEOREM ReadingIsAnAnswer ==
    ASSUME Cat!ConstantsOK PROVE Cat!Spec => []StaleOnlyInTransit
<1>1. CatInv => StaleOnlyInTransit
  BY DEF CatInv
<1> QED
  BY <1>1, CatAlways, PTL
=============================================================================
