------------------------------- MODULE MCLive -------------------------------
(***************************************************************************)
(* The TLC instance of the liveness of POSTs, of IQ sources and of the     *)
(* page's frequency overlay, and of the goroutines that write WebSocket    *)
(* frames: setting says whether WsWrite is looked at, SourceSwap, the      *)
(* SpyServer client or PageMeta.  The variables of the others keep their   *)
(* initial values.                                                         *)
(***************************************************************************)
EXTENDS WsWrite, Overlay, Sequences

CONSTANTS
    w1, w2, w3,                      \* WsWrite
    p1, p2, k1, boot, poll, com, a1, \* SourceSwap
    source, s1, s2

ThreeWriters == {w1, w2, w3}

VARIABLES
    setting,
    up, iqMode, src, cfg, conf, handle, br, smu, pc, use, draft, file, closed,
    installed, wused,                                                       \* SourceSwap
    spc, conn, alive, spyHz, canControl, announced, req, half, wire, torn, server,
    syncs, told, sused,                                                     \* SpyServer
    frames, asked, dial, oused                                              \* PageMeta

(* Two POSTs and a steering Bridge on one serial port.                      *)
Defaults == [source |-> "serial", port |-> None, addr |-> a1]
W == INSTANCE SourceSwap
    WITH Post <- {p1, p2}, Steer <- {k1}, Poll <- poll, Boot <- boot, Port <- {com},
         Addr <- {a1}, Body <- {[source |-> "serial", port |-> com, addr |-> None]},
         Default <- Defaults, MaxSteers <- 1, MaxFailures <- 0, MaxStops <- 0,
         mu <- smu, used <- wused

swapVars ==
    <<up, iqMode, src, cfg, conf, handle, br, smu, pc, use, draft, file, closed,
      installed, wused>>

(* A server that moves once and drops two connections.                      *)
S == INSTANCE SpyServer
    WITH Start <- source, Tuner <- {}, Freq <- {98, 104}, Initial <- 98, Confirms <- FALSE,
         MaxTunes <- 0, MaxMoves <- 1, MaxDrops <- 2,
         pc <- spc, used <- sused, centerHz <- spyHz, garbled <- torn

spyVars ==
    <<spc, conn, alive, spyHz, canControl, announced, req, half, wire, torn, server,
      syncs, told, sused>>

(* Two connections, one of which may drop; frequencies 0 and 1 are one      *)
(* station, 9 is another.                                                   *)
O == INSTANCE PageMeta
    WITH Socket <- {s1, s2}, Freq <- {0, 1, 9}, Station <- 5, Queue <- 2,
         MaxMoves <- 1, MaxTunes <- 1, MaxDrops <- 1,
         wire <- frames, used <- oused

overlayVars == <<gws, gctl, vfo, pend, gbuttons, gconn, frames, asked, dial, twice, oused>>

allVars == <<setting, vars, swapVars, spyVars, overlayVars>>

ASSUME LiveConstantsOK == W!ConstantsOK /\ S!ConstantsOK /\ O!ConstantsOK

------------------------------------------------------------------------------
MCInit ==
    /\ setting \in {"write", "swap", "spy", "overlay"}
    /\ Init /\ W!Init /\ S!Init /\ O!Init
    /\ setting # "swap" => cfg = Defaults
    /\ setting # "spy" => server = [iq |-> 98, fft |-> 98, control |-> FALSE]
    /\ dial \in IF setting = "overlay" THEN {0, 9} ELSE {0}

(* Writers come to rest at their bounds, the SpyServer client may in front  *)
(* of a silent server, the page without a connection.                       *)
MCNext ==
    /\ UNCHANGED setting
    /\ \/ setting = "write" /\ Next /\ UNCHANGED <<swapVars, spyVars, overlayVars>>
       \/ setting = "swap" /\ W!Next /\ UNCHANGED <<vars, spyVars, overlayVars>>
       \/ setting = "spy" /\ S!Next /\ UNCHANGED <<vars, swapVars, overlayVars>>
       \/ setting = "overlay" /\ O!Next /\ UNCHANGED <<vars, swapVars, spyVars>>
       \/ setting # "swap" /\ UNCHANGED <<vars, swapVars, spyVars, overlayVars>>

(* The fairness of the modules, each in its setting.                        *)
SwapFairness ==
    /\ WF_swapVars(setting = "swap" /\ W!PollStep)
    /\ \A k \in {k1} : /\ WF_swapVars(setting = "swap" /\ W!SerialStep(k))
                       /\ SF_swapVars(setting = "swap" /\ W!Lock(k))
    /\ \A r \in {p1, p2} : /\ WF_swapVars(setting = "swap" /\ W!PostStep(r))
                           /\ SF_swapVars(setting = "swap" /\ W!CloseSerial(r))

SpyFairness == WF_spyVars(setting = "spy" /\ S!Source)

OverlayFairness ==
    /\ WF_overlayVars(setting = "overlay" /\ O!Settle)
    /\ WF_overlayVars(setting = "overlay" /\ O!Told)
    /\ WF_overlayVars(setting = "overlay" /\ O!Tuned)
    /\ \A s \in {s1, s2} : WF_overlayVars(setting = "overlay" /\ O!Arrives(s))

MCSpec ==
    /\ MCInit
    /\ [][MCNext]_allVars
    /\ SwapFairness
    /\ SpyFairness
    /\ OverlayFairness

------------------------------------------------------------------------------
(* The properties of the instances; FramesWhole of WsWrite and OverlayOwned *)
(* of Overlay go by their names.                                            *)

(* web.go: a POST is answered, although its close waits for a read.         *)
PostsAnswered == setting = "swap" => W!PostsAnswered

(* spyserver.go: the source comes back and streams.                         *)
Recovers == setting = "spy" => S!Recovers

(* Every variable of the setting looked at has its type.                    *)
LiveTypeOK ==
    CASE setting = "write"   -> TypeOK
      [] setting = "swap"    -> W!TypeOK
      [] setting = "spy"     -> S!TypeOK
      [] setting = "overlay" -> O!TypeOK

(* index.html: the overlay comes to name the station of the dial.           *)
OverlayFollows == setting = "overlay" => O!OverlayFollows
=============================================================================
