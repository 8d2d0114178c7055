----------------------------- MODULE ConfigPage -----------------------------
(***************************************************************************)
(* The helper's config page: the script of configHTML in helper/web.go, the*)
(* handlers it calls, and the poll loop whose readings /status reports.    *)
(*                                                                         *)
(* The page is one thread; fetch replies come back in any order, each in a *)
(* slot of its own.  handleStatus is two steps, one per lock it takes, the *)
(* other handlers one step (how overlapping POSTs interleave is module     *)
(* SourceSwap).  The address fields, which a POST keeps when they are empty*)
(* (Merge of SourceSwap), are left out, and so are texts and colours.      *)
(***************************************************************************)
EXTENDS PageSays

CONSTANTS
    Port,          \* serial ports
    Slots,         \* bound: requests in flight
    Saved,         \* the configs the first launch may find
    Answering,     \* sets of kinds of source that may be the ones that answer
    Plan           \* bound: how many edits, applies, refreshes, stops (by /quit
                   \* or a crash), plugs and lost saves may happen

Kind   == {"serial", "rigctld", "iq"}
Config == [source : Kind, port : Port \cup {Nothing}]
Slot   == 1..Slots
Event  == {"edits", "applies", "refreshes", "stops", "plugs", "losses"}

ConstantsOK ==
    /\ Nothing \notin Port \cup Config
    /\ Slots \in Nat
    /\ Saved \subseteq Config
    /\ Answering \subseteq SUBSET (Kind \ {"iq"})
    /\ Plan \subseteq [Event -> Nat]

VARIABLES
    iqMode,   \* h.iqMode
    err,      \* h.lastErr: the source whose read failed
    have,     \* h.have and h.cur: the source the shown frequency is from
    poll,     \* the poll loop: the source it reads, and how far it is
    plugged,  \* the serial ports there are
    good,     \* the kinds of source that answer
    title     \* what the page shows: [text, of, about]

helperVars == <<up, iqMode, live, src, err, have, poll, saved>>
worldVars  == <<plugged, good>>
pageVars   == <<form, options, formInit, halted, title, note>>
ghostVars  == <<posted, racing, left>>
vars == <<helperVars, worldVars, pageVars, call, ghostVars>>

------------------------------------------------------------------------------
(* Requests.                                                                *)

Busy(kind) == \E k \in Slot : call[k] # Nothing /\ call[k].kind = kind

(* fetch, in the first free slot.                                           *)
Fetch(kind, arg) ==
    \E k \in Slot :
        /\ call[k] = Nothing /\ \A j \in 1..(k - 1) : call[j] # Nothing
        /\ call' = [call EXCEPT ![k] = [kind |-> kind, arg |-> arg, at |-> "sent",
                                        reply |-> Nothing]]

Asked(k, kind, at) == call[k] # Nothing /\ call[k].kind = kind /\ call[k].at = at

Answer(k, at, r) == call' = [call EXCEPT ![k].at = at, ![k].reply = r]

Spend(b) == left[b] > 0 /\ left' = [left EXCEPT ![b] = @ - 1]

------------------------------------------------------------------------------
(* The poll loop of the meta lane.                                          *)

PollTake ==
    /\ Serving /\ ~iqMode /\ poll = Nothing /\ src # Nothing
    /\ poll' = [src |-> src, at |-> "read", old |-> FALSE]
    /\ UNCHANGED <<up, iqMode, live, src, err, have, saved, worldVars, pageVars, call,
                   ghostVars>>

(* A read of a source that was replaced meanwhile ends either way.          *)
PollFails ==
    /\ Serving /\ poll # Nothing /\ poll.at = "read"
    /\ poll.old \/ poll.src.source \notin good
    /\ err' = poll.src
    /\ poll' = Nothing
    /\ UNCHANGED <<up, iqMode, live, src, have, saved, worldVars, pageVars, call, ghostVars>>

(* Mutant of PollClears: the error of an earlier read stays.                *)
PollClearsNothing ==
    /\ Serving /\ poll # Nothing /\ poll.at = "read"
    /\ poll.old \/ poll.src.source \in good
    /\ poll' = [poll EXCEPT !.at = "tick"]
    /\ UNCHANGED <<up, iqMode, live, src, err, have, saved, worldVars, pageVars, call, ghostVars>>

(* h.setErr("")                                                             *)
PollClears ==
    /\ Serving /\ poll # Nothing /\ poll.at = "read"
    /\ poll.old \/ poll.src.source \in good
    /\ err' = Nothing
    /\ poll' = [poll EXCEPT !.at = "tick"]
    /\ UNCHANGED <<up, iqMode, live, src, have, saved, worldVars, pageVars, call, ghostVars>>

(* h.tick(hz)                                                               *)
PollTicks ==
    /\ Serving /\ poll # Nothing /\ poll.at = "tick"
    /\ have' = poll.src
    /\ poll' = Nothing
    /\ UNCHANGED <<up, iqMode, live, src, err, saved, worldVars, pageVars, call, ghostVars>>

------------------------------------------------------------------------------
(* The handlers.                                                            *)

(* statusSnapshot: config, error and label under h.srcMu.                   *)
StatusSource(k) ==
    /\ Serving /\ Asked(k, "status", "sent")
    /\ Answer(k, "half", [of |-> live, err |-> err])
    /\ UNCHANGED <<helperVars, worldVars, pageVars, ghostVars>>

(* statusSnapshot: cur, have and the clients under h.mu; then the reply.    *)
StatusFreq(k) ==
    /\ Serving /\ Asked(k, "status", "half")
    /\ Answer(k, "back", [of |-> call[k].reply.of, err |-> call[k].reply.err,
                          have |-> have])
    /\ UNCHANGED <<helperVars, worldVars, pageVars, ghostVars>>

Ports(k) ==
    /\ Serving /\ Asked(k, "ports", "sent")
    /\ Answer(k, "back", plugged)
    /\ UNCHANGED <<helperVars, worldVars, pageVars, ghostVars>>

(* buildSource refuses only a serial source without a port.                 *)
Buildable(c) == c.source = "serial" => c.port # Nothing

(* Mutant of Saving: the error of saveConfig is dropped.                     *)
SavingSilently(k, done, failed) ==
    \/ saved' = call[k].arg /\ Answer(k, "back", done) /\ UNCHANGED left
    \/ UNCHANGED saved /\ Spend("losses") /\ Answer(k, "back", done)

(* saveConfig, which may fail, and the reply.                               *)
Saving(k, done, failed) ==
    \/ saved' = call[k].arg /\ Answer(k, "back", done) /\ UNCHANGED left
    \/ UNCHANGED saved /\ Spend("losses") /\ Answer(k, "back", failed)

(* A change that involves the IQ lane is only saved; the others swap the    *)
(* source and are saved.                                                    *)
HandleConfig(k) ==
    /\ Serving /\ Asked(k, "config", "sent")
    /\ LET c == call[k].arg
       IN \/ /\ iqMode \/ c.source = "iq"
             /\ Saving(k, "restart", "refused")
             /\ UNCHANGED <<live, src, err, poll>>
          \/ /\ ~iqMode /\ c.source # "iq" /\ ~Buildable(c)
             /\ Answer(k, "back", "refused")
             /\ UNCHANGED <<live, src, err, poll, saved, left>>
          \/ /\ ~iqMode /\ c.source # "iq" /\ Buildable(c)
             /\ live' = c /\ src' = c /\ err' = Nothing
             /\ poll' = IF poll = Nothing THEN Nothing ELSE [poll EXCEPT !.old = TRUE]
             /\ Saving(k, "applied", "unsaved")
    /\ UNCHANGED <<up, iqMode, have, worldVars, pageVars, posted, racing>>

(* The close of a rigctld source whose read fails at the same time may find *)
(* no connection where it had found one: net/http recovers the panic, and   *)
(* nothing is saved or answered (Panic of SourceSwap).                      *)
AbortConfig(k) ==
    /\ Serving /\ Asked(k, "config", "sent")
    /\ ~iqMode /\ call[k].arg.source # "iq" /\ Buildable(call[k].arg)
    /\ poll # Nothing /\ poll.at = "read" /\ ~poll.old
    /\ poll.src.source = "rigctld" /\ "rigctld" \notin good
    /\ live' = call[k].arg /\ src' = call[k].arg /\ err' = Nothing
    /\ poll' = [poll EXCEPT !.old = TRUE]
    /\ Answer(k, "failed", Nothing)
    /\ UNCHANGED <<up, iqMode, have, saved, worldVars, pageVars, ghostVars>>

(* handleQuit: the reply, and the process ends a little later.              *)
HandleQuit(k) ==
    /\ Serving /\ Asked(k, "quit", "sent")
    /\ Answer(k, "back", Nothing)
    /\ up' = "quitting"
    /\ UNCHANGED <<iqMode, live, src, err, have, poll, saved, worldVars, pageVars, ghostVars>>

(* Nobody answers a request once the process is gone.                       *)
Refuse(k) ==
    /\ ~Serving
    /\ call[k] # Nothing /\ call[k].at \in {"sent", "half"}
    /\ Answer(k, "failed", Nothing)
    /\ UNCHANGED <<helperVars, worldVars, pageVars, ghostVars>>

------------------------------------------------------------------------------
(* The process.                                                             *)

Exit ==
    /\ up = "quitting"
    /\ up' = "stopped"
    /\ UNCHANGED <<iqMode, live, src, err, have, poll, saved, worldVars, pageVars, call,
                   ghostVars>>

Crash ==
    /\ up = "running"
    /\ up' = "stopped"
    /\ Spend("stops")
    /\ UNCHANGED <<iqMode, live, src, err, have, poll, saved, worldVars, pageVars, call,
                   posted, racing>>

Blank == [text |-> "starting", of |-> Nothing, about |-> Nothing]

NoForm == [source |-> "serial", port |-> Nothing]

Boot(c) ==
    /\ iqMode' = (c.source = "iq")
    /\ src' = IF c.source # "iq" /\ Buildable(c) THEN c ELSE Nothing

(* main, after the process has ended.  A page that was stopped for good     *)
(* gives way to the one main opens; another goes on asking the new process. *)
(* Launching takes longer than a refused request takes to come back.        *)
Relaunch ==
    /\ up = "stopped" /\ ~Busy("quit")
    /\ up' = "running"
    /\ live' = saved
    /\ Boot(saved)
    /\ err' = Nothing /\ have' = Nothing /\ poll' = Nothing
    /\ IF halted
         THEN /\ form' = NoForm /\ options' = {} /\ formInit' = FALSE /\ halted' = FALSE
              /\ title' = Blank /\ note' = "none"
              /\ call' = [k \in Slot |-> Nothing]
         ELSE UNCHANGED <<pageVars, call>>
    /\ UNCHANGED <<saved, worldVars, ghostVars>>

Plug ==
    /\ Spend("plugs")
    /\ \E p \in Port : plugged' = IF p \in plugged THEN plugged \ {p} ELSE plugged \cup {p}
    /\ UNCHANGED <<helperVars, good, pageVars, call, posted, racing>>

------------------------------------------------------------------------------
(* The page: what the user does.                                            *)

Edit ==
    /\ Spend("edits")
    /\ \/ \E s \in Kind \ {form.source} : form' = [form EXCEPT !.source = s]
       \/ \E p \in options \ {form.port} : form' = [form EXCEPT !.port = p]
    /\ UNCHANGED <<helperVars, worldVars, options, formInit, halted, title, note, call,
                   posted, racing>>

(* Mutant of Refresh: it selects the port of the helper's config.           *)
RefreshSeeds ==
    /\ Spend("refreshes")
    /\ Fetch("ports", Nothing)
    /\ form' = [form EXCEPT !.port = live.port]
    /\ UNCHANGED <<helperVars, worldVars, options, formInit, halted, title, note, posted,
                   racing>>

Refresh ==
    /\ Spend("refreshes")
    /\ Fetch("ports", Nothing)
    /\ UNCHANGED <<helperVars, worldVars, pageVars, posted, racing>>

Apply ==
    /\ ~halted
    /\ Spend("applies")
    /\ note' = "applying"
    /\ posted' = form
    /\ racing' = Busy("config")
    /\ Fetch("config", form)
    /\ UNCHANGED <<helperVars, worldVars, form, options, formInit, halted, title>>

ClickQuit ==
    /\ ~halted /\ ~Busy("quit")
    /\ Spend("stops")
    /\ Fetch("quit", Nothing)
    /\ UNCHANGED <<helperVars, worldVars, pageVars, posted, racing>>

(* setInterval(tick, 1500): it does not wait for the last reply.            *)
Tick ==
    /\ ~halted
    /\ Fetch("status", Nothing)
    /\ UNCHANGED <<helperVars, worldVars, pageVars, ghostVars>>

------------------------------------------------------------------------------
(* The page: what comes back.                                               *)

(* paint                                                                    *)
Painted(s) ==
    IF s.err # Nothing THEN [text |-> "error", of |-> s.of, about |-> s.err]
    ELSE IF s.have # Nothing THEN [text |-> "connected", of |-> s.of, about |-> s.have]
    ELSE [text |-> "waiting", of |-> s.of, about |-> Nothing]

(* applyStatusToForm, then paint: the first reply seeds the form and asks   *)
(* for the ports, in the slot of the request that is over.                  *)
OnStatus(k) ==
    /\ Asked(k, "status", "back")
    /\ title' = Painted(call[k].reply)
    /\ formInit' = TRUE
    /\ LET c == call[k].reply.of
       IN IF formInit
            THEN call' = [call EXCEPT ![k] = Nothing] /\ UNCHANGED form
            ELSE /\ form' = [form EXCEPT !.source = c.source]
                 /\ call' = [call EXCEPT ![k] = [kind |-> "ports", arg |-> c.port,
                                                 at |-> "sent", reply |-> Nothing]]
    /\ UNCHANGED <<helperVars, worldVars, options, halted, note, ghostVars>>

(* Mutant of OnPorts: the port asked for is selected, listed or not.        *)
OnPortsUnlisted(k) ==
    /\ Asked(k, "ports", "back")
    /\ options' = call[k].reply
    /\ form' = [form EXCEPT !.port = IF call[k].arg # Nothing THEN call[k].arg ELSE form.port]
    /\ call' = [call EXCEPT ![k] = Nothing]
    /\ UNCHANGED <<helperVars, worldVars, formInit, halted, title, note, ghostVars>>

(* loadPorts: the list replaces the menu.  The port asked for, or else the  *)
(* one in the field, stays selected if it is listed, or else the first one. *)
OnPorts(k) ==
    /\ Asked(k, "ports", "back")
    /\ LET list == call[k].reply
           cur  == IF call[k].arg # Nothing THEN call[k].arg ELSE form.port
       IN /\ options' = list
          /\ form' = [form EXCEPT !.port = IF cur \in list THEN cur
                                           ELSE IF list = {} THEN Nothing
                                           ELSE CHOOSE p \in list : TRUE]
    /\ call' = [call EXCEPT ![k] = Nothing]
    /\ UNCHANGED <<helperVars, worldVars, formInit, halted, title, note, ghostVars>>

(* The reply of a POST, and the timer that clears "Applied.".               *)
OnConfig(k) ==
    /\ Asked(k, "config", "back")
    /\ note' = call[k].reply
    /\ call' = [call EXCEPT ![k] = Nothing]
    /\ UNCHANGED <<helperVars, worldVars, form, options, formInit, halted, title, ghostVars>>

ClearNote ==
    /\ note = "applied"
    /\ note' = "none"
    /\ UNCHANGED <<helperVars, worldVars, form, options, formInit, halted, title, call,
                   ghostVars>>

Stopped == [text |-> "stopped", of |-> Nothing, about |-> Nothing]

(* stopped(): after the reply of /quit, and after its failure.              *)
OnQuit(k) ==
    /\ Asked(k, "quit", "back") \/ Asked(k, "quit", "failed")
    /\ halted' = TRUE
    /\ title' = Stopped
    /\ call' = [call EXCEPT ![k] = Nothing]
    /\ UNCHANGED <<helperVars, worldVars, form, options, formInit, note, ghostVars>>

(* The catch of the other requests; loadPorts ignores it.                   *)
OnFailure(k) ==
    /\ call[k] # Nothing /\ call[k].at = "failed" /\ call[k].kind # "quit"
    /\ title' = IF call[k].kind = "status"
                  THEN [text |-> "silent", of |-> Nothing, about |-> Nothing] ELSE title
    /\ note' = IF call[k].kind = "config" THEN "unreachable" ELSE note
    /\ call' = [call EXCEPT ![k] = Nothing]
    /\ UNCHANGED <<helperVars, worldVars, form, options, formInit, halted, ghostVars>>

------------------------------------------------------------------------------
Init ==
    /\ up = "running"
    /\ live \in Saved /\ saved = live
    /\ iqMode = (live.source = "iq")
    /\ src = IF live.source # "iq" /\ Buildable(live) THEN live ELSE Nothing
    /\ err = Nothing /\ have = Nothing /\ poll = Nothing
    /\ plugged \in SUBSET Port
    /\ good \in Answering
    /\ form = NoForm /\ options = {} /\ formInit = FALSE /\ halted = FALSE
    /\ title = Blank /\ note = "none"
    /\ call = [k \in Slot |-> Nothing]
    /\ posted = Nothing /\ racing = FALSE
    /\ left \in Plan

PollStep == PollTake \/ PollFails \/ PollClears \/ PollTicks

Serve(k) ==
    \/ StatusSource(k)
    \/ StatusFreq(k)
    \/ Ports(k)
    \/ HandleConfig(k)
    \/ AbortConfig(k)
    \/ HandleQuit(k)
    \/ Refuse(k)

Deliver(k) ==
    \/ OnStatus(k)
    \/ OnPorts(k)
    \/ OnConfig(k)
    \/ OnQuit(k)
    \/ OnFailure(k)

Request(k) == Serve(k) \/ Deliver(k)

Environment ==
    \/ Crash
    \/ Relaunch
    \/ Plug
    \/ Edit
    \/ Refresh
    \/ Apply
    \/ ClickQuit
    \/ ClearNote

Next ==
    \/ PollStep
    \/ \E k \in Slot : Request(k)
    \/ Exit
    \/ Tick
    \/ Environment

Spec == Init /\ [][Next]_vars

(* The helper and the browser run; the user and the machine need not.       *)
Fairness ==
    /\ WF_vars(PollStep)
    /\ WF_vars(Exit)
    /\ WF_vars(Tick)
    /\ \A k \in Slot : WF_vars(Request(k))

FairSpec == Spec /\ Fairness

------------------------------------------------------------------------------
(* Properties.                                                              *)

(* Every variable has its type.                                             *)
TypeOK ==
    /\ up \in {"running", "quitting", "stopped"}
    /\ {iqMode, formInit, halted, racing} \subseteq BOOLEAN
    /\ {live, saved} \subseteq Config
    /\ {src, err, have, posted} \subseteq Config \cup {Nothing}
    /\ poll \in [src : Config, at : {"read", "tick"}, old : BOOLEAN] \cup {Nothing}
    /\ plugged \subseteq Port /\ options \subseteq Port
    /\ form \in Config
    /\ form.port \in options \cup {Nothing}
    /\ note \in {"none", "applying", "applied", "unsaved", "restart", "refused",
                 "unreachable"}
    /\ \A k \in Slot :
         call[k] # Nothing =>
           /\ call[k].kind \in {"status", "ports", "config", "quit"}
           /\ call[k].at \in {"sent", "half", "back", "failed"}

(* The page comes to show the state of the live source, through swaps under *)
(* the poll loop's feet, replies out of order and restarts of the helper.   *)
Truth ==
    IF src = Nothing THEN Painted([of |-> live, err |-> Nothing, have |-> Nothing])
    ELSE Painted([of |-> src, err |-> IF src.source \in good THEN Nothing ELSE src,
                  have |-> src])

StatusSettles == <>[](up = "running" /\ ~iqMode /\ ~halted => title = Truth)

------------------------------------------------------------------------------
(* What comments say, and the code does not keep.                           *)

(* web.go: "seed the form once, so we don't fight the user's edits".        *)
EditsKept ==
    [][left'.edits = left.edits /\ up' = up /\ form.source # NoForm.source =>
         form'.source = form.source]_vars

(* web.go: "shows a plain-language live status": a page that says that a    *)
(* source is connected shows a frequency of that source.                    *)
ConnectedTrue == title.text = "connected" => title.about = title.of

(* web.go: "treat as stopped": the page goes on saying so.                  *)
StoppedStays == halted => title = Stopped

(* web.go: what the page says of the last Apply, with two Applies in flight.*)
LastApplyWins == note = "applied" /\ ~Busy("config") /\ ~iqMode /\ Serving => src = posted
=============================================================================
