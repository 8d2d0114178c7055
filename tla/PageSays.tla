------------------------------ MODULE PageSays ------------------------------
(***************************************************************************)
(* What the helper's config page (the script of configHTML, helper/web.go) *)
(* says to its user, and what it does to the fields the user edits.        *)
(* ConfigPage is how the page and its helper get there.                    *)
(***************************************************************************)
EXTENDS Naturals

CONSTANT Nothing

VARIABLES
    up,       \* the helper: "running", "quitting" (its 250 ms) or "stopped"
    live,     \* h.cfg
    src,      \* h.src, by the config it was built from
    saved,    \* the saved config
    form,     \* the page's source and port fields
    options,  \* the ports in the port menu
    formInit, \* whether the form was seeded
    halted,   \* stopped() has run: no timer, buttons disabled
    note,     \* the message beside Apply
    call,     \* the request in each slot
    posted,   \* ghost: the last form applied
    racing,   \* ghost: it was applied before an earlier one was answered
    left      \* ghost: events that may still happen

Serving == up # "stopped"

(* The port list that the first status reply asked for is on its way.       *)
Seeding ==
    \E k \in DOMAIN call :
        call[k] # Nothing /\ call[k].kind = "ports" /\ call[k].arg # Nothing

------------------------------------------------------------------------------
(* Properties.                                                              *)

(* web.go: "seed the form once, so we don't fight the user's edits".  Once  *)
(* the seeded port list is in, only the user changes a field, except that a *)
(* port that is gone from the list cannot stay selected.                    *)
SettledEditsKept ==
    [][formInit /\ formInit' /\ ~Seeding /\ left'.edits = left.edits =>
         /\ form'.source = form.source
         /\ form'.port # form.port => form.port \notin options']_form

(* What the page says of an Apply holds of the helper and of the file, now  *)
(* and after a restart, unless a second Apply overtook the first.           *)
MessageTrue ==
    ~racing /\ Serving =>
        /\ note = "applied" => src = posted /\ live = posted
        /\ note \in {"applied", "restart"} => saved = posted

(* web.go: a page that says "Stopped." has stopped its helper, although it  *)
(* takes a failed request for an answer.                                    *)
StoppedTrue == halted => up # "running"

(* web.go: what the page says of the last Apply, and of the helper's end, is *)
(* so.                                                                      *)
PageTrue == MessageTrue /\ StoppedTrue
=============================================================================
