---------------------------- MODULE BrowserDecode ----------------------------
(***************************************************************************)
(* How the thin-client browser (src/drivers/browser.c) shares frames       *)
(* between two tasks of the preemptive scheduler: the idle loop, which     *)
(* parses the stream of the proxy and paints the window, and the worker    *)
(* "brjpeg", which decodes.                                                *)
(*                                                                         *)
(* Pictures are abstracted to what tells a good one from a bad one: is it  *)
(* complete, and is it of the page shown now.  A generation number is      *)
(* abstracted to whether it is the current one.  Any packet may be a bad   *)
(* or a skipped one.  Left out: sound packets, connecting, the decode      *)
(* without a worker before the scheduler runs, and g_jpeg_busy, which      *)
(* another window takes while it decodes and then gives back.              *)
(***************************************************************************)
EXTENDS Integers

VARIABLES
  win,        \* g_br_win is open and connected
  parse,      \* g_br_parse_state, with g_br_blocked_kind when blocked
  slot,       \* g_br_job_state
  job,        \* g_br_job, and whether its payload buffer is g_br_the parser's
  whole,      \* which of g_br_front and g_br_back are whole pictures
  old,        \* whether the front picture is of an earlier page
  dirty,      \* g_br_backbuf_dirty
  pending,    \* g_br_present_pending
  frameend,   \* g_br_frameend_pending
  haveFrame,  \* g_br_have_frame
  lock,       \* g_br_fb_lock_flag
  ui,         \* where the idle loop is
  worker      \* where the worker is

brVars == <<win, parse, slot, job, whole, old, dirty,
            pending, frameend, haveFrame, lock, ui, worker>>

uiVars == <<win, parse, pending, frameend, haveFrame, ui>>

Buffers == {"front", "back"}
Kinds   == {"IMG", "TILE"}

\* A parser that receives, or holds, a packet of a kind.
Receiving(k) == IF k = "IMG" THEN "IMG_DATA" ELSE "TIL_DATA"
Blocked(k)   == IF k = "IMG" THEN "IMG_BLOCKED" ELSE "TIL_BLOCKED"
IsBlocked    == \E k \in Kinds : parse = Blocked(k)

BrInit ==
  /\ win = TRUE /\ parse = "IDLE"
  /\ slot = "IDLE" /\ job = [kind |-> "IMG", mine |-> FALSE, old |-> FALSE]
  /\ whole = Buffers /\ old = FALSE
  /\ dirty = FALSE /\ pending = FALSE /\ frameend = FALSE /\ haveFrame = FALSE
  /\ lock = FALSE /\ ui = "events" /\ worker = "poll"

-----------------------------------------------------------------------------
(* The idle loop: events, then browser_tick with its pump and present      *)
(* stage.                                                                  *)

\* A bug: the payload buffers are not swapped.
FlipNot ==
  /\ ui = "flip"
  /\ parse' = "IDLE" /\ ui' = "pump"
  /\ UNCHANGED <<win, slot, job, whole, old, dirty, pending,
                 frameend, haveFrame, lock, worker>>

\* br_job_submit fills in the job and marks it queued; the payload buffers
\* are swapped after that, when the worker may already run.
Submit(k) ==
  /\ job' = [kind |-> k, mine |-> TRUE, old |-> FALSE]
  /\ slot' = "QUEUED"
  /\ ui' = "flip"

Flip ==
  /\ ui = "flip"
  /\ job' = [job EXCEPT !.mine = ~@]
  /\ parse' = "IDLE" /\ ui' = "pump"
  /\ UNCHANGED <<win, slot, whole, old, dirty, pending,
                 frameend, haveFrame, lock, worker>>

\* browser_tick begins br_tcp_pump: a parser that was blocked tries again,
\* and consumes nothing if the job slot is still taken.
Tick ==
  /\ ui = "events" /\ win
  /\ \/ /\ ~IsBlocked
        /\ ui' = "pump"
        /\ UNCHANGED <<slot, job>>
     \/ /\ slot = "IDLE"
        /\ \E k \in Kinds : parse = Blocked(k) /\ Submit(k)
     \/ /\ IsBlocked /\ slot # "IDLE"
        /\ ui' = "stage"
        /\ UNCHANGED <<slot, job>>
  /\ UNCHANGED <<win, parse, whole, old, dirty, pending,
                 frameend, haveFrame, lock, worker>>

\* The watchdog, or a lost connection: the parser starts afresh.
Reconnect ==
  /\ ui = "events" /\ win /\ parse # "IDLE"
  /\ parse' = "IDLE"
  /\ UNCHANGED <<win, slot, job, whole, old, dirty, pending,
                 frameend, haveFrame, lock, ui, worker>>

\* br_parse_byte: the header of a picture.
Header ==
  /\ ui = "pump" /\ parse = "IDLE"
  /\ \E k \in Kinds : parse' = Receiving(k)
  /\ UNCHANGED <<win, slot, job, whole, old, dirty, pending,
                 frameend, haveFrame, lock, ui, worker>>

\* The last byte of a payload: br_payload_complete drops it, submits it or,
\* with the slot taken, blocks the parser and so ends the pump.
Payload ==
  /\ ui = "pump"
  /\ \E k \in Kinds :
       /\ parse = Receiving(k)
       /\ \/ /\ parse' = "IDLE"
             /\ UNCHANGED <<slot, job, ui>>
          \/ /\ slot = "IDLE"
             /\ Submit(k)
             /\ UNCHANGED parse
          \/ /\ slot # "IDLE"
             /\ parse' = Blocked(k) /\ ui' = "stage"
             /\ UNCHANGED <<slot, job>>
  /\ UNCHANGED <<win, whole, old, dirty, pending, frameend,
                 haveFrame, lock, worker>>

\* br_process_frameend: the tiles so far make a frame.
FrameEnd ==
  /\ ui = "pump" /\ parse = "IDLE"
  /\ frameend' = (frameend \/ slot # "IDLE")
  /\ pending' = (pending \/ (slot = "IDLE" /\ dirty))
  /\ UNCHANGED <<win, parse, slot, job, whole, old, dirty,
                 haveFrame, lock, ui, worker>>

\* Nothing left to read, or the budget of chunks or time is used up.
PumpEnd ==
  /\ ui = "pump"
  /\ ui' = "stage"
  /\ UNCHANGED <<win, parse, slot, job, whole, old, dirty,
                 pending, frameend, haveFrame, lock, worker>>

\* A bug: with the lock taken, the new frame is given up instead of waited for.
StageSkips ==
  /\ ui = "stage"
  /\ LET ended == frameend /\ slot = "IDLE"
     IN  /\ frameend' = (frameend /\ ~ended)
         /\ ui' = IF ~lock /\ (pending \/ (ended /\ dirty)) THEN "present" ELSE "events"
  /\ pending' = FALSE
  /\ UNCHANGED <<win, parse, slot, job, whole, old, dirty,
                 haveFrame, lock, worker>>

\* br_present_stage up to the lock.
PresentStage ==
  /\ ui = "stage"
  /\ LET ended == frameend /\ slot = "IDLE"
     IN  /\ frameend' = (frameend /\ ~ended)
         /\ ui' = IF pending \/ (ended /\ dirty) THEN "present" ELSE "events"
  /\ pending' = FALSE
  /\ UNCHANGED <<win, parse, slot, job, whole, old, dirty,
                 haveFrame, lock, worker>>

\* br_resize_cb paints what the front buffer holds into the new geometry.
Resize ==
  /\ ui = "events" /\ win /\ haveFrame
  /\ ui' = "resize"
  /\ UNCHANGED <<win, parse, slot, job, whole, old, dirty,
                 pending, frameend, haveFrame, lock, worker>>

\* A bug: the front buffer is painted without its lock.
BlitUnlocked ==
  /\ ui \in {"present", "resize"}
  /\ lock' = TRUE
  /\ ui' = IF ui = "present" THEN "blit" ELSE "reblit"
  /\ UNCHANGED <<win, parse, slot, job, whole, old, dirty,
                 pending, frameend, haveFrame, worker>>

\* br_fb_lock, br_present_backbuf and br_fb_unlock.
BlitBegin ==
  /\ ui \in {"present", "resize"} /\ ~lock
  /\ lock' = TRUE
  /\ ui' = IF ui = "present" THEN "blit" ELSE "reblit"
  /\ UNCHANGED <<win, parse, slot, job, whole, old, dirty,
                 pending, frameend, haveFrame, worker>>

BlitEnd ==
  /\ ui \in {"blit", "reblit"}
  /\ haveFrame' = TRUE /\ dirty' = FALSE
  /\ lock' = FALSE /\ ui' = "events"
  /\ UNCHANGED <<win, parse, slot, job, whole, old, pending,
                 frameend, worker>>

\* br_local_reset_stream, for a new page, and br_destroy_cb: the generation
\* moves on, so that what is under way is old.
StreamReset ==
  /\ ui = "events" /\ win
  /\ job' = [job EXCEPT !.old = TRUE]
  /\ old' = TRUE
  /\ pending' = FALSE /\ frameend' = FALSE
  /\ \/ parse' = "IDLE" /\ win' = TRUE
     \/ parse' = parse /\ win' = FALSE
  /\ UNCHANGED <<slot, whole, dirty, haveFrame, lock, ui, worker>>

\* browser_open_impl, and the connection after it.
Open ==
  /\ ui = "events" /\ ~win
  /\ win' = TRUE /\ haveFrame' = FALSE /\ parse' = "IDLE"
  /\ UNCHANGED <<slot, job, whole, old, dirty, pending,
                 frameend, lock, ui, worker>>

-----------------------------------------------------------------------------
(* The worker: br_jpeg_worker and br_decode_job.                           *)

\* Take the job; a picture is decoded into the back buffer, a tile elsewhere.
Take ==
  /\ worker = "poll" /\ slot = "QUEUED"
  /\ slot' = "RUNNING" /\ worker' = "decode"
  /\ whole' = IF job.kind = "IMG" THEN whole \ {"back"} ELSE whole
  /\ UNCHANGED <<uiVars, job, old, dirty, lock>>

\* jpeg_decode fails, or it succeeds and the generation is compared.
Decode ==
  /\ worker = "decode"
  /\ \/ /\ worker' = "done"
        /\ UNCHANGED whole
     \/ /\ worker' = IF job.old THEN "done" ELSE "lock"
        /\ whole' = IF job.kind = "IMG" THEN whole \cup {"back"} ELSE whole
  /\ UNCHANGED <<uiVars, slot, job, old, dirty, lock>>

\* Under the lock the buffers change places, or the tile is copied row by row.
WorkerLock ==
  /\ worker = "lock" /\ ~lock
  /\ lock' = TRUE /\ worker' = "update"
  /\ UNCHANGED <<uiVars, slot, job, whole, old, dirty>>

Update ==
  /\ worker = "update"
  /\ whole' = IF job.kind = "TILE" THEN whole \ {"front"}
              ELSE {b \in Buffers : Buffers \ {b} \subseteq whole}
  /\ old' = job.old /\ worker' = "updated"
  /\ UNCHANGED <<uiVars, slot, job, dirty, lock>>

Updated ==
  /\ worker = "updated"
  /\ whole' = IF job.kind = "TILE" THEN whole \cup {"front"} ELSE whole
  /\ dirty' = TRUE /\ worker' = "unlock"
  /\ UNCHANGED <<uiVars, slot, job, old, lock>>

WorkerUnlock ==
  /\ worker = "unlock"
  /\ lock' = FALSE
  /\ worker' = IF job.kind = "IMG" THEN "flag" ELSE "done"
  /\ UNCHANGED <<uiVars, slot, job, whole, old, dirty>>

Flag ==
  /\ worker = "flag"
  /\ pending' = TRUE /\ worker' = "done"
  /\ UNCHANGED <<win, parse, slot, job, whole, old, dirty,
                 frameend, haveFrame, lock, ui>>

\* A bug: the slot of a job that was dropped as old stays taken.
DoneForgets ==
  /\ worker = "done"
  /\ slot' = (IF job.old THEN slot ELSE "IDLE") /\ worker' = "poll"
  /\ UNCHANGED <<uiVars, job, whole, old, dirty, lock>>

Done ==
  /\ worker = "done"
  /\ slot' = "IDLE" /\ worker' = "poll"
  /\ UNCHANGED <<uiVars, job, whole, old, dirty, lock>>

-----------------------------------------------------------------------------
WorkerStep ==
  Take \/ Decode \/ WorkerLock \/ Update \/ Updated \/ WorkerUnlock \/ Flag \/ Done

Painting == Flip \/ PresentStage \/ BlitBegin \/ BlitEnd

UiStep ==
  \/ Painting \/ Tick \/ Reconnect \/ Header \/ Payload \/ FrameEnd \/ PumpEnd
  \/ Resize \/ StreamReset \/ Open

BrNext == UiStep \/ WorkerStep

BrSpec == BrInit /\ [][BrNext]_brVars

\* Both tasks get the processor (ReadyRuns of Scheduler); the idle loop calls
\* browser_tick on every pass and halts between passes, when it does not hold the
\* lock; and the pump has a budget.
BrFairSpec ==
  /\ BrSpec
  /\ WF_brVars(WorkerStep) /\ SF_brVars(WorkerLock)
  /\ WF_brVars(Painting) /\ SF_brVars(Tick) /\ SF_brVars(PumpEnd)

-----------------------------------------------------------------------------
(* Properties.                                                             *)

\* Every variable holds a value of its type.
BrTypeOK ==
  /\ {win, dirty, pending, frameend, haveFrame, old, lock} \subseteq BOOLEAN
  /\ parse \in {"IDLE"} \cup {Receiving(k) : k \in Kinds} \cup {Blocked(k) : k \in Kinds}
  /\ slot \in {"IDLE", "QUEUED", "RUNNING"}
  /\ job \in [kind : Kinds, mine : BOOLEAN, old : BOOLEAN]
  /\ whole \subseteq Buffers
  /\ ui \in {"events", "pump", "flip", "stage", "present", "resize", "blit", "reblit"}
  /\ worker \in {"poll", "decode", "lock", "update", "updated", "unlock", "flag", "done"}

\* "present never sees a half-decoded frame": what is painted, on a new frame
\* or a resize, is a whole picture that the worker is not writing.
BlitsWhole == ui \in {"blit", "reblit"} => "front" \in whole

\* The parser never fills the payload buffer that a queued or running job
\* decodes from, while it has bytes to put somewhere (br_job_submit).
PayloadIntact == slot # "IDLE" /\ ui = "pump" => ~job.mine

\* A picture that was decoded is painted, or given up for a new page or a
\* closed window: the flags of the worker and of the tick never lose one.
PictureShown ==
  worker = "flag" ~> (ui \in {"blit", "reblit"} \/ old)

\* The worker answers every job, and a parser it holds up goes on.
StreamMoves ==
  /\ slot = "QUEUED" ~> slot = "IDLE"
  /\ IsBlocked ~> ~IsBlocked \/ ~win

\* "a slow frame from the PREVIOUS page can never present over the new one"
\* (br_local_reset_stream).
NoOldPage == ui = "blit" => ~old

=============================================================================
