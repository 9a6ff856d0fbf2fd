------------------------------- MODULE Present ------------------------------
(***************************************************************************)
(* Presentation in vk/vkbackend.c: the render thread acquires an image of  *)
(* the swapchain, submits the frame and hands the present to a thread of   *)
(* its own (or presents itself), one at a time.  A swapchain the window    *)
(* has outgrown is replaced once no present can refer to it.               *)
(*                                                                         *)
(* Both condition variables of r->pres are broadcast under the lock at     *)
(* every change of what is waited for, so that a wait is a guard here.     *)
(***************************************************************************)
EXTENDS Integers

CONSTANTS
  MaxFrames,  \* bound: frames drawn
  MaxEvents   \* bound: changes of the window

PresentAssumption == MaxFrames \in Nat /\ MaxEvents \in Nat

VARIABLES
  presUp,      \* pres.up: there is a present thread
  swap,        \* the swapchain (how often it was recreated)
  size,        \* the window: how often it changed, and whether it is minimised
  fits,        \* the size the swapchain was made for
  frameAt,     \* place of the render thread
  image,       \* swapchain the acquired image belongs to
  pending, presBusy, img, needResize, failed, presQuit, \* r->pres; img names a
               \* swapchain
  thread,      \* the present thread: "wait", "present" or "gone"
  drawn, shown \* frames queued for presentation, and presented

pres == <<pending, presBusy, img, needResize, failed, presQuit>>
window == <<size, fits, swap>>
presentVars == <<presUp, window, frameAt, image, pres, thread, drawn, shown>>

Outdated == size.change # fits

PresentTypeOK ==
  /\ presUp \in BOOLEAN /\ swap \in Nat /\ fits \in 0..MaxEvents
  /\ size \in [change : 0..MaxEvents, minimised : BOOLEAN]
  /\ frameAt \in {"frame", "acquire", "submit", "queue", "resize", "resize inline",
             "stop", "join", "end"}
  /\ thread \in {"wait", "present", "gone"}
  /\ pending \in BOOLEAN /\ presBusy \in BOOLEAN /\ needResize \in BOOLEAN
  /\ failed \in BOOLEAN /\ presQuit \in BOOLEAN
  /\ presBusy <=> thread = "present"
  /\ drawn \in 0..MaxFrames /\ shown \in 0..drawn

PresentInit ==
  /\ presUp \in BOOLEAN
  /\ swap = 0 /\ fits = 0 /\ image = 0 /\ img = 0
  /\ size = [change |-> 0, minimised |-> FALSE]
  /\ frameAt = "frame"
  /\ pending = FALSE /\ presBusy = FALSE /\ needResize = FALSE
  /\ failed = FALSE /\ presQuit = FALSE
  /\ thread = IF presUp THEN "wait" ELSE "gone"
  /\ drawn = 0 /\ shown = 0

\* The user resizes, minimises or restores the window.
Window ==
  /\ size.change < MaxEvents
  /\ \E m \in BOOLEAN : size' = [change |-> size.change + 1, minimised |-> m]
  /\ UNCHANGED <<presUp, fits, swap, frameAt, image, pres, thread, drawn, shown>>

-----------------------------------------------------------------------------
(* The render thread: r3d_frame_views.                                     *)

Frame ==
  /\ frameAt = "frame" /\ drawn < MaxFrames
  /\ needResize' = FALSE
  /\ frameAt' = IF failed THEN "stop" ELSE IF needResize THEN "resize" ELSE "acquire"
  /\ UNCHANGED <<presUp, window, image, pending, presBusy, img, failed, presQuit, thread,
                 drawn, shown>>

\* vkAcquireNextImageKHR may notice that the window has changed, or not yet.
Acquire ==
  /\ frameAt = "acquire"
  /\ \/ frameAt' = "submit" /\ image' = swap
     \/ Outdated /\ frameAt' = "resize" /\ UNCHANGED image
  /\ UNCHANGED <<presUp, window, pres, thread, drawn, shown>>

Submit ==
  /\ frameAt = "submit"
  /\ frameAt' = "queue" /\ drawn' = drawn + 1
  /\ UNCHANGED <<presUp, window, image, pres, thread, shown>>

\* Hand the image to the present thread when the previous one is done.
Queue ==
  /\ frameAt = "queue" /\ presUp /\ ~pending /\ ~presBusy
  /\ img' = image /\ pending' = TRUE
  /\ frameAt' = IF failed THEN "stop" ELSE "frame"
  /\ UNCHANGED <<presUp, window, image, presBusy, needResize, failed, presQuit, thread,
                 drawn, shown>>

\* The three answers of vkQueuePresentKHR the code tells apart.
Answers == {"ok", "failed"} \cup IF Outdated THEN {"outdated"} ELSE {}

PresentInline ==
  /\ frameAt = "queue" /\ ~presUp
  /\ shown' = shown + 1
  /\ \E pr \in Answers :
       frameAt' = CASE pr = "ok"       -> "frame"
                    [] pr = "failed"   -> "stop"
                    [] pr = "outdated" -> "resize inline"
  /\ UNCHANGED <<presUp, window, image, pres, thread, drawn>>

\* Mutant: only what is in flight.
DrainedOfBusy == ~presBusy

\* pres_drain: nothing queued, nothing in flight.
Drained == ~pending /\ ~presBusy

\* r3d_resize.  A minimised window keeps the old swapchain; the inline caller
\* takes that for an error.
Resize ==
  /\ frameAt \in {"resize", "resize inline"} /\ Drained
  /\ IF size.minimised
       THEN /\ frameAt' = IF frameAt = "resize" THEN "frame" ELSE "stop"
            /\ UNCHANGED <<swap, fits>>
       ELSE /\ swap' = swap + 1 /\ fits' = size.change
            /\ frameAt' = "frame"
  /\ UNCHANGED <<presUp, size, image, pres, thread, drawn, shown>>

-----------------------------------------------------------------------------
(* The present thread.                                                     *)

\* Mutant: the thread does not look at quit while it waits for a present.
TakeDeaf ==
  /\ thread = "wait" /\ pending
  /\ pending' = FALSE /\ presBusy' = TRUE
  /\ thread' = "present"
  /\ UNCHANGED <<presUp, window, frameAt, image, img, needResize, failed, presQuit, drawn,
                 shown>>

Take ==
  /\ thread = "wait"
  /\ IF presQuit
       THEN /\ thread' = "gone"
            /\ UNCHANGED <<pending, presBusy>>
       ELSE /\ pending
            /\ pending' = FALSE /\ presBusy' = TRUE
            /\ thread' = "present"
  /\ UNCHANGED <<presUp, window, frameAt, image, img, needResize, failed, presQuit, drawn,
                 shown>>

Presented ==
  /\ thread = "present"
  /\ shown' = shown + 1
  /\ \E pr \in Answers :
       /\ needResize' = (needResize \/ pr = "outdated")
       /\ failed' = (failed \/ pr = "failed")
  /\ presBusy' = FALSE
  /\ thread' = "wait"
  /\ UNCHANGED <<presUp, window, frameAt, image, pending, img, presQuit, drawn>>

-----------------------------------------------------------------------------
(* r3d_destroy: pres_stop.                                                 *)

Stop ==
  /\ frameAt = "frame" /\ frameAt' = "stop"
  /\ UNCHANGED <<presUp, window, image, pres, thread, drawn, shown>>

Quit ==
  /\ frameAt = "stop" /\ (presUp => Drained)
  /\ presQuit' = presUp
  /\ frameAt' = "join"
  /\ UNCHANGED <<presUp, window, image, pending, presBusy, img, needResize, failed, thread,
                 drawn, shown>>

JoinThread ==
  /\ frameAt = "join" /\ thread = "gone"
  /\ presUp' = FALSE /\ frameAt' = "end"
  /\ UNCHANGED <<window, image, pres, thread, drawn, shown>>

Render == Frame \/ Acquire \/ Submit \/ Queue \/ PresentInline \/ Resize \/ Quit \/ JoinThread
Thread == Take \/ Presented

PresentNext == Render \/ Thread \/ Window \/ Stop

PresentSpec == PresentInit /\ [][PresentNext]_presentVars

\* Both threads keep running; the program draws until it is stopped.
PresentFairness == WF_presentVars(Render) /\ WF_presentVars(Thread)

PresentFairSpec == PresentSpec /\ PresentFairness

-----------------------------------------------------------------------------
(* Properties.                                                             *)

\* The present thread reads the swapchain without a lock: while a present is
\* queued or in flight the swapchain its image came from is not replaced, at
\* most one present is outstanding, and every frame that was submitted has been
\* presented when the renderer is taken down.
PresentsLiveImages ==
  /\ PresentTypeOK
  /\ pending \/ presBusy => img = swap /\ presUp
  /\ shown <= drawn
  /\ frameAt = "end" => shown = drawn

\* Unless the program is stopped, a frame that is drawn ends; and taking the
\* renderer down ends.
FramesEnd ==
  []<>(frameAt \in {"frame", "end"})
=============================================================================
