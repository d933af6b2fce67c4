---------------------------- MODULE TwoProducers ----------------------------
(***************************************************************************)
(* The queue with a second producer.  While it builds its renderers the    *)
(* render thread sends messages itself: geometry_build, trans_build and    *)
(* gui_build call ilG_renderer_build for their children, which calls       *)
(* ilG_context_upload.  The main thread meanwhile sends its own.           *)
(***************************************************************************)
EXTENDS ContextQueue

\* ilG_renderer_build(): from ilG_context_renderer.build, before the loop of
\* render_thread, or from a build that was itself uploaded
RenderSend ==
    /\ \/ rpc = "start"
       \/ rpc = "handle" /\ payload[cur] # Stop
    /\ left["render"] > 0
    /\ \E m \in Msg : Allocate("render", m)
    /\ left' = [left EXCEPT !["render"] = @ - 1]
    /\ UNCHANGED mpc

TwoProducersNext == Next \/ RenderSend \/ Produce("render")

TwoProducersSpec == Init /\ [][TwoProducersNext]_vars

\* "Calls a function at the beginning of the frame on the context thread"
\* (graphics/context.h:152, of ilG_context_upload): once the queue is quiet and
\* looks empty to a running render thread, every message sent was handled.
NothingLost ==
    (rpc = "consume" /\ head = tail /\ \A t \in Thread : ppc[t] = "idle")
        => taken = Len(log)
=============================================================================
