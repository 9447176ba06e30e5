---------------------------- MODULE RunEventChain ----------------------------
(***************************************************************************)
(* RunEventChain (eco_runtime/state.py): one run's in-process event chain. *)
(*                                                                         *)
(* Any producer may offer any event at any time; what is not accepted     *)
(* changes nothing.                                                        *)
(***************************************************************************)
EXTENDS RunReducer, Sequences, SequencesExt

CONSTANTS
    MaxEvents, MaxNoModelEvents,   \* bounds on the length of the two kinds of chain
    MaxTime                        \* bound on event times

VARIABLES
    events,      \* _events
    lastTime,    \* time of the last event
    projection   \* _state, _tool_states, flags and the no-model fields

chainVars == <<events, lastTime, projection>>

Producers == {"runtime", "policy", "broker", "adapter"}

\* EVENT_SEMANTICS: who may emit each type.
MayEmit(type) ==
    CASE type \in {"policy.allowed", "policy.denied", "no-model.policy.allowed",
                   "no-model.policy.denied", "no-model.read.allowed",
                   "no-model.read.denied", "tool.allowed", "tool.denied"} -> {"policy"}
      [] type \in {"adapter.started", "adapter.completed", "adapter.failed"} -> {"adapter"}
      [] type \in {"no-model.read.completed", "tool.completed", "tool.failed"} -> {"broker"}
      [] type = "no-model.read.failed" -> {"runtime", "broker"}
      [] type = "artifact.recorded" -> {"runtime", "broker", "adapter"}
      [] OTHER -> {"runtime"}

PlainTypes ==
    {"run.received", "run.validated", "plan.created", "policy.allowed", "policy.denied",
     "no-model.policy.denied", "adapter.started", "adapter.completed", "adapter.failed",
     "artifact.recorded", "budget.exhausted", "no-model.workflow.succeeded",
     "run.succeeded", "run.failed", "run.cancelled", "run.exhausted"}

ToolTypes == {"tool.requested", "tool.allowed", "tool.denied", "tool.cancelled",
              "tool.completed", "tool.failed"}

ReadTypes == {"no-model.read.requested", "no-model.read.allowed", "no-model.read.started",
              "no-model.read.denied", "no-model.read.failed", "no-model.read.completed"}

\* The events that callers may offer, matching the current projection or not.
Offers ==
    {Event(t, None, None) : t \in PlainTypes}
    \cup {Event("no-model.policy.allowed", None, d) : d \in Requests}
    \cup {[Event("no-model.workflow.started", None, d) EXCEPT !.scope = f] :
             d \in Requests, f \in [Slots -> Contents]}
    \cup {Event(t, s, d) : t \in ToolTypes, s \in Tools, d \in Requests}
    \cup {[Event(t, s, d) EXCEPT !.entry = x, !.content = c, !.heading = h] :
             t \in {"no-model.read.completed"}, s \in Slots, d \in Requests,
             x \in Contents, c \in Contents, h \in {"pass", "fail"}}
    \cup {[Event(t, s, d) EXCEPT !.entry = x] :
             t \in ReadTypes \ {"no-model.read.completed"}, s \in Slots,
             d \in Requests, x \in Contents}

ChainInit ==
    /\ events = <<>>
    /\ lastTime = 0
    /\ projection = Baseline("NEW")

\* append(): every check, then the new projection and the event together.  A
\* draft on an older head, or any other refused draft, changes nothing.
Appendable(e, time, producer) ==
    /\ projection.state \notin TerminalStates
    /\ time >= lastTime
    /\ producer \in MayEmit(e.type)

AppendEvent(e, time, producer) ==
    /\ Appendable(e, time, producer)
    /\ projection' \in Reduce(projection, e)
    /\ events' = Append(events, e)
    /\ lastTime' = time

Bound == IF projection.workflow THEN MaxNoModelEvents ELSE MaxEvents

ChainNext ==
    /\ Len(events) < Bound
    /\ \E e \in Offers :
         /\ Reduce(projection, e) # {}
         /\ \E time \in 0..MaxTime, producer \in Producers : AppendEvent(e, time, producer)

ChainSpec == ChainInit /\ [][ChainNext]_chainVars

-----------------------------------------------------------------------------
(* Properties *)

Types(from, to) == {events[i].type : i \in from..to}

\* A succeeded model run earned it: its history has one adapter.completed that
\* no later event contradicts, no adapter.failed or budget.exhausted, and every
\* tool request reached exactly one terminal event before the adapter completed.
ModelRunEarned ==
    (projection.state = "SUCCEEDED" /\ ~projection.workflow) =>
        \E c \in 1..Len(events) :
            /\ events[c].type = "adapter.completed"
            /\ Types(c + 1, Len(events)) \subseteq {"artifact.recorded", "run.succeeded"}
            /\ {"adapter.failed", "budget.exhausted", "adapter.completed"}
                  \cap Types(1, c - 1) = {}
            /\ \A i \in 1..c : events[i].type = "tool.requested" =>
                  Cardinality({j \in i..c :
                      /\ events[j].subject = events[i].subject
                      /\ events[j].type \in {"tool.denied", "tool.cancelled",
                                                   "tool.completed", "tool.failed"}}) = 1

\* A succeeded no-model run went through requested, allowed, started and
\* completed for every slot, in that order, under one request digest, with
\* passing headings and pairwise distinct contents.
NoModelRunEarned ==
    (projection.state = "SUCCEEDED" /\ projection.workflow) =>
        /\ \A s \in Slots :
              LET log == SelectSeq(events, LAMBDA r : r.subject = s)
              IN  /\ [i \in DOMAIN log |-> log[i].type] =
                        <<"no-model.read.requested", "no-model.read.allowed",
                          "no-model.read.started", "no-model.read.completed">>
                  /\ Cardinality({log[i].digest : i \in DOMAIN log}) = 1
                  /\ log[4].heading = "pass"
        /\ Cardinality({events[i].content : i \in 1..Len(events)} \ {None})
              = Cardinality(Slots)

\* Success is earned in either kind of run (reduce_run_event): no sequence of
\* accepted events reaches it without the work it stands for.
SuccessIsEarned == ModelRunEarned /\ NoModelRunEarned
=============================================================================
