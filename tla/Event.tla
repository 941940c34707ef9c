------------------------------- MODULE Event -------------------------------
(***************************************************************************)
(* rt_event_send and rt_event_recv of ipc.c: threads wait for one or for   *)
(* all of a set of events, and may clear what they receive.                *)
(***************************************************************************)
EXTENDS KernelThreads

CONSTANTS
  EvList,      \* the suspend list of the event object
  Events       \* the bits of its set

ASSUME EventAssumption == EvList \in Lists

Options == {{"and"}, {"or"}, {"and", "clear"}, {"or", "clear"}}

VARIABLES
  event_set,   \* set of the event object
  wants,       \* event_set of each thread: what it waits for, or received
  option,      \* event_info of each thread
  todo         \* the threads the loop of rt_event_send has not looked at

evvars == <<event_set, wants, option, todo>>

EvInit ==
  /\ event_set = {}
  /\ wants = [t \in Threads |-> {}] /\ option = [t \in Threads |-> {}]
  /\ todo = <<>>

Meets(set, opt) ==
  \/ "and" \in opt /\ set \subseteq event_set
  \/ "and" \notin opt /\ "or" \in opt /\ set \cap event_set # {}

\* what is left of the events when a thread that asked for set receives them
LeftBehind(set, opt) == IF "clear" \in opt THEN event_set \ set ELSE event_set

\* rt_event_send up to its loop
EvSend(set) ==
  /\ masked = "no"
  /\ event_set' = event_set \cup set
  /\ todo' = waiting[EvList]
  /\ masked' = IF waiting[EvList] = <<>> THEN "no" ELSE "event"
  /\ UNCHANGED <<lvars, rt_tick, current, prio, stat, error, ready, waiting, timers, op,
                 wants, option>>

\* mutant: the loop ends with the first thread it resumes
EvLookFirst ==
  LET t == Head(todo)
      received == IF "and" \in option[t] THEN wants[t] ELSE wants[t] \cap event_set
  IN /\ masked = "event"
     /\ \/ /\ Meets(wants[t], option[t])
           /\ wants' = [wants EXCEPT ![t] = received]
           /\ event_set' = LeftBehind(received, option[t])
           /\ Resume(t, EvList, ready)
           /\ todo' = <<>>
        \/ /\ ~Meets(wants[t], option[t])
           /\ todo' = Tail(todo)
           /\ UNCHANGED <<current, stat, ready, waiting, timers, wants, event_set>>
     /\ masked' = IF todo' = <<>> THEN "no" ELSE "event"
     /\ UNCHANGED <<lvars, rt_tick, prio, error, op, option>>

\* ... its loop looks at the next thread
EvLook ==
  LET t == Head(todo)
      received == IF "and" \in option[t] THEN wants[t] ELSE wants[t] \cap event_set
  IN /\ masked = "event"
     /\ \/ /\ Meets(wants[t], option[t])
           /\ wants' = [wants EXCEPT ![t] = received]
           /\ event_set' = LeftBehind(received, option[t])
           /\ Resume(t, EvList, ready)
        \/ /\ ~Meets(wants[t], option[t])
           /\ UNCHANGED <<current, stat, ready, waiting, timers, wants, event_set>>
     /\ todo' = Tail(todo)
     /\ masked' = IF Tail(todo) = <<>> THEN "no" ELSE "event"
     /\ UNCHANGED <<lvars, rt_tick, prio, error, op, option>>

\* rt_event_recv, up to rt_schedule when it waits
EvRecv(t, set, opt, time) ==
  /\ Calls(t)
  /\ \/ /\ Meets(set, opt)
        /\ error' = [error EXCEPT ![t] = "ok"]
        /\ event_set' = LeftBehind(set, opt)
        /\ UNCHANGED <<current, stat, ready, waiting, timers, op, wants, option>>
     \/ /\ ~Meets(set, opt) /\ time = 0
        /\ error' = [error EXCEPT ![t] = "timeout"]
        /\ UNCHANGED <<current, stat, ready, waiting, timers, op, event_set, wants, option>>
     \/ /\ ~Meets(set, opt) /\ time # 0
        /\ error' = [error EXCEPT ![t] = "ok"]
        /\ wants' = [wants EXCEPT ![t] = set]
        /\ option' = [option EXCEPT ![t] = opt]
        /\ Suspend(t, EvList, time, ready, prio)
        /\ UNCHANGED event_set
  /\ UNCHANGED <<lvars, rt_tick, masked, prio, todo>>

\* ... and behind it: the thread has received wants[t], or timed out
EvReceived(t) ==
  /\ Returns(t, EvList)
  /\ wants' = [wants EXCEPT ![t] = {}]
  /\ option' = [option EXCEPT ![t] = {}]
  /\ Leave(t)
  /\ UNCHANGED <<lvars, rt_tick, masked, current, prio, stat, error, ready, waiting, timers,
                 event_set, todo>>
=============================================================================
