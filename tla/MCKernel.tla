------------------------------ MODULE MCKernel ------------------------------
(***************************************************************************)
(* Values of Kernel's constants for TLC: one urgent thread and two of the  *)
(* same priority.                                                          *)
(***************************************************************************)
EXTENDS Kernel

Three == {"t1", "t2", "t3"}
Prio  == ("t1" :> 0) @@ ("t2" :> 1) @@ ("t3" :> 1)
Order == (0 :> <<"t1">>) @@ (1 :> <<"t2", "t3">>)

AllLists == {"sem", "outer", "inner", "event", "recv", "send", "queue", "pool"}
Flags    == [l \in AllLists |-> IF l \in {"outer", "inner"} THEN "prio"
                               ELSE IF l = "pool" THEN "lifo" ELSE "fifo"]
TwoSlots == <<1, 2>>
Forever  == -1

Job(t1, t2, t3, device) ==
  [does |-> ("t1" :> t1) @@ ("t2" :> t2) @@ ("t3" :> t3), device |-> device]

\* Threads share a unit that they or an interrupt release.
SemJob == Job({<<"take", 1>>, <<"release">>, <<"sleep", 1>>},
              {<<"take", 2>>, <<"release">>},
              {<<"take", Forever>>},
              {<<"release">>})

\* Threads of two priorities share one recursive mutex.
MutexJob == Job({<<"lock", "outer">>, <<"lock", "outer", 1>>, <<"unlock", "outer">>, <<"sleep", 1>>},
                {<<"lock", "outer">>, <<"lock", "outer", Forever>>, <<"unlock", "outer">>},
                {<<"lock", "outer">>, <<"lock", "outer", 0>>, <<"lock", "outer", 2>>, <<"unlock", "outer">>, <<"sleep", 1>>},
                {})

\* One of them holds two mutexes, and releases them in any order.
NestedJob == Job({<<"lock", "outer">>, <<"lock", "outer", 1>>, <<"unlock", "outer">>, <<"sleep", 1>>},
                 {<<"lock", "outer">>, <<"lock", "inner">>, <<"lock", "inner", Forever>>,
                  <<"unlock", "outer">>, <<"unlock", "inner">>},
                 {<<"lock", "inner">>, <<"unlock", "inner">>},
                 {})

\* Threads wait for events, one clears them, and a thread and an interrupt
\* send them.
EventJob == Job({<<"await", {"x", "y"}, {"and", "clear"}, 1>>, <<"await", {"x"}, {"or"}, 0>>, <<"sleep", 1>>},
                {<<"await", {"x", "y"}, {"or", "clear"}, 2>>, <<"await", {"y"}, {"and"}, Forever>>},
                {<<"await", {"x"}, {"or"}, Forever>>, <<"raise", {"y"}>>},
                {<<"raise", {"x"}>>})

\* Two senders fill the mailbox of a slow reader; two readers compete for the
\* mails of an interrupt.
SendersJob == Job({<<"send", "a", 1>>, <<"sleep", 1>>}, {<<"send", "b", Forever>>},
                  {<<"recv", Forever>>}, {})
ReadersJob == Job({<<"recv", 1>>}, {<<"recv", 2>>}, {<<"sleep", 1>>}, {<<"send", "a">>})

\* Threads and an interrupt write into a message queue; any of them is
\* preempted while it copies.
QueueJob == Job({<<"get", 1>>, <<"sleep", 1>>}, {<<"put", "b", TRUE>>}, {<<"put", "a", FALSE>>},
                {<<"put", "b", FALSE>>})

\* One thread allocates what an interrupt frees; two threads do.
WriterJob  == Job({<<"sleep", 1>>}, {<<"alloc", Forever>>}, {<<"free">>, <<"sleep", 2>>}, {<<"free">>})
WritersJob == Job({<<"alloc", Forever>>, <<"sleep", 1>>}, {<<"alloc", Forever>>}, {<<"sleep", 2>>}, {<<"free">>})

AllJobs  == {SemJob, MutexJob, NestedJob, EventJob, SendersJob, ReadersJob, QueueJob, WriterJob}
TwoWriters == {WritersJob}
=============================================================================
