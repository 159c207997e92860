--------------------------- MODULE AsyncSemaphore ---------------------------
(***************************************************************************)
(* asyncio.Semaphore of CPython 3.12 as a value: the operators return the  *)
(* semaphore after one call made from the event loop.                      *)
(*                                                                         *)
(* A semaphore is [free, queue, woken]: free permits, tasks waiting in     *)
(* FIFO order, and tasks that were handed a permit and have not run since. *)
(* A woken task is still in the semaphore's deque, so that newcomers queue *)
(* behind it: locked() is TRUE while it is there.                          *)
(***************************************************************************)
EXTENDS Integers, Sequences, FiniteSetsExt

NewSemaphore(n) == [free |-> n, queue |-> <<>>, woken |-> {}]

\* Permits that acquire() hands out without suspending the caller.
Available(q) == IF q.queue = <<>> /\ q.woken = {} THEN q.free ELSE 0

\* n calls of acquire() that do not suspend.
TakePermits(q, n) == [q EXCEPT !.free = @ - n]

\* acquire() that suspends task p.
Enqueue(q, p) == [q EXCEPT !.queue = Append(@, p)]

\* n calls of release(): each wakes the first waiter, or frees a permit.
Give(q, n) ==
    LET k == Min({n, Len(q.queue)})
    IN [free  |-> q.free + (n - k),
        queue |-> SubSeq(q.queue, k + 1, Len(q.queue)),
        woken |-> q.woken \cup {q.queue[i] : i \in 1..k}]

\* Woken task p resumes in acquire(): it leaves the deque and passes on the
\* permits that were freed while it was in it.
Resume(q, p) == Give([q EXCEPT !.woken = @ \ {p}, !.free = 0], q.free)

\* Task p is suspended in acquire().
Suspended(q, p) == p \in q.woken \/ \E i \in DOMAIN q.queue : q.queue[i] = p

\* The permits that tasks hold, one by one, where task p holds f[p] of them.
Shares(f) == UNION {{p} \X (1..f[p]) : p \in DOMAIN f}

=============================================================================
