----------------------------- MODULE FrameQueue -----------------------------
(***************************************************************************)
(* The frame queue of the dmx512 core (dmx512framequeue.c): a linked list  *)
(* of frame entries guarded by one spinlock.  The list is a sequence of    *)
(* entries, head first.  Every operation takes and releases queue_lock     *)
(* once, so each is one atomic step of the thread that calls it; the       *)
(* operators below are the values those steps compute.  Both the kernel    *)
(* core and the CUSE core are built on this file.                          *)
(***************************************************************************)
EXTENDS Naturals, Sequences

\* INIT_LIST_HEAD: no entries.
dmx512_framequeue_init == << >>

\* Every entry is unlinked and freed.
dmx512_framequeue_cleanup(q) == << >>

dmx512_framequeue_isempty(q) == q = << >>

\* The entry dmx512_framequeue_get unlinks.  On an empty list the function
\* returns NULL; callers test isempty first.
dmx512_framequeue_front(q) == Head(q)

\* Mutation: the list_del is missing.
get_without_del(q) == q

\* The list after dmx512_framequeue_get unlinked its first entry.
dmx512_framequeue_get(q) == Tail(q)

\* Mutation: list_add instead of list_add_tail.
put_first(q, e) == << e >> \o q

\* list_add_tail: the entry is queued behind all others.
dmx512_framequeue_put(q, e) == Append(q, e)

\* The entries linked into a list.
Entries(q) == {q[i] : i \in 1..Len(q)}

\* No entry is linked twice (list_add of a linked entry would corrupt both
\* lists).
NoDuplicates(q) == \A i, j \in 1..Len(q) : q[i] = q[j] => i = j

\* The frames in a list, when f gives the frame in each entry.
Contents(f, q) == [i \in 1..Len(q) |-> f[q[i]]]
=============================================================================
