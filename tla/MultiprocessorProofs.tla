------------------------ MODULE MultiprocessorProofs ------------------------
(***************************************************************************)
(* What the processors owe each other.                                       *)
(*                                                                           *)
(* IPICommunicator, for any set of CPUs that the queues have room for: no TLB *)
(* keeps a page past unmap_range, no queue holds a request that has left its *)
(* owner's stack, and no queue overflows.                                    *)
(*                                                                           *)
(* ProcessorStart, for any finite set of application processors: each starts  *)
(* on its own stack, and none schedules too early.                           *)
(***************************************************************************)
EXTENDS IPICommunicator, ProcessorStart, SequenceFacts, FiniteSetTheorems, TLAPS

\* A finite set with one more element.
LEMMA OneMore ==
    ASSUME NEW S, NEW x, IsFiniteSet(S), x \notin S
    PROVE  /\ Cardinality(S) \in Nat
           /\ Cardinality(S \union {x}) = Cardinality(S) + 1
  BY Zenon, FS_AddElement, FS_CardinalityType

\* A finite set with one element less.
LEMMA OneLess ==
    ASSUME NEW S, NEW x, IsFiniteSet(S), x \in S
    PROVE  /\ Cardinality(S) \in Nat
           /\ Cardinality(S \ {x}) \in Nat
           /\ Cardinality(S \ {x}) = Cardinality(S) - 1
  BY Zenon, FS_RemoveElement, FS_CardinalityType

\* post_request comes to every other CPU once: who is still to come has no
\* request yet, and the loop only runs in "post".
PostedOnce ==
    \A c \in CPUs :
        /\ pc[c] # "post" => targets[c] = {}
        /\ c \notin targets[c]
        /\ \A d \in targets[c] : ~Queued(c, d)

\* No CPU's request is queued twice with another CPU, nor with itself.
OncePerQueue == \A d \in CPUs : NoRepeat(requests[d]) /\ ~Queued(d, d)

IInv == TypeOK /\ PostedOnce /\ OncePerQueue /\ CountdownExact /\ NoStaleTranslation

\* No request is queued before the first unmap_range, and no TLB is filled.
LEMMA InitIInv == Init => IInv
<1> SUFFICES ASSUME Init PROVE IInv
  BY Zenon
<1> USE DEF Init
<1>1. \A c \in CPUs : \A d \in CPUs : ~Queued(c, d)
  BY DEF Queued
<1>2. \A c \in CPUs : Holders(c) = {}
  BY Zenon, <1>1 DEF Holders
<1>3. TypeOK
  BY DEF TypeOK, AllOperations
<1>4. PostedOnce
  BY Zenon, <1>1 DEF PostedOnce
<1>5. OncePerQueue
  <2>1. \A d \in CPUs : DOMAIN requests[d] = {}
    OBVIOUS
  <2> QED
    BY Zenon, <1>1, <2>1 DEF OncePerQueue, NoRepeat
<1>6. CountdownExact
  <2>1. \A c \in CPUs : countdown[c] = 0
    BY Zenon
  <2>2. \A c \in CPUs : Cardinality(Holders(c)) = 0
    BY <1>2, FS_EmptySet, Zenon
  <2> QED
    BY <2>1, <2>2 DEF CountdownExact
<1>7. NoStaleTranslation
  BY Zenon DEF NoStaleTranslation
<1> QED
  BY Zenon, <1>3, <1>4, <1>5, <1>6, <1>7 DEF IInv

\* A step that touches neither the queues nor the loop of post_request nor the
\* countdowns keeps what is said of the queues, if it leaves no CPU that has
\* posted to anyone.
LEMMA QueuesUntouched ==
    ASSUME IInv, UNCHANGED <<targets, countdown, requests>>,
           pc' \in [CPUs -> {"run", "spin", "unmap", "post", "wait", "unlock"}],
           \A c \in CPUs : targets[c] # {} => pc'[c] = "post",
           \A c \in CPUs : countdown[c] > 0 => pc'[c] \in {"post", "wait"}
    PROVE  PostedOnce' /\ OncePerQueue' /\ CountdownExact'
<1>1. \A c, d : Queued(c, d)' <=> Queued(c, d)
  BY Zenon DEF Queued
<1>2. PostedOnce'
  BY Zenon, <1>1 DEF IInv, TypeOK, PostedOnce
<1>3. OncePerQueue'
  BY Zenon, <1>1 DEF IInv, OncePerQueue
<1>4. \A c \in CPUs : Holders(c)' = Holders(c)
  BY Zenon, <1>1 DEF Holders
<1>5. CountdownExact'
  BY Zenon, <1>4 DEF IInv, CountdownExact
<1> QED
  BY Zenon, <1>2, <1>3, <1>5

\* A CPU in none of post_request and wait_for_completion has no request out.
LEMMA NothingOut ==
    ASSUME IInv, NEW c \in CPUs, pc[c] \notin {"post", "wait"}
    PROVE  targets[c] = {} /\ ~(countdown[c] > 0)
  BY Zenon DEF IInv, PostedOnce, CountdownExact

\* A translation that is stale stays accounted for as long as the CPU that
\* unmaps its page does.
LEMMA TranslationsUntouched ==
    ASSUME IInv, UNCHANGED <<mapped, tlb, targets, requests>>,
           \A c \in CPUs : pc[c] \in {"post", "wait"} =>
               \/ page'[c] = page[c] /\ pc'[c] \in {"post", "wait"}
               \/ targets[c] = {} /\ \A d \in CPUs : ~Queued(c, d)
    PROVE  NoStaleTranslation'
<1>1. \A c, d : Queued(c, d)' <=> Queued(c, d)
  BY Zenon DEF Queued
<1> SUFFICES ASSUME NEW d \in CPUs, NEW p \in tlb'[d] \ mapped'
             PROVE  \E c \in CPUs : page'[c] = p /\ pc'[c] \in {"post", "wait"}
                                       /\ (d \in targets'[c] \/ Queued(c, d)')
  BY Zenon DEF NoStaleTranslation
<1>2. PICK c \in CPUs : page[c] = p /\ pc[c] \in {"post", "wait"}
                            /\ (d \in targets[c] \/ Queued(c, d))
  BY DEF IInv, NoStaleTranslation
<1> QED
  BY Zenon, <1>1, <1>2

\* The steps that only move one CPU between program points, when that CPU has
\* no request out.
LEMMA LocalIInv ==
    ASSUME IInv, NEW c \in CPUs, pc[c] \notin {"post", "wait"}, TypeOK',
           NEW to \in {"run", "spin", "unmap", "unlock"},
           NEW q, page' = [page EXCEPT ![c] = q],
           pc' = [pc EXCEPT ![c] = to],
           UNCHANGED <<mapped, tlb, targets, countdown, requests>>
    PROVE  IInv'
<1>1. targets[c] = {} /\ ~(countdown[c] > 0)
  BY Zenon, NothingOut
<1>2. \A d \in CPUs : d # c => pc'[d] = pc[d] /\ page'[d] = page[d]
  BY Zenon DEF IInv, TypeOK
<1>3. PostedOnce' /\ OncePerQueue' /\ CountdownExact'
  <2>1. \A d \in CPUs : targets[d] # {} => pc'[d] = "post"
    BY Zenon, <1>1, <1>2 DEF IInv, PostedOnce
  <2>2. \A d \in CPUs : countdown[d] > 0 => pc'[d] \in {"post", "wait"}
    BY Zenon, <1>1, <1>2 DEF IInv, CountdownExact
  <2> QED
    BY Zenon, <2>1, <2>2, QueuesUntouched DEF TypeOK
<1>4. NoStaleTranslation'
  BY Zenon, <1>2, TranslationsUntouched
<1> QED
  BY Zenon, <1>3, <1>4 DEF IInv

\* Start, Acquire and Release post nothing.
LEMMA StartIInv ==
    ASSUME IInv, NEW c \in CPUs, NEW o \in Operations, NEW p \in Pages \union {NoPage},
           Start(c, o, p)
    PROVE  IInv'
<1> DEFINE to == IF o = "free" THEN "unmap" ELSE "spin"
<1>1. /\ pc[c] = "run" /\ page' = [page EXCEPT ![c] = p] /\ pc' = [pc EXCEPT ![c] = to]
      /\ op' = [op EXCEPT ![c] = o]
      /\ UNCHANGED <<mapped, tlb, targets, countdown, requests, lock>>
  BY Zenon DEF Start
<1>2. to \in {"run", "spin", "unmap", "unlock"}
  BY Zenon
<1> HIDE DEF to
<1>3. TypeOK'
  BY Zenon, <1>1, <1>2, OperationsAssumption DEF IInv, TypeOK
<1> QED
  BY <1>1, <1>2, <1>3, LocalIInv, Zenon

\* The lock is taken before anything is unmapped.
LEMMA AcquireIInv ==
    ASSUME IInv, NEW c \in CPUs, Acquire(c)
    PROVE  IInv'
<1> DEFINE to == IF op[c] = "free_all" THEN "unmap" ELSE "unlock"
<1>1. /\ pc[c] = "spin" /\ page' = page /\ pc' = [pc EXCEPT ![c] = to] /\ lock' = c
      /\ UNCHANGED <<mapped, tlb, op, targets, countdown, requests>>
  BY Zenon DEF Acquire
<1>2. to \in {"run", "spin", "unmap", "unlock"}
  BY Zenon
<1> HIDE DEF to
<1>3. TypeOK'
  BY Zenon, <1>1, <1>2 DEF IInv, TypeOK
<1>4. page' = [page EXCEPT ![c] = page[c]]
  BY Zenon, <1>1 DEF IInv, TypeOK
<1> QED
  BY <1>1, <1>2, <1>3, <1>4, LocalIInv, Zenon

\* The lock is released after the wait.
LEMMA ReleaseIInv ==
    ASSUME IInv, NEW c \in CPUs, Release(c)
    PROVE  IInv'
<1>1. /\ pc[c] = "unlock" /\ page' = page /\ pc' = [pc EXCEPT ![c] = "run"]
      /\ lock' = NoCPU /\ op' = [op EXCEPT ![c] = "free"]
      /\ UNCHANGED <<mapped, tlb, targets, countdown, requests>>
  BY Zenon DEF Release
<1>2. TypeOK'
  BY Zenon, <1>1 DEF IInv, TypeOK, AllOperations
<1>3. page' = [page EXCEPT ![c] = page[c]]
  BY Zenon, <1>1 DEF IInv, TypeOK
<1> QED
  BY <1>1, <1>2, <1>3, LocalIInv, Zenon

\* A countdown of zero means that no queue holds the request.
LEMMA ZeroMeansGone ==
    ASSUME IInv, NEW c \in CPUs, countdown[c] = 0
    PROVE  \A d \in CPUs : ~Queued(c, d)
<1>1. Cardinality(Holders(c)) = 0
  BY Zenon DEF IInv, CountdownExact
<1>2. IsFiniteSet(Holders(c))
  BY Zenon, FS_Subset, CPUsAssumption DEF Holders
<1>3. Holders(c) = {}
  BY Zenon, <1>1, <1>2, FS_EmptySet
<1> QED
  BY Zenon, <1>3 DEF Holders

\* The page leaves the page table and every other CPU is still to be told.
LEMMA UnmapIInv ==
    ASSUME IInv, NEW c \in CPUs, unmap_range(c)
    PROVE  IInv'
<1>1. /\ pc[c] = "unmap" /\ pc' = [pc EXCEPT ![c] = "post"]
      /\ mapped' = mapped \ {page[c]}
      /\ tlb' = [tlb EXCEPT ![c] = @ \ {page[c]}]
      /\ targets' = [targets EXCEPT ![c] = CPUs \ {c}]
      /\ UNCHANGED <<op, page, countdown, requests, lock>>
  BY Zenon DEF unmap_range
<1>2. \A a, d : Queued(a, d)' <=> Queued(a, d)
  BY Zenon, <1>1 DEF Queued
<1>3. TypeOK'
  BY Zenon, <1>1 DEF IInv, TypeOK
<1>4. \A d \in CPUs : /\ d # c => pc'[d] = pc[d] /\ targets'[d] = targets[d] /\ tlb'[d] = tlb[d]
                      /\ tlb'[d] \subseteq tlb[d]
  BY Zenon, <1>1 DEF IInv, TypeOK
<1>5. pc'[c] = "post" /\ targets'[c] = CPUs \ {c} /\ tlb'[c] = tlb[c] \ {page[c]}
  BY Zenon, <1>1 DEF IInv, TypeOK
<1>6. \A d \in CPUs : ~Queued(c, d)
  <2>1. countdown[c] = 0
    <3>1. ~(countdown[c] > 0)
      BY Zenon, <1>1, NothingOut
    <3>2. countdown[c] \in Nat
      BY Zenon DEF IInv, TypeOK
    <3> QED
      BY <3>1, <3>2
  <2> QED
    BY Zenon, <2>1, ZeroMeansGone
<1>7. PostedOnce'
  BY ZenonT(40), <1>2, <1>4, <1>5, <1>6 DEF IInv, PostedOnce
<1>8. OncePerQueue'
  BY Zenon, <1>1, <1>2 DEF IInv, OncePerQueue
<1>9. CountdownExact'
  <2>1. \A d \in CPUs : Holders(d)' = Holders(d)
    BY Zenon, <1>2 DEF Holders
  <2> QED
    BY ZenonT(40), <1>1, <1>4, <1>5, <2>1 DEF IInv, CountdownExact
<1>10. NoStaleTranslation'
  <2> SUFFICES ASSUME NEW d \in CPUs, NEW p \in tlb'[d] \ mapped'
               PROVE  \E a \in CPUs : page'[a] = p /\ pc'[a] \in {"post", "wait"}
                                         /\ (d \in targets'[a] \/ Queued(a, d)')
    BY Zenon DEF NoStaleTranslation
  <2>1. CASE p = page[c]
    <3>1. d # c
      BY Zenon, <1>5, <2>1
    <3> QED
      BY Zenon, <1>1, <1>5, <2>1, <3>1
  <2>2. CASE p # page[c]
    <3>1. p \in tlb[d] \ mapped
      BY Zenon, <1>1, <1>4, <2>2
    <3>2. PICK a \in CPUs : page[a] = p /\ pc[a] \in {"post", "wait"}
                                /\ (d \in targets[a] \/ Queued(a, d))
      BY Zenon, <3>1 DEF IInv, NoStaleTranslation
    <3> QED
      BY Zenon, <1>1, <1>2, <1>4, <2>2, <3>2
  <2> QED
    BY Zenon, <2>1, <2>2
<1> QED
  BY Zenon, <1>3, <1>7, <1>8, <1>9, <1>10 DEF IInv

\* The end of the loop of post_request tells nobody anything.
LEMMA PostDoneIInv ==
    ASSUME IInv, NEW c \in CPUs, post_done(c)
    PROVE  IInv'
<1>1. /\ pc[c] = "post" /\ targets[c] = {} /\ pc' = [pc EXCEPT ![c] = "wait"]
      /\ UNCHANGED <<mapped, tlb, op, page, targets, countdown, requests, lock>>
  BY Zenon DEF post_done
<1>2. TypeOK'
  BY Zenon, <1>1 DEF IInv, TypeOK
<1>3. \A d \in CPUs : IF d = c THEN pc'[d] = "wait" ELSE pc'[d] = pc[d]
  BY Zenon, <1>1 DEF IInv, TypeOK
<1>4. PostedOnce' /\ OncePerQueue' /\ CountdownExact'
  <2>1. \A d \in CPUs : targets[d] # {} => pc'[d] = "post"
    BY Zenon, <1>1, <1>3 DEF IInv, PostedOnce
  <2>2. \A d \in CPUs : countdown[d] > 0 => pc'[d] \in {"post", "wait"}
    BY Zenon, <1>3 DEF IInv, CountdownExact
  <2> QED
    BY Zenon, <1>1, <1>2, <2>1, <2>2, QueuesUntouched DEF TypeOK
<1>5. NoStaleTranslation'
  BY Zenon, <1>1, <1>3, TranslationsUntouched
<1> QED
  BY Zenon, <1>2, <1>4, <1>5 DEF IInv

\* wait_for_completion returns when nobody can use the page any more.
LEMMA WaitIInv ==
    ASSUME IInv, NEW c \in CPUs, wait_for_completion(c)
    PROVE  IInv'
<1> DEFINE to == IF op[c] = "free_all" THEN "unlock" ELSE "run"
<1>1. /\ pc[c] = "wait" /\ countdown[c] = 0
      /\ page' = [page EXCEPT ![c] = NoPage] /\ pc' = [pc EXCEPT ![c] = to]
      /\ UNCHANGED <<mapped, tlb, op, targets, countdown, requests, lock>>
  BY Zenon DEF wait_for_completion
<1>2. to \in {"unlock", "run"}
  BY Zenon
<1> HIDE DEF to
<1>3. TypeOK'
  BY Zenon, <1>1, <1>2 DEF IInv, TypeOK
<1>4. \A d \in CPUs : d # c => pc'[d] = pc[d] /\ page'[d] = page[d]
  BY Zenon, <1>1 DEF IInv, TypeOK
<1>5. targets[c] = {} /\ \A d \in CPUs : ~Queued(c, d)
  BY Zenon, <1>1, ZeroMeansGone DEF IInv, PostedOnce
<1>6. PostedOnce' /\ OncePerQueue' /\ CountdownExact'
  <2>1. \A d \in CPUs : targets[d] # {} => pc'[d] = "post"
    BY Zenon, <1>4, <1>5 DEF IInv, PostedOnce
  <2>2. \A d \in CPUs : countdown[d] > 0 => pc'[d] \in {"post", "wait"}
    BY <1>1, <1>4 DEF IInv, CountdownExact
  <2> QED
    BY Zenon, <1>1, <1>3, <2>1, <2>2, QueuesUntouched DEF TypeOK
<1>7. NoStaleTranslation'
  BY Zenon, <1>1, <1>4, <1>5, TranslationsUntouched
<1> QED
  BY Zenon, <1>3, <1>6, <1>7 DEF IInv

\* post_request counts a CPU and pushes the request to it, which had none.
LEMMA PostIInv ==
    ASSUME IInv, NEW c \in CPUs, NEW d \in CPUs, post_request(c, d)
    PROVE  IInv'
<1>1. /\ pc[c] = "post" /\ d \in targets[c]
      /\ targets' = [targets EXCEPT ![c] = @ \ {d}]
      /\ countdown' = [countdown EXCEPT ![c] = @ + 1]
      /\ requests' = [requests EXCEPT ![d] = Append(@, c)]
      /\ UNCHANGED <<mapped, tlb, pc, op, page, lock>>
  BY Zenon DEF post_request
<1>2. TypeOK'
  BY SMTT(40), <1>1 DEF IInv, TypeOK
<1>3. ~Queued(c, d) /\ c # d /\ requests[d] \in Seq(CPUs)
  BY Zenon, <1>1 DEF IInv, PostedOnce, TypeOK
<1>4. \A e \in CPUs : IF e = d THEN requests'[e] = Append(requests[e], c)
                               ELSE requests'[e] = requests[e]
  BY Zenon, <1>1 DEF IInv, TypeOK
<1>5. \A a \in CPUs, e \in CPUs : Queued(a, e)' <=> (Queued(a, e) \/ (a = c /\ e = d))
  <2> TAKE a \in CPUs, e \in CPUs
  <2>1. CASE e = d
    <3>1. In(a, Append(requests[d], c)) <=> (In(a, requests[d]) \/ a = c)
      BY Zenon, <1>3, AppendIn
    <3> QED
      BY Zenon, <1>4, <2>1, <3>1 DEF In, Queued
  <2>2. CASE e # d
    BY Zenon, <1>4, <2>2 DEF Queued
  <2> QED
    BY Zenon, <2>1, <2>2
<1>6. \A a \in CPUs : IF a = c THEN targets'[a] = targets[a] \ {d} /\ countdown'[a] = countdown[a] + 1
                               ELSE targets'[a] = targets[a] /\ countdown'[a] = countdown[a]
  BY Zenon, <1>1 DEF IInv, TypeOK
<1>7. PostedOnce'
  <2>1. \A a \in CPUs : targets'[a] \subseteq targets[a] /\ targets[a] \subseteq CPUs /\ pc'[a] = pc[a]
    BY Zenon, <1>1, <1>6 DEF IInv, TypeOK
  <2>2. d \notin targets'[c]
    BY Zenon, <1>6
  <2>3. \A a \in CPUs : \A e \in targets'[a] : ~Queued(a, e)'
    BY Zenon, <1>5, <2>1, <2>2 DEF IInv, PostedOnce
  <2>4. \A a \in CPUs : (pc'[a] # "post" => targets'[a] = {}) /\ a \notin targets'[a]
    BY Zenon, <2>1 DEF IInv, PostedOnce
  <2> QED
    BY Zenon, <2>3, <2>4 DEF PostedOnce
<1>8. OncePerQueue'
  <2>1. NoRepeat(requests'[d])
    <3>1. NoRepeat(requests[d]) /\ ~In(c, requests[d])
      BY Zenon, <1>3 DEF IInv, OncePerQueue, In, Queued
    <3>2. NoRepeat(Append(requests[d], c))
      BY Zenon, <1>3, <3>1, AppendIn
    <3> QED
      BY <1>4, <3>2, Zenon
  <2>2. \A e \in CPUs : NoRepeat(requests'[e])
    BY Zenon, <1>4, <2>1 DEF IInv, OncePerQueue
  <2>3. \A e \in CPUs : ~Queued(e, e)'
    BY Zenon, <1>3, <1>5 DEF IInv, OncePerQueue
  <2> QED
    BY Zenon, <2>2, <2>3 DEF OncePerQueue
<1>9. CountdownExact'
  <2>1. \A a \in CPUs : a # c => Holders(a)' = Holders(a)
    BY Zenon, <1>5 DEF Holders
  <2>2. Holders(c)' = Holders(c) \union {d} /\ d \notin Holders(c)
    BY Zenon, <1>3, <1>5 DEF Holders
  <2>3. IsFiniteSet(Holders(c))
    BY Zenon, FS_Subset, CPUsAssumption DEF Holders
  <2>4. Cardinality(Holders(c)') = Cardinality(Holders(c)) + 1
    BY Zenon, <2>2, <2>3, OneMore
  <2> QED
    BY Zenon, <1>1, <1>6, <2>1, <2>4 DEF IInv, CountdownExact
<1>10. NoStaleTranslation'
  <2> SUFFICES ASSUME NEW e \in CPUs, NEW p \in tlb'[e] \ mapped'
               PROVE  \E a \in CPUs : page'[a] = p /\ pc'[a] \in {"post", "wait"}
                                         /\ (e \in targets'[a] \/ Queued(a, e)')
    BY Zenon DEF NoStaleTranslation
  <2>1. PICK a \in CPUs : page[a] = p /\ pc[a] \in {"post", "wait"}
                              /\ (e \in targets[a] \/ Queued(a, e))
    BY Zenon, <1>1 DEF IInv, NoStaleTranslation
  <2> QED
    BY Zenon, <1>1, <1>5, <1>6, <2>1
<1> QED
  BY Zenon, <1>2, <1>7, <1>8, <1>9, <1>10 DEF IInv

\* process_pending invalidates the range before it counts the request down.
LEMMA ProcessIInv ==
    ASSUME IInv, NEW c \in CPUs, process_pending(c)
    PROVE  IInv'
<1>0. PICK r : r = Head(requests[c])
  BY Zenon
<1>1. /\ requests[c] # <<>>
      /\ tlb' = [tlb EXCEPT ![c] = @ \ {page[r]}]
      /\ countdown' = [countdown EXCEPT ![r] = @ - 1]
      /\ requests' = [requests EXCEPT ![c] = Tail(@)]
      /\ UNCHANGED <<mapped, pc, op, page, targets, lock>>
  BY Zenon, <1>0 DEF process_pending
<1>2. requests[c] \in Seq(CPUs) /\ NoRepeat(requests[c])
  BY Zenon DEF IInv, TypeOK, OncePerQueue
<1>3. r \in CPUs /\ Tail(requests[c]) \in Seq(CPUs)
  BY Zenon, <1>0, <1>1, <1>2, TailElements
<1>4. \A e \in CPUs : IF e = c THEN requests'[e] = Tail(requests[c])
                               ELSE requests'[e] = requests[e]
  BY Zenon, <1>1 DEF IInv, TypeOK
<1>5. /\ In(r, requests[c])
      /\ \A a : In(a, Tail(requests[c])) <=> (In(a, requests[c]) /\ a # r)
      /\ NoRepeat(Tail(requests[c]))
  BY Zenon, <1>0, <1>1, <1>2, TailIn
<1>6. Queued(r, c)
  BY Zenon, <1>5 DEF In, Queued
<1>7. \A a \in CPUs, e \in CPUs : Queued(a, e)' <=> (Queued(a, e) /\ ~(a = r /\ e = c))
  <2> TAKE a \in CPUs, e \in CPUs
  <2>1. CASE e = c
    <3>1. In(a, requests'[c]) <=> (In(a, requests[c]) /\ a # r)
      BY Zenon, <1>4, <1>5
    <3> QED
      BY Zenon, <2>1, <3>1 DEF In, Queued
  <2>2. CASE e # c
    BY Zenon, <1>4, <2>2 DEF Queued
  <2> QED
    BY Zenon, <2>1, <2>2
<1>8. \A a \in CPUs : a # r => Holders(a)' = Holders(a)
  BY Zenon, <1>7 DEF Holders
<1>9. Holders(r)' = Holders(r) \ {c} /\ c \in Holders(r)
  BY Zenon, <1>3, <1>6, <1>7 DEF Holders
<1>10. IsFiniteSet(Holders(r))
  BY Zenon, FS_Subset, CPUsAssumption DEF Holders
<1>11. /\ Cardinality(Holders(r)') = Cardinality(Holders(r)) - 1
       /\ Cardinality(Holders(r)') \in Nat /\ Cardinality(Holders(r)) \in Nat
  BY Zenon, <1>9, <1>10, OneLess
<1>12. countdown[r] - 1 \in Nat /\ countdown[r] > 0
  BY <1>3, <1>11 DEF IInv, CountdownExact
<1>13. \A a \in CPUs : countdown'[a] = IF a = r THEN countdown[a] - 1 ELSE countdown[a]
  BY Zenon, <1>1, <1>3 DEF IInv, TypeOK
<1>14. TypeOK'
  BY SMTT(40), <1>1, <1>3, <1>12 DEF IInv, TypeOK
<1>15. PostedOnce'
  BY Zenon, <1>1, <1>7 DEF IInv, TypeOK, PostedOnce
<1>16. OncePerQueue'
  BY Zenon, <1>4, <1>5, <1>7 DEF IInv, OncePerQueue
<1>17. CountdownExact'
  BY Zenon, <1>1, <1>3, <1>8, <1>11, <1>12, <1>13 DEF IInv, CountdownExact
<1>18. NoStaleTranslation'
  <2> SUFFICES ASSUME NEW d \in CPUs, NEW p \in tlb'[d] \ mapped'
               PROVE  \E a \in CPUs : page'[a] = p /\ pc'[a] \in {"post", "wait"}
                                         /\ (d \in targets'[a] \/ Queued(a, d)')
    BY Zenon DEF NoStaleTranslation
  <2>1. p \in tlb[d] \ mapped /\ (d = c => p # page[r])
    BY Zenon, <1>1 DEF IInv, TypeOK
  <2>2. PICK a \in CPUs : page[a] = p /\ pc[a] \in {"post", "wait"}
                              /\ (d \in targets[a] \/ Queued(a, d))
    BY Zenon, <2>1 DEF IInv, NoStaleTranslation
  <2> QED
    BY Zenon, <1>1, <1>7, <2>1, <2>2
<1> QED
  BY Zenon, <1>14, <1>15, <1>16, <1>17, <1>18 DEF IInv

\* Only a mapped page enters a TLB or the page table.
LEMMA TranslateIInv ==
    ASSUME IInv, NEW p \in Pages, (\E c \in CPUs : Translate(c, p)) \/ map_page(p)
    PROVE  IInv'
<1>1. UNCHANGED <<pc, op, page, targets, countdown, requests, lock>>
  BY Zenon DEF Translate, map_page
<1>2. TypeOK' /\ \A d \in CPUs : tlb'[d] \ mapped' \subseteq tlb[d] \ mapped
  <2>1. CASE map_page(p)
    BY Zenon, <2>1 DEF map_page, IInv, TypeOK
  <2>2. ASSUME NEW c \in CPUs, Translate(c, p)
        PROVE  TypeOK' /\ \A d \in CPUs : tlb'[d] \ mapped' \subseteq tlb[d] \ mapped
    <3>1. /\ mapped' = mapped
          /\ \/ p \in mapped \ tlb[c] /\ tlb' = [tlb EXCEPT ![c] = @ \union {p}]
             \/ p \in tlb[c] /\ tlb' = [tlb EXCEPT ![c] = @ \ {p}]
      BY Zenon, <2>2 DEF Translate
    <3>2. tlb' \in [CPUs -> SUBSET Pages]
      <4>1. tlb \in [CPUs -> SUBSET Pages] /\ tlb[c] \in SUBSET Pages
        BY Zenon DEF IInv, TypeOK
      <4>2. tlb[c] \union {p} \in SUBSET Pages /\ tlb[c] \ {p} \in SUBSET Pages
        BY Zenon, <4>1
      <4> QED
        BY Zenon, <3>1, <4>1, <4>2
    <3>3. \A d \in CPUs : tlb'[d] \ mapped \subseteq tlb[d] \ mapped
      <4>1. \A d \in CPUs : d # c => tlb'[d] = tlb[d]
        BY Zenon, <3>1 DEF IInv, TypeOK
      <4>2. (tlb'[c] = tlb[c] \union {p} /\ p \in mapped) \/ tlb'[c] = tlb[c] \ {p}
        BY Zenon, <3>1 DEF IInv, TypeOK
      <4> QED
        BY Zenon, <4>1, <4>2
    <3> QED
      BY Zenon, <1>1, <3>1, <3>2, <3>3 DEF IInv, TypeOK
  <2> QED
    BY Zenon, <2>1, <2>2
<1>3. PostedOnce' /\ OncePerQueue' /\ CountdownExact'
  <2>1. \A d \in CPUs : targets[d] # {} => pc'[d] = "post"
    BY Zenon, <1>1 DEF IInv, PostedOnce
  <2>2. \A d \in CPUs : countdown[d] > 0 => pc'[d] \in {"post", "wait"}
    BY Zenon, <1>1 DEF IInv, CountdownExact
  <2> QED
    BY Zenon, <1>1, <1>2, <2>1, <2>2, QueuesUntouched DEF TypeOK
<1>4. NoStaleTranslation'
  <2>1. \A a, d : Queued(a, d)' <=> Queued(a, d)
    BY Zenon, <1>1 DEF Queued
  <2> SUFFICES ASSUME NEW d \in CPUs, NEW q \in tlb'[d] \ mapped'
               PROVE  \E a \in CPUs : page'[a] = q /\ pc'[a] \in {"post", "wait"}
                                         /\ (d \in targets'[a] \/ Queued(a, d)')
    BY Zenon DEF NoStaleTranslation
  <2>2. PICK a \in CPUs : page[a] = q /\ pc[a] \in {"post", "wait"}
                              /\ (d \in targets[a] \/ Queued(a, d))
    BY Zenon, <1>2 DEF IInv, NoStaleTranslation
  <2> QED
    BY Zenon, <1>1, <2>1, <2>2
<1> QED
  BY Zenon, <1>2, <1>3, <1>4 DEF IInv

\* No step of any CPU breaks the invariant.
LEMMA NextIInv == IInv /\ [Next]_vars => IInv'
<1> SUFFICES ASSUME IInv, [Next]_vars
             PROVE  IInv'
  BY Zenon
<1>1. CASE UNCHANGED vars
  <2> USE <1>1 DEF vars
  <2>1. TypeOK'
    BY Zenon DEF IInv, TypeOK
  <2>2. PostedOnce' /\ OncePerQueue' /\ CountdownExact'
    <3>1. \A d \in CPUs : targets[d] # {} => pc'[d] = "post"
      BY Zenon DEF IInv, PostedOnce
    <3>2. \A d \in CPUs : countdown[d] > 0 => pc'[d] \in {"post", "wait"}
      BY Zenon DEF IInv, CountdownExact
    <3> QED
      BY Zenon, <2>1, <3>1, <3>2, QueuesUntouched DEF TypeOK
  <2>3. NoStaleTranslation'
    BY Zenon, TranslationsUntouched
  <2> QED
    BY Zenon, <2>1, <2>2, <2>3 DEF IInv
<1>2. ASSUME NEW c \in CPUs, Kernel(c)
      PROVE  IInv'
  BY Zenon, <1>2, AcquireIInv, ReleaseIInv, UnmapIInv, PostIInv, PostDoneIInv, WaitIInv DEF Kernel
<1>3. ASSUME NEW c \in CPUs, process_pending(c)
      PROVE  IInv'
  BY Zenon, <1>3, ProcessIInv
<1>4. ASSUME NEW c \in CPUs, NEW o \in Operations, NEW p \in Pages \union {NoPage}, Start(c, o, p)
      PROVE  IInv'
  BY Zenon, <1>4, StartIInv
<1>5. ASSUME NEW p \in Pages, (\E c \in CPUs : Translate(c, p)) \/ map_page(p)
      PROVE  IInv'
  BY Zenon, <1>5, TranslateIInv
<1> QED
  BY Zenon, <1>1, <1>2, <1>3, <1>4, <1>5 DEF Next

\* The invariant of the shootdown holds of every behaviour.
THEOREM ShootdownInvariant == Spec => []IInv
  BY InitIInv, NextIInv, PTL DEF Spec

\* unmap_range does not return while any CPU can still use the old translation.
THEOREM ShootdownNoStaleTranslation == Spec => []NoStaleTranslation
<1>1. IInv => NoStaleTranslation
  BY Zenon DEF IInv
<1> QED
  BY <1>1, ShootdownInvariant, PTL

\* No queue holds a pointer to a request that has left its owner's stack.
THEOREM ShootdownCountdownExact == Spec => []CountdownExact
<1>1. IInv => CountdownExact
  BY Zenon DEF IInv
<1> QED
  BY <1>1, ShootdownInvariant, PTL

\* A queue without repetitions and without its own CPU has room for the others.
LEMMA QueueBound == IInv => QueueNeverFull
<1> SUFFICES ASSUME IInv, NEW d \in CPUs
             PROVE  /\ Len(requests[d]) <= MaxRequests
                    /\ NoRepeat(requests[d])
                    /\ ~Queued(d, d)
  BY Zenon DEF QueueNeverFull, NoRepeat
<1> DEFINE q == requests[d]  n == Len(q)  Rest == CPUs \ {d}
<1>1. q \in Seq(CPUs) /\ NoRepeat(q) /\ ~Queued(d, d)
  BY Zenon DEF IInv, TypeOK, OncePerQueue
<1>2. n \in Nat /\ DOMAIN q = 1 .. n /\ q \in [1 .. n -> CPUs]
  BY <1>1
<1>3. q \in Injection(1 .. n, Rest)
  <2>1. \A i \in 1 .. n : q[i] \in Rest
    BY Zenon, <1>1, <1>2 DEF Queued
  <2>2. q \in [1 .. n -> Rest]
    BY Zenon, <1>2, <2>1
  <2> QED
    BY Zenon, <1>1, <1>2, <2>2 DEF Injection, IsInjective, NoRepeat
<1>4. IsFiniteSet(Rest) /\ Cardinality(Rest) = Cardinality(CPUs) - 1
  BY Zenon, CPUsAssumption, FS_RemoveElement
<1>5. Cardinality(1 .. n) = n
  BY <1>2, FS_Interval
<1>6. n <= Cardinality(Rest)
  BY <1>3, <1>4, <1>5, FS_Injection
<1>7. Cardinality(CPUs) \in Nat
  BY Zenon, CPUsAssumption, FS_CardinalityType
<1> QED
  BY <1>1, <1>2, <1>4, <1>6, <1>7, MaxRequestsAssumption

\* push_request's "IPI request queue full" panic is never reached.
THEOREM ShootdownQueueNeverFull == Spec => []QueueNeverFull
  BY QueueBound, ShootdownInvariant, PTL

-----------------------------------------------------------------------------
(* The proof of StartExact, for any finite set of processors.                *)

\* The processors are finitely many, and the boot processor is none of the others.
Distinct == IsFiniteSet(Others) /\ BSP \notin Others /\ Nobody \notin Others \union {BSP}

InTrampoline == {"wait-for-SIPI", "trampoline", "wait for ack", "paging"}
InEntrypoint == {"entrypoint", "calibrating", "calibrated"}
Up == {"online", "idle", "scheduled"}

BeforeStart == {"create", "next", "make primary", "done"}
BeforeInit == {"lock", "init"}
Starting == {"first SIPI", "first check", "second SIPI", "second check"}

StartTypes ==
    /\ bsp \in BeforeStart \union BeforeInit \union Starting \union {"wait", "panic"}
    /\ ap \in [Others -> {"off"} \union InTrampoline \union InEntrypoint \union Up]
    /\ remaining \subseteq Others
    /\ ALIVE \in BOOLEAN /\ ACKNOWLEDGED \in BOOLEAN
    /\ starting \in Others \union {Nobody} /\ STACK \in Others \union {Nobody}
    /\ primary \in {"PIT", "LAPIC"}

\* Processors are started one after the other: how far each is while start_processor() is where it is.
OneAtATime ==
    /\ \A c \in Others : ap[c] = "off" <=> c \in remaining \/ (c = starting /\ bsp \in BeforeInit)
    /\ \A c \in Others : ap[c] \in InTrampoline \union InEntrypoint => c = starting
    /\ bsp \notin BeforeStart => starting \in Others /\ STACK = starting /\ starting \notin remaining
    /\ bsp \in BeforeStart => \A c \in Others : ap[c] \in {"off"} \union Up
    /\ bsp = "create" => remaining = Others
    /\ bsp \in {"make primary", "done"} => remaining = {}

\* ALIVE and ACKNOWLEDGED are about the processor that is being started.
HandShake ==
    /\ bsp \in BeforeInit => ~ALIVE /\ ~ACKNOWLEDGED
    /\ bsp \in Starting \union {"panic"} =>
           /\ ap[starting] \in {"wait-for-SIPI", "trampoline", "wait for ack"} /\ ~ACKNOWLEDGED
           /\ ALIVE => ap[starting] = "wait for ack"
    /\ bsp = "wait" => ap[starting] \notin {"off", "wait-for-SIPI", "trampoline"}

OnlineExact ==
    /\ \A c \in Others : c \in online <=> ap[c] \in Up
    /\ BSP \in online /\ online \subseteq Others \union {BSP}

TimerExact ==
    /\ pitLock \in Others \union {BSP, Nobody}
    /\ pitLock = BSP <=> bsp \in {"init", "panic"} \union Starting
    /\ \A c \in Others : ap[c] = "calibrating" <=> pitLock = c
    /\ primary = "LAPIC" => bsp = "done"
    /\ \A c \in Others : ap[c] = "scheduled" => primary = "LAPIC"

StacksExact == stackOf = [c \in Others |-> IF ap[c] \in InEntrypoint \union Up THEN c ELSE Nobody]

Counted == {c \in Others : Past(c, {"idle", "scheduled"})}
CounterExact == s_alive_counter = 1 + Cardinality(Counted)

\* What start_all_processors() and the processors it has started maintain together.
StartupIInv == StartTypes /\ OneAtATime /\ HandShake /\ OnlineExact /\ TimerExact /\ StacksExact /\ CounterExact

\* The boot processor is alone.
LEMMA StartupInit == ASSUME Distinct, StartInit PROVE StartupIInv
<1> USE DEF StartInit, Distinct, BeforeStart, BeforeInit, Starting, InTrampoline, InEntrypoint, Up
<1>1. StartTypes /\ OneAtATime /\ HandShake
  BY Zenon DEF StartTypes, OneAtATime, HandShake
<1>2. OnlineExact /\ TimerExact /\ StacksExact
  BY Zenon DEF OnlineExact, TimerExact, StacksExact
<1>3. CounterExact
  <2>1. Counted = {}
    BY Zenon DEF Counted, Past
  <2> QED
    BY <2>1, FS_EmptySet DEF CounterExact
<1> QED
  BY Zenon, <1>1, <1>2, <1>3 DEF StartupIInv

\* A step that moves no processor to where it is counted, or from there, leaves the counter right.
LEMMA NotCounted ==
    ASSUME StartupIInv, s_alive_counter' = s_alive_counter,
           \A c \in Others : ap'[c] \in {"idle", "scheduled"} <=> ap[c] \in {"idle", "scheduled"}
    PROVE  CounterExact'
<1>1. Counted' = Counted
  BY Zenon DEF Counted, Past
<1> QED
  BY Zenon, <1>1 DEF StartupIInv, CounterExact

\* The steps of the boot processor.
LEMMA BootProcessor ==
    ASSUME Distinct, StartupIInv,
           CreateLocalData \/ StartProcessor \/ LockTimer \/ send_init_to \/ send_startup_to \/ CheckAlive
              \/ WaitOnline \/ MakePrimary
    PROVE  StartupIInv'
<1> USE DEF StartupIInv, Distinct, BeforeStart, BeforeInit, Starting, InTrampoline, InEntrypoint, Up
<1> USE DEF StartTypes
<1>0. ASSUME UNCHANGED <<ap, s_alive_counter>> PROVE CounterExact'
  BY Zenon, <1>0, NotCounted
<1>1. CASE CreateLocalData
  <2>1. StartTypes' /\ OneAtATime' /\ HandShake'
    BY Zenon, <1>1 DEF CreateLocalData, OneAtATime, HandShake
  <2>2. OnlineExact' /\ TimerExact' /\ StacksExact'
    BY ZenonT(40), <1>1 DEF CreateLocalData, OnlineExact, TimerExact, StacksExact
  <2> QED
    BY Zenon, <1>0, <1>1, <2>1, <2>2 DEF CreateLocalData
<1>2. CASE StartProcessor
  <2>1. StartTypes' /\ OneAtATime' /\ HandShake'
    BY Zenon, <1>2 DEF StartProcessor, OneAtATime, HandShake
  <2>2. OnlineExact' /\ TimerExact' /\ StacksExact'
    BY Zenon, <1>2 DEF StartProcessor, OnlineExact, TimerExact, StacksExact
  <2> QED
    BY Zenon, <1>0, <1>2, <2>1, <2>2 DEF StartProcessor
<1>3. CASE LockTimer
  <2>1. StartTypes' /\ OneAtATime' /\ HandShake'
    BY Zenon, <1>3 DEF LockTimer, OneAtATime, HandShake
  <2>2. OnlineExact' /\ TimerExact' /\ StacksExact'
    BY ZenonT(40), <1>3 DEF LockTimer, OneAtATime, OnlineExact, TimerExact, StacksExact
  <2> QED
    BY Zenon, <1>0, <1>3, <2>1, <2>2 DEF LockTimer
<1>4. CASE send_init_to
  <2>0. starting \in Others /\ ap[starting] = "off"
    BY Zenon, <1>4 DEF send_init_to, OneAtATime
  <2>1. StartTypes' /\ OneAtATime' /\ HandShake'
    BY Zenon, <1>4, <2>0 DEF send_init_to, OneAtATime, HandShake
  <2>2. OnlineExact' /\ TimerExact' /\ StacksExact'
    BY Zenon, <1>4, <2>0 DEF send_init_to, OnlineExact, TimerExact, StacksExact
  <2>3. CounterExact'
    BY Zenon, <1>4, <2>0, NotCounted DEF send_init_to
  <2> QED
    BY Zenon, <2>1, <2>2, <2>3
<1>5. CASE send_startup_to
  <2>0. starting \in Others /\ ap' \in {ap, [ap EXCEPT ![starting] = "trampoline"]}
        /\ (ap' # ap => ap[starting] = "wait-for-SIPI")
    BY Zenon, <1>5 DEF send_startup_to, OneAtATime
  <2>1. StartTypes' /\ OneAtATime' /\ HandShake'
    BY Zenon, <1>5, <2>0 DEF send_startup_to, OneAtATime, HandShake
  <2>2. OnlineExact' /\ TimerExact' /\ StacksExact'
    BY ZenonT(40), <1>5, <2>0 DEF send_startup_to, OnlineExact, TimerExact, StacksExact
  <2>3. CounterExact'
    BY Zenon, <1>5, <2>0, NotCounted DEF send_startup_to
  <2> QED
    BY Zenon, <2>1, <2>2, <2>3
<1>6. CASE CheckAlive
  <2>1. StartTypes' /\ OneAtATime' /\ HandShake'
    BY Zenon, <1>6 DEF CheckAlive, OneAtATime, HandShake
  <2>2. OnlineExact' /\ TimerExact' /\ StacksExact'
    BY ZenonT(40), <1>6 DEF CheckAlive, OneAtATime, HandShake, OnlineExact, TimerExact, StacksExact
  <2> QED
    BY Zenon, <1>0, <1>6, <2>1, <2>2 DEF CheckAlive
<1>7. CASE WaitOnline
  <2>1. StartTypes' /\ OneAtATime' /\ HandShake'
    BY Zenon, <1>7 DEF WaitOnline, Arrived, OneAtATime, HandShake, OnlineExact
  <2>2. OnlineExact' /\ TimerExact' /\ StacksExact'
    BY Zenon, <1>7 DEF WaitOnline, OnlineExact, TimerExact, StacksExact
  <2> QED
    BY Zenon, <1>0, <1>7, <2>1, <2>2 DEF WaitOnline
<1>8. CASE MakePrimary
  <2>1. StartTypes' /\ OneAtATime' /\ HandShake'
    BY Zenon, <1>8 DEF MakePrimary, OneAtATime, HandShake
  <2>2. OnlineExact' /\ TimerExact' /\ StacksExact'
    BY Zenon, <1>8 DEF MakePrimary, OnlineExact, TimerExact, StacksExact
  <2> QED
    BY Zenon, <1>0, <1>8, <2>1, <2>2 DEF MakePrimary
<1> QED
  BY Zenon, <1>1, <1>2, <1>3, <1>4, <1>5, <1>6, <1>7, <1>8

\* A processor that moves is the one being started, until it is up.
LEMMA ApplicationProcessor ==
    ASSUME Distinct, StartupIInv, NEW c \in Others, bsp # "panic",
           \/ Trampoline(c) \/ wait_for_bsp(c) \/ higher_half(c) \/ BeginCalibration(c)
           \/ EndCalibration(c) \/ bring_online(c) \/ EnableInterrupts(c) \/ on_tick(c)
    PROVE  StartupIInv'
<1> USE DEF StartupIInv, Distinct, BeforeStart, BeforeInit, Starting, InTrampoline, InEntrypoint, Up, Moves
<1> USE DEF StartTypes
<1>1. CASE Trampoline(c)
  <2>1. StartTypes' /\ OneAtATime' /\ HandShake'
    BY Zenon, <1>1 DEF Trampoline, OneAtATime, HandShake
  <2>2. OnlineExact' /\ TimerExact' /\ StacksExact'
    BY ZenonT(40), <1>1 DEF Trampoline, OnlineExact, TimerExact, StacksExact
  <2>3. CounterExact'
    BY Zenon, <1>1, NotCounted DEF Trampoline
  <2> QED
    BY Zenon, <2>1, <2>2, <2>3
<1>2. CASE wait_for_bsp(c)
  <2>1. StartTypes' /\ OneAtATime' /\ HandShake'
    BY Zenon, <1>2 DEF wait_for_bsp, OneAtATime, HandShake
  <2>2. OnlineExact' /\ TimerExact' /\ StacksExact'
    BY ZenonT(40), <1>2 DEF wait_for_bsp, OnlineExact, TimerExact, StacksExact
  <2>3. CounterExact'
    BY Zenon, <1>2, NotCounted DEF wait_for_bsp
  <2> QED
    BY Zenon, <2>1, <2>2, <2>3
<1>3. CASE higher_half(c)
  <2>0. c = starting /\ STACK = c
    BY Zenon, <1>3 DEF higher_half, OneAtATime
  <2>1. StartTypes' /\ OneAtATime' /\ HandShake'
    BY Zenon, <1>3 DEF higher_half, OneAtATime, HandShake
  <2>2. OnlineExact' /\ TimerExact' /\ StacksExact'
    BY Zenon, <1>3, <2>0 DEF higher_half, OnlineExact, TimerExact, StacksExact
  <2>3. CounterExact'
    BY Zenon, <1>3, NotCounted DEF higher_half
  <2> QED
    BY Zenon, <2>1, <2>2, <2>3
<1>4. CASE BeginCalibration(c)
  <2>1. StartTypes' /\ OneAtATime' /\ HandShake'
    BY Zenon, <1>4 DEF BeginCalibration, OneAtATime, HandShake
  <2>2. OnlineExact' /\ TimerExact' /\ StacksExact'
    BY ZenonT(40), <1>4 DEF BeginCalibration, OnlineExact, TimerExact, StacksExact
  <2>3. CounterExact'
    BY Zenon, <1>4, NotCounted DEF BeginCalibration
  <2> QED
    BY Zenon, <2>1, <2>2, <2>3
<1>5. CASE EndCalibration(c)
  <2>1. StartTypes' /\ OneAtATime' /\ HandShake'
    BY Zenon, <1>5 DEF EndCalibration, OneAtATime, HandShake
  <2>2. OnlineExact' /\ TimerExact' /\ StacksExact'
    BY ZenonT(40), <1>5 DEF EndCalibration, OnlineExact, TimerExact, StacksExact
  <2>3. CounterExact'
    BY Zenon, <1>5, NotCounted DEF EndCalibration
  <2> QED
    BY Zenon, <2>1, <2>2, <2>3
<1>6. CASE bring_online(c)
  <2>1. StartTypes' /\ OneAtATime' /\ HandShake'
    BY Zenon, <1>6 DEF bring_online, OneAtATime, HandShake
  <2>2. OnlineExact' /\ TimerExact' /\ StacksExact'
    BY ZenonT(40), <1>6 DEF bring_online, OnlineExact, TimerExact, StacksExact
  <2>3. CounterExact'
    BY Zenon, <1>6, NotCounted DEF bring_online
  <2> QED
    BY Zenon, <2>1, <2>2, <2>3
<1>7. CASE EnableInterrupts(c)
  <2>1. StartTypes' /\ OneAtATime' /\ HandShake'
    BY ZenonT(40), <1>7 DEF EnableInterrupts, OneAtATime, HandShake
  <2>2. OnlineExact' /\ TimerExact' /\ StacksExact'
    BY Zenon, <1>7 DEF EnableInterrupts, OnlineExact, TimerExact, StacksExact
  <2>3. CounterExact'
    <3>1. Counted' = Counted \union {c} /\ c \notin Counted
      BY Zenon, <1>7 DEF EnableInterrupts, Counted, Past
    <3>2. IsFiniteSet(Counted)
      BY Zenon, FS_Subset DEF Counted
    <3>3. Cardinality(Counted') = Cardinality(Counted) + 1 /\ Cardinality(Counted) \in Nat
      BY Zenon, <3>1, <3>2, OneMore
    <3>4. s_alive_counter' = s_alive_counter + 1 /\ s_alive_counter = 1 + Cardinality(Counted)
      BY Zenon, <1>7 DEF EnableInterrupts, CounterExact
    <3>5. s_alive_counter' = 1 + Cardinality(Counted')
      <4> HIDE DEF StartupIInv, StartTypes, Distinct
      <4> QED
        BY ONLY SMT, <3>3, <3>4
    <3> QED
      BY ONLY Zenon, <3>5 DEF CounterExact
  <2> QED
    BY Zenon, <2>1, <2>2, <2>3
<1>8. CASE on_tick(c)
  <2>1. StartTypes' /\ OneAtATime' /\ HandShake'
    BY Zenon, <1>8 DEF on_tick, OneAtATime, HandShake
  <2>2. OnlineExact' /\ TimerExact' /\ StacksExact'
    BY ZenonT(40), <1>8 DEF on_tick, OnlineExact, TimerExact, StacksExact
  <2>3. CounterExact'
    BY Zenon, <1>8, NotCounted DEF on_tick
  <2> QED
    BY Zenon, <2>1, <2>2, <2>3
<1> QED
  BY ZenonT(40), <1>1, <1>2, <1>3, <1>4, <1>5, <1>6, <1>7, <1>8

\* No step of any processor breaks the invariant.
LEMMA StartupNext == ASSUME Distinct, StartupIInv, [StartNext]_startVars PROVE StartupIInv'
<1>1. CASE UNCHANGED startVars
  <2>1. StartTypes' /\ OneAtATime' /\ HandShake'
    <3>1. StartTypes'
      BY Zenon, <1>1 DEF startVars, StartupIInv, StartTypes
    <3>2. OneAtATime'
      BY Zenon, <1>1 DEF startVars, StartupIInv, OneAtATime
    <3>3. HandShake'
      BY Zenon, <1>1 DEF startVars, StartupIInv, HandShake
    <3> QED
      BY Zenon, <3>1, <3>2, <3>3
  <2>2. OnlineExact' /\ TimerExact' /\ StacksExact'
    BY Zenon, <1>1 DEF startVars, StartupIInv, OnlineExact, TimerExact, StacksExact
  <2>3. CounterExact'
    BY Zenon, <1>1, NotCounted DEF startVars
  <2> QED
    BY Zenon, <2>1, <2>2, <2>3 DEF StartupIInv
<1>2. CASE StartNext
  BY Zenon, <1>2, BootProcessor, ApplicationProcessor DEF StartNext
<1> QED
  BY Zenon, <1>1, <1>2

\* The invariant says what StartExact does, and more.
LEMMA IInvImplies == ASSUME Distinct, StartupIInv PROVE StartExact
<1> USE DEF StartupIInv, Distinct, BeforeStart, BeforeInit, Starting, InTrampoline, InEntrypoint, Up, StartTypes
<1>1. ASSUME NEW c \in Others
      PROVE  /\ stackOf[c] \in {Nobody, c}
             /\ ap[c] \in InEntrypoint \union Up => stackOf[c] = c
             /\ ap[c] \in InTrampoline => c = starting
  BY Zenon, <1>1 DEF StacksExact, OneAtATime
<1>2. ASSUME NEW c \in Others, ap[c] = "calibrating"
      PROVE  pitLock = c /\ primary = "PIT" /\ bsp = "wait"
  BY Zenon, <1>2 DEF OneAtATime, HandShake, TimerExact
<1>3. ASSUME bsp \in {"make primary", "done"}
      PROVE  online = Others \union {BSP}
  <2>1. \A c \in Others : ap[c] \in Up
    BY Zenon, <1>3 DEF OneAtATime
  <2> QED
    BY Zenon, <2>1 DEF OnlineExact
<1>4. ASSUME NEW c \in Others, ap[c] = "scheduled"
      PROVE  online = Others \union {BSP}
  BY Zenon, <1>3, <1>4 DEF TimerExact
<1> QED
  BY Zenon, <1>1, <1>2, <1>3, <1>4 DEF StartExact, Past, CounterExact, Counted

\* However many processors there are and however slow: each runs on its own stack, the words of
\* low memory and the PIT have one user at a time, and nobody schedules before all are online.
THEOREM ProcessorsStart == ASSUME Distinct PROVE StartSpec => []StartExact
<1>1. StartInit => StartupIInv
  BY Zenon, StartupInit
<1>2. StartupIInv /\ [StartNext]_startVars => StartupIInv'
  BY Zenon, StartupNext
<1>3. StartupIInv => StartExact
  BY Zenon, IInvImplies
<1> QED
  BY <1>1, <1>2, <1>3, PTL DEF StartSpec
=============================================================================
