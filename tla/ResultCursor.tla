--------------------------- MODULE ResultCursor ---------------------------
(***************************************************************************)
(* StaxResultSet (src/stax_js/index.js, class StaxResultSet): the wrapper  *)
(* around one native result-set handle, and the lazy record sequence its   *)
(* [Symbol.asyncIterator] builds by paging through the handle.             *)
(*                                                                         *)
(* Each consumer is a `for await` loop over its own generator object.      *)
(* JavaScript runs a generator body without interruption from one `yield`  *)
(* to the next, so one resumption of a generator (a call of next() or of   *)
(* return()) is one atomic action here.  Between two resumptions any other *)
(* code may run: another generator over the same cursor, or a close() by   *)
(* the owner of the cursor.                                                *)
(*                                                                         *)
(* The native handle is the engine's (spec section 4.6, 6): it holds the   *)
(* records 1..resultCount in order, reports reportedTotal from             *)
(* getTotalCount(), and getPage(p, size) returns the p-th slice of `size`  *)
(* records, empty past the end.                                            *)
(***************************************************************************)
EXTENDS Naturals, Sequences, SequencesExt

CONSTANTS
    Iterators,    \* the generator objects created over the cursor
    ResultSizes,  \* numbers of records an engine result set may hold
    Undefined     \* the value JavaScript reads past the end of an array

ASSUME ResultSizes \subseteq Nat

VARIABLES
    resultCount,   \* records the native result set really holds
    reportedTotal, \* what the native getTotalCount() answers
    handle,        \* this._resultSet: "open" (the handle) or "closed" (null)
    gen,           \* gen[i]: the locals and position of generator i
    yielded        \* yielded[i]: the records generator i has produced

vars == <<resultCount, reportedTotal, handle, gen, yielded>>

\* The fixed page size of the lazy sequence (index.js line 35).
IteratorPageSize == 50

\* The page size getPage() falls back to for a non-positive size.
DefaultPageSize == 50

\* Where a generator is: not yet started, suspended at its `yield`, or
\* finished by running out of records, by an early `break`, or by an error.
Finished == {"exhausted", "broken", "failed"}
GenStates == {"fresh", "suspended"} \cup Finished

---------------------------------------------------------------------------
(* The engine side of the handle (spec_modelled: the engine is native).    *)

Recs == [k \in 1..resultCount |-> k]

\* The native getPage(p, size): records (p-1)*size+1 .. p*size, cut at the
\* end of the result set; empty beyond it.
EngineGetPage(p, size) ==
    SubSeq(Recs, (p - 1) * size + 1, Min({p * size, resultCount}))

---------------------------------------------------------------------------
(* The wrapper's methods.                                                  *)

\* getPage(): non-positive arguments are replaced by the defaults before the
\* native call.  The "closed" check is the caller's guard.
GetPage(pageNumber, pageSize) ==
    EngineGetPage(IF pageNumber < 1 THEN 1 ELSE pageNumber,
                  IF pageSize < 1 THEN DefaultPageSize ELSE pageSize)

\* getTotalCount(): 0 once closed, otherwise the native answer.
GetTotalCount == IF handle = "closed" THEN 0 ELSE reportedTotal

\* close(): the native close() runs only while the handle is set (the
\* engine's release is not modelled); either way the handle ends null.
CloseRS == handle' = "closed"

\* page.results[k] in JavaScript: undefined past the end.
At(page, k) == IF k \in DOMAIN page THEN page[k] ELSE Undefined

---------------------------------------------------------------------------
(* The generator body.  g is generator i's record of locals: totalCount   *)
(* (total), currentPageNumber (pageNo), totalFetched (fetched), the page   *)
(* being walked and the index of the record last yielded from it.         *)

\* `yield result`: produce page[k] and suspend.
Yield(i, g, page, k) ==
    /\ gen' = [gen EXCEPT ![i] = [g EXCEPT !.pc = "suspended",
                                            !.page = page, !.idx = k]]
    /\ yielded' = [yielded EXCEPT ![i] = Append(@, At(page, k))]
    /\ UNCHANGED handle

\* Leaving the try block by any path runs `finally { this.close(); }`.
Finish(i, g, how) ==
    /\ CloseRS
    /\ gen' = [gen EXCEPT ![i] = [g EXCEPT !.pc = how]]
    /\ UNCHANGED yielded

\* The `while (totalFetched < totalCount)` check and one pass of its body up
\* to the first yield: the loop ends, getPage throws on a closed handle, an
\* empty page breaks out, or the first record of the page is yielded.
LoopCheckExhaustedless(i, g) ==
    \/ /\ g.fetched < g.total
       /\ handle = "closed"
       /\ Finish(i, g, "failed")
    \/ /\ g.fetched < g.total
       /\ handle = "open"
       /\ LET page == GetPage(g.pageNo, IteratorPageSize)
          IN  \/ /\ page = <<>>
                 /\ Finish(i, g, "exhausted")
              \/ /\ page # <<>>
                 /\ Yield(i, g, page, 1)

LoopCheck(i, g) ==
    \/ /\ g.fetched >= g.total
       /\ Finish(i, g, "exhausted")
    \/ /\ g.fetched < g.total
       /\ handle = "closed"
       /\ Finish(i, g, "failed")
    \/ /\ g.fetched < g.total
       /\ handle = "open"
       /\ LET page == GetPage(g.pageNo, IteratorPageSize)
          IN  \/ /\ page = <<>>
                 /\ Finish(i, g, "exhausted")
              \/ /\ page # <<>>
                 /\ Yield(i, g, page, 1)

\* The first next(): read the total count once, then enter the loop.
Start(i) ==
    /\ gen[i].pc = "fresh"
    /\ LoopCheck(i, [gen[i] EXCEPT !.total = GetTotalCount,
                                   !.pageNo = 1, !.fetched = 0])
    /\ UNCHANGED <<resultCount, reportedTotal>>

ResumeOffByOne(i) ==
    /\ gen[i].pc = "suspended"
    /\ LET g == [gen[i] EXCEPT !.fetched = @ + 1]
       IN  \/ /\ g.idx <= Len(g.page)
              /\ Yield(i, g, g.page, g.idx + 1)
           \/ /\ g.idx > Len(g.page)
              /\ LoopCheck(i, [g EXCEPT !.pageNo = @ + 1])
    /\ UNCHANGED <<resultCount, reportedTotal>>

ResumeSamePage(i) ==
    /\ gen[i].pc = "suspended"
    /\ LET g == [gen[i] EXCEPT !.fetched = @ + 1]
       IN  \/ /\ g.idx < Len(g.page)
              /\ Yield(i, g, g.page, g.idx + 1)
           \/ /\ g.idx >= Len(g.page)
              /\ LoopCheck(i, g)
    /\ UNCHANGED <<resultCount, reportedTotal>>

ResumeOnePage(i) ==
    /\ gen[i].pc = "suspended"
    /\ LET g == [gen[i] EXCEPT !.fetched = @ + 1]
       IN  \/ /\ g.idx < Len(g.page)
              /\ Yield(i, g, g.page, g.idx + 1)
           \/ /\ g.idx >= Len(g.page)
              /\ Finish(i, g, "exhausted")
    /\ UNCHANGED <<resultCount, reportedTotal>>

\* A later next(): count the record just consumed, then either yield the
\* next record of the page or, at the end of the page, advance the page
\* number and go round the loop.
Resume(i) ==
    /\ gen[i].pc = "suspended"
    /\ LET g == [gen[i] EXCEPT !.fetched = @ + 1]
       IN  \/ /\ g.idx < Len(g.page)
              /\ Yield(i, g, g.page, g.idx + 1)
           \/ /\ g.idx >= Len(g.page)
              /\ LoopCheck(i, [g EXCEPT !.pageNo = @ + 1])
    /\ UNCHANGED <<resultCount, reportedTotal>>

BreakNoClose(i) ==
    /\ gen[i].pc = "suspended"
    /\ gen' = [gen EXCEPT ![i].pc = "broken"]
    /\ UNCHANGED <<resultCount, reportedTotal, handle, yielded>>

\* The consumer leaves its `for await` loop early (break, return or throw):
\* return() resumes the generator at its yield and runs the finally block.
Break(i) ==
    /\ gen[i].pc = "suspended"
    /\ Finish(i, gen[i], "broken")
    /\ UNCHANGED <<resultCount, reportedTotal>>

\* The owner of the cursor calls close() between two resumptions.
Close ==
    /\ CloseRS
    /\ UNCHANGED <<resultCount, reportedTotal, gen, yielded>>

---------------------------------------------------------------------------

Init ==
    /\ resultCount \in ResultSizes
    /\ reportedTotal = resultCount
    /\ handle = "open"
    /\ gen = [i \in Iterators |-> [pc |-> "fresh", total |-> 0, pageNo |-> 0,
                                   fetched |-> 0, page |-> <<>>, idx |-> 0]]
    /\ yielded = [i \in Iterators |-> <<>>]

Next ==
    \/ Close
    \/ \E i \in Iterators : Start(i) \/ Resume(i) \/ Break(i)

\* A `for await` loop whose body completes calls next() again: a suspended
\* generator is eventually resumed.  Breaking out is the consumer's choice
\* and is not assumed.
Fairness == \A i \in Iterators : WF_vars(Resume(i))

Spec == Init /\ [][Next]_vars /\ Fairness

---------------------------------------------------------------------------
(* Properties                                                              *)

TypeOK ==
    /\ resultCount \in ResultSizes
    /\ reportedTotal \in ResultSizes
    /\ handle \in {"open", "closed"}
    /\ \A i \in Iterators :
          /\ gen[i].pc \in GenStates
          /\ {gen[i].total, gen[i].pageNo, gen[i].fetched, gen[i].idx} \subseteq Nat
          /\ yielded[i] \in Seq(1..resultCount)

\* Pagination completeness, part 2: a generator that stops because it ran
\* out (not by break or error) has produced exactly the total count it read
\* at its start, across every page boundary.
ExhaustedYieldsAll ==
    \A i \in Iterators :
        gen[i].pc = "exhausted" => Len(yielded[i]) = gen[i].total

(* Refinement: the cursor keeps the promise of CursorSpec.  The cursor  *)
(* is Open while the handle is set; a fresh generator is an idle consumer, *)
(* a suspended one an active consumer, a finished one an ended consumer;  *)
(* what a generator has yielded is what the consumer has taken.            *)

AbstractStatus(pc) ==
    IF pc = "fresh" THEN "idle" ELSE IF pc = "suspended" THEN "active" ELSE "ended"

Abstract == INSTANCE CursorSpec
    WITH Consumers <- Iterators,
         Results <- {[k \in 1..n |-> k] : n \in ResultSizes},
         records <- Recs,
         open <- (handle = "open"),
         status <- [i \in Iterators |-> AbstractStatus(gen[i].pc)],
         consumed <- yielded

\* Every interleaving of generators and close() calls is a behaviour of
\* CursorSpec: each generator yields the records in order, each once,
\* whichever page boundaries it crosses and whenever the owner closes;
\* a generator that ends (exhausted, by break, or failing) has closed the
\* handle; and a suspended generator, resumed by its for-await loop, goes
\* on yielding until it ends.
CursorRefinement == Abstract!Spec
===========================================================================
