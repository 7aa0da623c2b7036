---------------------------- MODULE PPCacheProofs ----------------------------
(***************************************************************************)
(* The cache of include checkpoints charges what is read and written to    *)
(* the right header, and keeps entries that can be replayed, for every     *)
(* set of headers, every content of them, and every limit.                 *)
(***************************************************************************)
EXTENDS PPCache, LeastElement, FiniteSetTheorems, SequenceTheorems

(***************************************************************************)
(* What a scope has recorded lies in order between two positions of the    *)
(* output.                                                                 *)
(***************************************************************************)
SlotsIn(slots, lo, hi) ==
  \A k \in 1 .. Len(slots) :
    /\ lo <= slots[k].start /\ slots[k].start < slots[k].end /\ slots[k].end <= hi
    /\ k > 1 => slots[k - 1].end <= slots[k].start
OpsIn(ops, lo, hi) ==
  /\ \A k \in 1 .. Len(ops) : lo <= ops[k].offset /\ ops[k].offset <= hi
  /\ \A k, l \in 1 .. Len(ops) : k <= l => ops[k].offset <= ops[l].offset
Between(r, lo, hi) == lo <= hi /\ SlotsIn(r.slots, lo, hi) /\ OpsIn(r.ops, lo, hi)

\* The scopes of a chain are those of the innermost frames up to the one at
\* `top', from the outermost of the calls that read a file on.  Each has
\* recorded what its frame wrote before the next one was called; `hi' is the
\* end of the output for the last.
EndAt(stk, top, hi, i) == IF i = top THEN hi ELSE stk[i + 1].start
Chain(rec, stk, top, hi) ==
  /\ Len(rec) < top
  /\ top - Len(rec) = 1 \/ stk[top - Len(rec)].kind = "replay"
  /\ \A i \in top - Len(rec) + 1 .. top :
       /\ stk[i].kind = "source"
       /\ Between(rec[i - (top - Len(rec))], stk[i].start + 1, EndAt(stk, top, hi, i))

\* The call of the unit is the outermost, every other call has written.
CallsInOrder(c, stk) ==
  /\ stk # << >> /\ stk[1].kind = "source" /\ stk[1].path = Unit
  /\ \A i \in 2 .. Len(stk) :
       /\ stk[i].path # Unit
       /\ stk[i].start < EndAt(stk, Len(stk), Len(c.out), i)

\* The active scopes, and those that a replay has put aside.
ScopesInOrder(c, stk) ==
  /\ c.cache => Chain(c.rec, stk, Len(stk), Len(c.out))
  /\ \A i \in 2 .. Len(stk) :
       stk[i].kind = "replay" => Chain(stk[i].saved, stk, i - 1, stk[i].start)

\* A replay has come to the end of the child before its next one.
ReplayOK(f) ==
  f.kind = "replay" =>
    /\ Between(f.entry, 0, Len(f.entry.span)) /\ f.slot <= Len(f.entry.slots) + 1
    /\ f.prev = IF f.slot = 1 THEN 0 ELSE f.entry.slots[f.slot - 1].end

Orderly(c, stk) ==
  /\ c \in Contexts /\ stk \in Seq(Frames)
  /\ CallsInOrder(c, stk) /\ ScopesInOrder(c, stk)
  /\ \A i \in 1 .. Len(stk) : ReplayOK(stk[i])

EntriesInSpan == \A i \in DOMAIN entries : Between(entries[i], 0, Len(entries[i].span))

IInv ==
  /\ TypeOK
  /\ phase = "run" => Orderly(ctx, stack)
  /\ phase # "run" => stack = << >> /\ (ctx.cache => ctx.rec = << >>)
  /\ EntriesInSpan

(***************************************************************************)
(* Sequences.                                                              *)
(***************************************************************************)

\* The last element and what is before it.
LEMMA FrontLast ==
  ASSUME NEW S, NEW s \in Seq(S), s # << >>
  PROVE  /\ Len(s) \in Nat \ {0} /\ Last(s) = s[Len(s)] /\ Last(s) \in S
         /\ Front(s) \in Seq(S) /\ Len(Front(s)) = Len(s) - 1
         /\ \A i \in 1 .. Len(s) - 1 : Front(s)[i] = s[i]
<1>1. Len(s) \in Nat \ {0} /\ \A i \in 1 .. Len(s) : s[i] \in S
  BY EmptySeq, LenProperties
<1>. DEFINE n == Len(s) - 1
<1>2. n \in Nat /\ 1 .. n \subseteq 1 .. Len(s) /\ \A i \in 1 .. n : s[i] \in S
  BY <1>1
<1>3. /\ Len(SubSeq(s, 1, n)) = n
      /\ \A i \in 1 .. n : SubSeq(s, 1, n)[i] = s[i]
  <2>1. /\ Len(SubSeq(s, 1, n)) = IF 1 <= n THEN n - 1 + 1 ELSE 0
        /\ \A i \in 1 .. n - 1 + 1 : SubSeq(s, 1, n)[i] = s[1 + i - 1]
    BY <1>2, SubSeqProperties
  <2>2. n - 1 + 1 = n /\ \A i \in 1 .. n : 1 + i - 1 = i
    BY <1>2
  <2>. QED
    BY <1>2, <2>1, <2>2
<1>4. SubSeq(s, 1, n) \in Seq(S)
  BY <1>2, SubSeqProperties
<1>. QED
  BY <1>1, <1>3, <1>4 DEF Front, Last

(***************************************************************************)
(* Positions.                                                              *)
(***************************************************************************)

\* The positions of slots and operations are numbers.
LEMMA Elements ==
  /\ \A s \in Seq(Slots) : Len(s) \in Nat /\ \A k \in 1 .. Len(s) : s[k].start \in Int /\ s[k].end \in Int
  /\ \A s \in Seq(Ops) : Len(s) \in Nat /\ \A k \in 1 .. Len(s) : s[k].offset \in Int
<1>1. \A s \in Seq(Slots) : Len(s) \in Nat /\ \A k \in 1 .. Len(s) : s[k] \in Slots
  OBVIOUS
<1>2. \A s \in Seq(Ops) : Len(s) \in Nat /\ \A k \in 1 .. Len(s) : s[k] \in Ops
  OBVIOUS
<1>. QED
  BY <1>1, <1>2 DEF Slots, Ops

\* What lies before a position lies before a later one.
LEMMA Longer ==
  ASSUME NEW r, r.slots \in Seq(Slots), r.ops \in Seq(Ops), NEW lo \in Nat, NEW hi \in Nat, NEW up \in Nat,
         hi <= up, Between(r, lo, hi)
  PROVE  Between(r, lo, up)
<1>1. /\ Len(r.slots) \in Nat /\ \A k \in 1 .. Len(r.slots) : r.slots[k].end \in Int
      /\ Len(r.ops) \in Nat /\ \A k \in 1 .. Len(r.ops) : r.ops[k].offset \in Int
  BY Elements
<1>2. SlotsIn(r.slots, lo, up)
  BY <1>1 DEF Between, SlotsIn
<1>3. OpsIn(r.ops, lo, up)
  BY <1>1 DEF Between, OpsIn
<1>. QED
  BY <1>2, <1>3 DEF Between

\* A child that begins where the record ends and ends later.
LEMMA SlotAdded ==
  ASSUME NEW r \in Recs, NEW lo \in Nat, NEW hi \in Nat, NEW up \in Nat, hi < up,
         Between(r, lo, hi), NEW p \in Headers
  PROVE  /\ Append(r.slots, [path |-> p, start |-> hi, end |-> up]) \in Seq(Slots)
         /\ SlotsIn(Append(r.slots, [path |-> p, start |-> hi, end |-> up]), lo, up)
<1>. DEFINE s == [path |-> p, start |-> hi, end |-> up]
            n == Len(r.slots)
<1>0. r.slots \in Seq(Slots) /\ s \in Slots
  BY DEF Recs, Slots
<1>1. n \in Nat /\ \A k \in 1 .. n : r.slots[k].start \in Int /\ r.slots[k].end \in Int
  BY <1>0, Elements
<1>2. /\ Append(r.slots, s) \in Seq(Slots) /\ Len(Append(r.slots, s)) = n + 1
      /\ \A k \in 1 .. n : Append(r.slots, s)[k] = r.slots[k]
      /\ Append(r.slots, s)[n + 1] = s
  BY <1>0, <1>1, AppendProperties
<1>3. SlotsIn(r.slots, lo, hi) /\ lo <= hi
  BY DEF Between
<1>4. SlotsIn(Append(r.slots, s), lo, up)
  <2>. SUFFICES ASSUME NEW k \in 1 .. n + 1
                PROVE  /\ lo <= Append(r.slots, s)[k].start
                       /\ Append(r.slots, s)[k].start < Append(r.slots, s)[k].end
                       /\ Append(r.slots, s)[k].end <= up
                       /\ k > 1 => Append(r.slots, s)[k - 1].end <= Append(r.slots, s)[k].start
    BY <1>2 DEF SlotsIn
  <2>1. CASE k \in 1 .. n
    BY <1>1, <1>2, <1>3, <2>1 DEF SlotsIn
  <2>2. CASE k = n + 1
    <3>1. n > 0 => r.slots[n].end <= hi
      BY <1>1, <1>3 DEF SlotsIn
    <3>. QED
      BY <1>1, <1>2, <1>3, <2>2, <3>1
  <2>. QED
    BY <1>1, <2>1, <2>2
<1>. QED
  BY <1>2, <1>4

\* An operation at the end of the output.
LEMMA OpAdded ==
  ASSUME NEW r \in Recs, NEW lo \in Nat, NEW hi \in Nat, Between(r, lo, hi),
         NEW n \in Names, NEW b \in Bodies \cup {Undef}
  PROVE  /\ Append(r.ops, [name |-> n, body |-> b, offset |-> hi]) \in Seq(Ops)
         /\ OpsIn(Append(r.ops, [name |-> n, body |-> b, offset |-> hi]), lo, hi)
<1>. DEFINE o == [name |-> n, body |-> b, offset |-> hi]
            L == Len(r.ops)
<1>0. r.ops \in Seq(Ops) /\ o \in Ops
  BY DEF Recs, Ops
<1>1. L \in Nat /\ \A k \in 1 .. L : r.ops[k].offset \in Int
  BY <1>0, Elements
<1>2. /\ Append(r.ops, o) \in Seq(Ops) /\ Len(Append(r.ops, o)) = L + 1
      /\ \A k \in 1 .. L : Append(r.ops, o)[k] = r.ops[k]
      /\ Append(r.ops, o)[L + 1] = o
  BY <1>0, <1>1, AppendProperties
<1>3. OpsIn(r.ops, lo, hi) /\ lo <= hi
  BY DEF Between
<1>4. \A k \in 1 .. L + 1 : Append(r.ops, o)[k].offset = IF k = L + 1 THEN hi ELSE r.ops[k].offset
  BY <1>1, <1>2
<1>5. OpsIn(Append(r.ops, o), lo, hi)
  <2>1. \A k \in 1 .. L + 1 : lo <= Append(r.ops, o)[k].offset /\ Append(r.ops, o)[k].offset <= hi
    BY <1>1, <1>3, <1>4 DEF OpsIn
  <2>2. ASSUME NEW k \in 1 .. L + 1, NEW l \in 1 .. L + 1, k <= l
        PROVE  Append(r.ops, o)[k].offset <= Append(r.ops, o)[l].offset
    <3>1. CASE l = L + 1
      BY <1>1, <1>4, <2>1, <3>1
    <3>2. CASE l # L + 1
      <4>1. k \in 1 .. L /\ l \in 1 .. L
        BY <1>1, <2>2, <3>2
      <4>. QED
        BY <1>2, <1>3, <2>2, <4>1 DEF OpsIn
    <3>. QED
      BY <3>1, <3>2
  <2>. QED
    BY <1>2, <2>1, <2>2 DEF OpsIn
<1>. QED
  BY <1>2, <1>5

(***************************************************************************)
(* One context after another: what an operation of the preprocessor does   *)
(* to the output and to what the innermost scope has recorded up to hi.    *)
(***************************************************************************)
Kept(c, hi, d) ==
  /\ Len(c.out) <= Len(d.out)
  /\ d.cache =>
       /\ c.cache /\ Len(d.rec) = Len(c.rec)
       /\ \A m \in 1 .. Len(c.rec) : \A lo \in Nat :
            m = Len(c.rec) /\ Between(c.rec[m], lo, hi) => Between(d.rec[m], lo, Len(d.out))
       /\ \A m \in 1 .. Len(c.rec) - 1 : d.rec[m].slots = c.rec[m].slots /\ d.rec[m].ops = c.rec[m].ops

\* The parts of a context.
LEMMA ContextTypes ==
  ASSUME NEW c \in Contexts
  PROVE  /\ c.rec \in Seq(Recs) /\ Len(c.rec) \in Nat /\ \A m \in 1 .. Len(c.rec) : c.rec[m] \in Recs
         /\ c.out \in Seq(Words) /\ Len(c.out) \in Nat
         /\ c.rec # << >> => Len(c.rec) > 0 /\ c.rec[Len(c.rec)] \in Recs
<1>1. c.rec \in Seq(Recs) /\ c.out \in Seq(Words)
  BY DEF Contexts
<1>. QED
  BY <1>1, LenProperties, EmptySeq

\* More output, or another part changed.
LEMMA SameKept ==
  ASSUME NEW c \in Contexts, NEW hi \in Nat, hi <= Len(c.out), NEW d,
         d.rec = c.rec, d.cache = c.cache, Len(d.out) \in Nat, Len(c.out) <= Len(d.out)
  PROVE  Kept(c, hi, d)
<1>1. \A m \in 1 .. Len(c.rec) : \A lo \in Nat :
        Between(c.rec[m], lo, hi) => Between(c.rec[m], lo, Len(d.out))
  <2>. TAKE m \in 1 .. Len(c.rec)
  <2>. TAKE lo \in Nat
  <2>1. c.rec[m].slots \in Seq(Slots) /\ c.rec[m].ops \in Seq(Ops) /\ Len(c.out) \in Nat
    BY ContextTypes DEF Recs
  <2>. QED
    BY <2>1, Longer
<1>. QED
  BY <1>1, ContextTypes DEF Kept

\* One operation after another.
LEMMA KeptTwice ==
  ASSUME NEW c \in Contexts, NEW hi \in Nat, NEW d \in Contexts, NEW e \in Contexts,
         Kept(c, hi, d), Kept(d, Len(d.out), e)
  PROVE  Kept(c, hi, e)
<1>1. Len(c.out) \in Nat /\ Len(d.out) \in Nat /\ Len(e.out) \in Nat /\ Len(c.rec) \in Nat
  BY ContextTypes
<1>. QED
  BY <1>1 DEF Kept

\* The innermost scope gets another record.
LEMMA ScopeChanged ==
  ASSUME NEW c \in Contexts, c.rec # << >>, NEW r \in Recs, NEW hi \in Nat,
         \A lo \in Nat : Between(c.rec[Len(c.rec)], lo, hi) => Between(r, lo, Len(c.out))
  PROVE  /\ [c EXCEPT !.rec[Len(c.rec)] = r] \in Contexts
         /\ Kept(c, hi, [c EXCEPT !.rec[Len(c.rec)] = r])
<1>. DEFINE L == Len(c.rec)
            d == [c EXCEPT !.rec[L] = r]
<1>1. c.rec \in Seq(Recs) /\ L \in Nat \ {0} /\ c.out \in Seq(Words) /\ Len(c.out) \in Nat
  BY ContextTypes
<1>2. /\ [c.rec EXCEPT ![L] = r] \in Seq(Recs)
      /\ Len([c.rec EXCEPT ![L] = r]) = L
      /\ \A m \in 1 .. L : [c.rec EXCEPT ![L] = r][m] = IF m = L THEN r ELSE c.rec[m]
  BY <1>1, ExceptSeq
<1>3. d = [c EXCEPT !.rec = [c.rec EXCEPT ![L] = r]]
  OBVIOUS
<1>4. d \in Contexts /\ d.rec = [c.rec EXCEPT ![L] = r] /\ d.out = c.out /\ d.cache = c.cache
  BY <1>2, <1>3 DEF Contexts
<1>. QED
  BY <1>1, <1>2, <1>4 DEF Kept

\* Reading a macro is a probe of the innermost scope.
LEMMA LookupKeeps ==
  ASSUME NEW c \in Contexts, NEW n \in Names
  PROVE  /\ pp_cache_note_lookup_hook(c, n) \in Contexts
         /\ Kept(c, Len(c.out), pp_cache_note_lookup_hook(c, n))
         /\ pp_cache_note_lookup_hook(c, n).out = c.out
         /\ pp_cache_note_lookup_hook(c, n).macros = c.macros
         /\ pp_cache_note_lookup_hook(c, n).cond = c.cond
<1>. DEFINE L == Len(c.rec)
            p == [name |-> n, body |-> c.macros[n]]
            r == [c.rec[L] EXCEPT !.probes = @ \cup {p}]
<1>1. CASE Recording(c)
  <2>1. c.rec # << >> /\ c.rec[L] \in Recs /\ Len(c.out) \in Nat
    BY <1>1, ContextTypes DEF Recording
  <2>2. p \in Probes
    BY DEF Probes, Contexts, MacroTables
  <2>3. r \in Recs /\ r.slots = c.rec[L].slots /\ r.ops = c.rec[L].ops
    BY <2>1, <2>2 DEF Recs
  <2>4. [c EXCEPT !.rec[L] = r] \in Contexts /\ Kept(c, Len(c.out), [c EXCEPT !.rec[L] = r])
    BY <2>1, <2>3, ScopeChanged DEF Between
  <2>5. /\ [c EXCEPT !.rec[L] = r].out = c.out /\ [c EXCEPT !.rec[L] = r].macros = c.macros
        /\ [c EXCEPT !.rec[L] = r].cond = c.cond
    BY DEF Contexts
  <2>. QED
    BY <1>1, <2>1, <2>4, <2>5, SameKept DEF pp_cache_note_lookup_hook
<1>2. CASE ~Recording(c)
  BY <1>2, ContextTypes, SameKept DEF pp_cache_note_lookup_hook
<1>. QED
  BY <1>1, <1>2

\* An #include that is suppressed is noted in the innermost scope.
LEMMA SeenKeeps ==
  ASSUME NEW c \in Contexts, NEW p \in Headers
  PROVE  /\ pp_cache_note_seen(c, p) \in Contexts
         /\ Kept(c, Len(c.out), pp_cache_note_seen(c, p))
<1>. DEFINE L == Len(c.rec)
            r == [c.rec[L] EXCEPT !.seens = @ \cup {p}]
<1>1. CASE Recording(c)
  <2>1. c.rec # << >> /\ c.rec[L] \in Recs /\ Len(c.out) \in Nat
    BY <1>1, ContextTypes DEF Recording
  <2>2. r \in Recs /\ r.slots = c.rec[L].slots /\ r.ops = c.rec[L].ops
    BY <2>1 DEF Recs
  <2>. QED
    BY <1>1, <2>1, <2>2, ScopeChanged DEF Between, pp_cache_note_seen
<1>2. CASE ~Recording(c)
  BY <1>2, ContextTypes, SameKept DEF pp_cache_note_seen
<1>. QED
  BY <1>1, <1>2

\* A child that has ended is a slot of the scope around it.
LEMMA SlotKeeps ==
  ASSUME NEW c \in Contexts, NEW p \in Headers, NEW start \in Nat, start < Len(c.out), NEW d \in Nat
  PROVE  /\ pp_cache_note_slot(c, p, start, d) \in Contexts
         /\ Kept(c, start, pp_cache_note_slot(c, p, start, d))
<1>. DEFINE L == Len(c.rec)
            s == Append(c.rec[L].slots, [path |-> p, start |-> start, end |-> Len(c.out)])
            r == [c.rec[L] EXCEPT !.slots = s, !.childDelta = @ + (c.cond.depth - d)]
<1>1. CASE Recording(c)
  <2>1. c.rec # << >> /\ c.rec[L] \in Recs /\ Len(c.out) \in Nat
    BY <1>1, ContextTypes DEF Recording
  <2>2. [path |-> p, start |-> start, end |-> Len(c.out)] \in Slots
    BY <2>1 DEF Slots
  <2>3. s \in Seq(Slots)
    BY <2>1, <2>2, AppendProperties DEF Recs
  <2>4. c.cond.depth \in Nat
    BY CondStackMaxAssumption DEF Contexts, CondStacks
  <2>5. r \in Recs /\ r.slots = s /\ r.ops = c.rec[L].ops
    <3>. DEFINE q == c.rec[L]
                x == c.cond.depth
                z == q.childDelta + (x - d)
    <3>1. q \in Recs /\ x \in Nat /\ s \in Seq(Slots)
      BY <2>1, <2>3, <2>4
    <3>. HIDE DEF q, x, s
    <3>2. z \in Int
      BY <3>1 DEF Recs
    <3>3. [q EXCEPT !.slots = s, !.childDelta = @ + (x - d)] = [q EXCEPT !.slots = s, !.childDelta = z]
      BY <3>1 DEF Recs
    <3>. HIDE DEF z
    <3>4. /\ [q EXCEPT !.slots = s, !.childDelta = z] \in Recs
          /\ [q EXCEPT !.slots = s, !.childDelta = z].slots = s
          /\ [q EXCEPT !.slots = s, !.childDelta = z].ops = q.ops
      BY <3>1, <3>2 DEF Recs
    <3>. QED
      BY <3>3, <3>4 DEF q, x
  <2>6. \A lo \in Nat : Between(c.rec[L], lo, start) => Between(r, lo, Len(c.out))
    <3>. SUFFICES ASSUME NEW lo \in Nat, Between(c.rec[L], lo, start)
                  PROVE  Between(r, lo, Len(c.out))
      OBVIOUS
    <3>1. SlotsIn(s, lo, Len(c.out))
      BY <2>1, SlotAdded
    <3>2. Between(c.rec[L], lo, Len(c.out))
      BY <2>1, Longer DEF Recs
    <3>. QED
      BY <2>5, <3>1, <3>2 DEF Between
  <2>7. pp_cache_note_slot(c, p, start, d) = [c EXCEPT !.rec[L] = r]
    BY <1>1 DEF pp_cache_note_slot
  <2>. QED
    BY <2>1, <2>5, <2>6, <2>7, ScopeChanged
<1>2. CASE ~Recording(c)
  BY <1>2, ContextTypes, SameKept DEF pp_cache_note_slot
<1>. QED
  BY <1>1, <1>2

\* #define and #undef are operations of the innermost scope, the name is
\* controlled in every one.
LEMMA OpKeeps ==
  ASSUME NEW c \in Contexts, NEW n \in Names, NEW b \in Bodies \cup {Undef}
  PROVE  /\ pp_cache_note_op(c, n, b) \in Contexts
         /\ Kept(c, Len(c.out), pp_cache_note_op(c, n, b))
<1>. DEFINE L == Len(c.rec)
            ops(i) == IF i = L THEN Append(c.rec[i].ops, [name |-> n, body |-> b, offset |-> Len(c.out)])
                      ELSE c.rec[i].ops
            r(i) == [c.rec[i] EXCEPT !.ctrl = @ \cup {n}, !.ops = ops(i)]
            R == [i \in 1 .. L |-> r(i)]
<1>1. CASE Recording(c)
  <2>1. /\ c.rec \in Seq(Recs) /\ L \in Nat \ {0} /\ \A i \in 1 .. L : c.rec[i] \in Recs
        /\ Len(c.out) \in Nat
    BY <1>1, ContextTypes DEF Recording
  <2>2. [name |-> n, body |-> b, offset |-> Len(c.out)] \in Ops
    BY <2>1 DEF Ops
  <2>3. ASSUME NEW i \in 1 .. L
        PROVE  ops(i) \in Seq(Ops)
    <3>1. c.rec[i].ops \in Seq(Ops)
      BY <2>1 DEF Recs
    <3>. QED
      BY <2>2, <3>1, AppendProperties
  <2>4. ASSUME NEW i \in 1 .. L
        PROVE  r(i) \in Recs /\ r(i).slots = c.rec[i].slots /\ r(i).ops = ops(i)
    <3>. DEFINE q == c.rec[i]
                o == ops(i)
    <3>1. q \in Recs /\ o \in Seq(Ops)
      BY <2>1, <2>3
    <3>. HIDE DEF q, o
    <3>2. /\ [q EXCEPT !.ctrl = @ \cup {n}, !.ops = o] \in Recs
          /\ [q EXCEPT !.ctrl = @ \cup {n}, !.ops = o].slots = q.slots
          /\ [q EXCEPT !.ctrl = @ \cup {n}, !.ops = o].ops = o
      BY <3>1 DEF Recs
    <3>. QED
      BY <3>2 DEF q, o
  <2>5. R \in Seq(Recs) /\ Len(R) = L /\ \A i \in 1 .. L : R[i] = r(i)
    <3>. HIDE DEF r
    <3>. QED
      BY <2>1, <2>4
  <2>6. pp_cache_note_op(c, n, b) = [c EXCEPT !.rec = R]
    <3>1. DOMAIN c.rec = 1 .. L
      BY <2>1
    <3>. QED
      BY <1>1, <3>1 DEF pp_cache_note_op
  <2>. DEFINE d == [c EXCEPT !.rec = R]
  <2>7. d \in Contexts /\ d.rec = R /\ d.out = c.out /\ d.cache = c.cache
    <3>. HIDE DEF R
    <3>. QED
      BY <2>5 DEF Contexts
  <2>8. ASSUME NEW lo \in Nat, Between(c.rec[L], lo, Len(c.out))
        PROVE  Between(R[L], lo, Len(c.out))
    <3>1. OpsIn(ops(L), lo, Len(c.out))
      BY <2>1, <2>8, OpAdded
    <3>2. L \in 1 .. L
      BY <2>1
    <3>3. R[L].slots = c.rec[L].slots /\ R[L].ops = ops(L)
      BY <2>4, <2>5, <3>2
    <3>. HIDE DEF R, ops
    <3>. QED
      BY <2>8, <3>1, <3>3 DEF Between
  <2>9. \A i \in 1 .. L - 1 : R[i].slots = c.rec[i].slots /\ R[i].ops = c.rec[i].ops
    <3>. TAKE i \in 1 .. L - 1
    <3>1. i \in 1 .. L /\ i # L
      BY <2>1
    <3>. QED
      BY <2>4, <2>5, <3>1
  <2>10. Len(R) = L
    BY <2>5
  <2>. HIDE DEF R
  <2>. HIDE DEF d
  <2>11. Kept(c, Len(c.out), d)
    BY <2>1, <2>7, <2>8, <2>9, <2>10 DEF Kept
  <2>. QED
    BY <2>6, <2>7, <2>11 DEF d
<1>2. CASE ~Recording(c)
  BY <1>2, ContextTypes, SameKept DEF pp_cache_note_op
<1>. QED
  BY <1>1, <1>2

(***************************************************************************)
(* One line of a file.                                                     *)
(***************************************************************************)

\* The operators of the conditional stack keep its type, and so does moving
\* its depth without writing the entries.
LEMMA CondTypes ==
  /\ cond_init \in CondStacks
  /\ \A s \in CondStacks :
       /\ \A b \in BOOLEAN : cond_push(s, b) \in CondStacks
       /\ cond_else(s) \in CondStacks /\ cond_endif(s) \in CondStacks
       /\ s.depth \in Nat /\ cond_is_skipping(s) \in BOOLEAN
       /\ \A x \in Int : [s EXCEPT !.depth = ClampDepth(s.depth + x)] \in CondStacks
<1>1. cond_init \in CondStacks
  BY CondStackMaxAssumption DEF cond_init, CondStacks, CondState
<1>. SUFFICES ASSUME NEW s \in CondStacks
              PROVE  /\ \A b \in BOOLEAN : cond_push(s, b) \in CondStacks
                     /\ cond_else(s) \in CondStacks /\ cond_endif(s) \in CondStacks
                     /\ s.depth \in Nat /\ cond_is_skipping(s) \in BOOLEAN
                     /\ \A x \in Int : [s EXCEPT !.depth = ClampDepth(s.depth + x)] \in CondStacks
  BY <1>1
<1>2. \A b \in BOOLEAN : cond_push(s, b) \in CondStacks
  BY CondStackMaxAssumption DEF cond_push, CondStacks, CondState
<1>3. cond_else(s) \in CondStacks
  BY CondStackMaxAssumption DEF cond_else, NextBranch, CondStacks, CondState
<1>4. cond_endif(s) \in CondStacks
  BY CondStackMaxAssumption DEF cond_endif, CondStacks, CondState
<1>5. s.depth \in Nat /\ cond_is_skipping(s) \in BOOLEAN
  BY CondStackMaxAssumption DEF CondStacks, cond_is_skipping
<1>6. ASSUME NEW x \in Int
      PROVE  [s EXCEPT !.depth = ClampDepth(s.depth + x)] \in CondStacks
  <2>1. ClampDepth(s.depth + x) \in 0 .. CondStackMax
    BY <1>5, CondStackMaxAssumption DEF ClampDepth
  <2>. QED
    BY <2>1 DEF CondStacks
<1>. QED
  BY <1>2, <1>3, <1>4, <1>5, <1>6

\* The conditional stack is not part of what is recorded.
LEMMA CondKept ==
  ASSUME NEW c \in Contexts, NEW s \in CondStacks
  PROVE  [c EXCEPT !.cond = s] \in Contexts /\ Kept(c, Len(c.out), [c EXCEPT !.cond = s])
<1>. DEFINE d == [c EXCEPT !.cond = s]
<1>1. d \in Contexts /\ d.rec = c.rec /\ d.out = c.out /\ d.cache = c.cache
  BY DEF Contexts
<1>. HIDE DEF d
<1>2. Kept(c, Len(c.out), d)
  BY <1>1, ContextTypes, SameKept
<1>. QED
  BY <1>1, <1>2 DEF d

\* A macro that gets another body, or none.
LEMMA MacroKept ==
  ASSUME NEW c \in Contexts, NEW n \in Names, NEW b \in Bodies \cup {Undef}
  PROVE  /\ [c EXCEPT !.macros[n] = b] \in Contexts
         /\ [c EXCEPT !.macros[n] = b].out = c.out
         /\ Kept(c, Len(c.out), [c EXCEPT !.macros[n] = b])
<1>. DEFINE d == [c EXCEPT !.macros[n] = b]
<1>1. d \in Contexts /\ d.rec = c.rec /\ d.out = c.out /\ d.cache = c.cache
  BY DEF Contexts, MacroTables
<1>. HIDE DEF d
<1>2. Kept(c, Len(c.out), d)
  BY <1>1, ContextTypes, SameKept
<1>. QED
  BY <1>1, <1>2 DEF d

\* More output.
LEMMA OutKept ==
  ASSUME NEW c \in Contexts, NEW w \in Words
  PROVE  /\ [c EXCEPT !.out = Append(@, w)] \in Contexts
         /\ Len([c EXCEPT !.out = Append(@, w)].out) = Len(c.out) + 1
         /\ Kept(c, Len(c.out), [c EXCEPT !.out = Append(@, w)])
<1>. DEFINE d == [c EXCEPT !.out = Append(@, w)]
<1>1. c.out \in Seq(Words) /\ Len(c.out) \in Nat
  BY ContextTypes
<1>2. Append(c.out, w) \in Seq(Words) /\ Len(Append(c.out, w)) = Len(c.out) + 1
  BY <1>1, AppendProperties
<1>3. d \in Contexts /\ d.rec = c.rec /\ d.out = Append(c.out, w) /\ d.cache = c.cache
  BY <1>2 DEF Contexts
<1>. HIDE DEF d
<1>4. Kept(c, Len(c.out), d)
  BY <1>1, <1>2, <1>3, SameKept
<1>. QED
  BY <1>2, <1>3, <1>4 DEF d

\* #define.
LEMMA DefineKeeps ==
  ASSUME NEW c \in Contexts, NEW n \in Names, NEW b \in Bodies
  PROVE  handle_define(c, n, b) \in Contexts /\ Kept(c, Len(c.out), handle_define(c, n, b))
<1>. DEFINE m == [c EXCEPT !.macros[n] = b]
            d == pp_cache_note_op(m, n, b)
            off == [d EXCEPT !.cache = FALSE, !.rec = << >>]
<1>1. m \in Contexts /\ m.out = c.out /\ Kept(c, Len(c.out), m)
  BY MacroKept
<1>. HIDE DEF m
<1>2. d \in Contexts /\ Kept(m, Len(m.out), d)
  BY <1>1, OpKeeps
<1>3. Kept(c, Len(c.out), d)
  BY <1>1, <1>2, KeptTwice, ContextTypes
<1>4. handle_define(c, n, b) = IF n \in Keywords THEN off ELSE d
  BY DEF handle_define, m
<1>. HIDE DEF d
<1>5. off \in Contexts /\ ~off.cache /\ off.out = d.out
  <2>1. << >> \in Seq(Recs)
    OBVIOUS
  <2>. QED
    BY <1>2, <2>1 DEF Contexts
<1>6. Kept(c, Len(c.out), off)
  BY <1>3, <1>5 DEF Kept
<1>. QED
  BY <1>2, <1>3, <1>4, <1>5, <1>6

\* #undef.
LEMMA UndefKeeps ==
  ASSUME NEW c \in Contexts, NEW n \in Names
  PROVE  handle_undef(c, n) \in Contexts /\ Kept(c, Len(c.out), handle_undef(c, n))
<1>. DEFINE l == pp_cache_note_lookup_hook(c, n)
            m == [l EXCEPT !.macros[n] = Undef]
            d == pp_cache_note_op(m, n, Undef)
<1>1. l \in Contexts /\ l.out = c.out /\ Kept(c, Len(c.out), l)
  BY LookupKeeps
<1>. HIDE DEF l
<1>2. m \in Contexts /\ m.out = l.out /\ Kept(l, Len(l.out), m)
  BY <1>1, MacroKept
<1>. HIDE DEF m
<1>3. d \in Contexts /\ Kept(m, Len(m.out), d)
  BY <1>2, OpKeeps
<1>4. handle_undef(c, n) = d
  BY DEF handle_undef, l, m
<1>. HIDE DEF d
<1>5. Kept(c, Len(c.out), m)
  BY <1>1, <1>2, KeptTwice, ContextTypes
<1>. QED
  BY <1>1, <1>2, <1>3, <1>4, <1>5, KeptTwice, ContextTypes

\* #ifdef and #ifndef.
LEMMA IfdefKeeps ==
  ASSUME NEW c \in Contexts, NEW n \in Names, NEW b \in BOOLEAN
  PROVE  handle_ifdef(c, n, b) \in Contexts /\ Kept(c, Len(c.out), handle_ifdef(c, n, b))
<1>. DEFINE l == pp_cache_note_lookup_hook(c, n)
            s == cond_push(c.cond, (c.macros[n] # Undef) <=> b)
            d == [l EXCEPT !.cond = s]
<1>1. l \in Contexts /\ l.out = c.out /\ l.cond = c.cond /\ Kept(c, Len(c.out), l)
  BY LookupKeeps
<1>. HIDE DEF l
<1>2. c.cond \in CondStacks
  BY DEF Contexts
<1>3. s \in CondStacks
  BY <1>2, CondTypes
<1>4. handle_ifdef(c, n, b) = d
  BY <1>1 DEF handle_ifdef, l
<1>. HIDE DEF s
<1>5. d \in Contexts /\ Kept(l, Len(l.out), d)
  BY <1>1, <1>3, CondKept
<1>. HIDE DEF d
<1>. QED
  BY <1>1, <1>4, <1>5, KeptTwice, ContextTypes

\* A line of text.
LEMMA TextKeeps ==
  ASSUME NEW c \in Contexts, NEW n \in Names
  PROVE  expand_line(c, n) \in Contexts /\ Kept(c, Len(c.out), expand_line(c, n))
<1>. DEFINE l == pp_cache_note_lookup_hook(c, n)
            w == IF c.macros[n] = Undef THEN n ELSE c.macros[n]
            d == [l EXCEPT !.out = Append(@, w)]
<1>1. l \in Contexts /\ l.out = c.out /\ Kept(c, Len(c.out), l)
  BY LookupKeeps
<1>2. w \in Words
  BY DEF Contexts, MacroTables, Words
<1>3. expand_line(c, n) = d
  BY DEF expand_line
<1>. HIDE DEF l, w
<1>4. d \in Contexts /\ Kept(l, Len(l.out), d)
  BY <1>1, <1>2, OutKept
<1>. HIDE DEF d
<1>. QED
  BY <1>1, <1>3, <1>4, KeptTwice, ContextTypes

\* Any line that process_source handles itself.
LEMMA LineKeeps ==
  ASSUME NEW c \in Contexts, NEW line \in Lines, line.op # "include" \/ Skipped(c, line)
  PROVE  process_line(c, line) \in Contexts /\ Kept(c, Len(c.out), process_line(c, line))
<1>1. CASE Skipped(c, line)
  <2>1. process_line(c, line) = c
    BY <1>1 DEF process_line
  <2>2. Kept(c, Len(c.out), c)
    BY ContextTypes, SameKept
  <2>. QED
    BY <2>1, <2>2
<1>2. CASE ~Skipped(c, line) /\ line.op = "define"
  <2>1. line.name \in Names /\ line.body \in Bodies
    BY <1>2 DEF Lines
  <2>. QED
    BY <1>2, <2>1, DefineKeeps DEF process_line
<1>3. CASE ~Skipped(c, line) /\ line.op = "undef"
  <2>1. line.name \in Names
    BY <1>3 DEF Lines
  <2>. QED
    BY <1>3, <2>1, UndefKeeps DEF process_line
<1>4. CASE ~Skipped(c, line) /\ line.op = "ifdef"
  <2>1. line.name \in Names
    BY <1>4 DEF Lines
  <2>. QED
    BY <1>4, <2>1, IfdefKeeps DEF process_line
<1>5. CASE ~Skipped(c, line) /\ line.op = "ifndef"
  <2>1. line.name \in Names
    BY <1>5 DEF Lines
  <2>. QED
    BY <1>5, <2>1, IfdefKeeps DEF process_line
<1>6. CASE ~Skipped(c, line) /\ line.op = "else"
  <2>1. c.cond \in CondStacks
    BY DEF Contexts
  <2>2. process_line(c, line) = [c EXCEPT !.cond = cond_else(c.cond)]
    BY <1>6 DEF process_line
  <2>. QED
    BY <2>1, <2>2, CondTypes, CondKept
<1>7. CASE ~Skipped(c, line) /\ line.op = "endif"
  <2>1. c.cond \in CondStacks
    BY DEF Contexts
  <2>2. process_line(c, line) = [c EXCEPT !.cond = cond_endif(c.cond)]
    BY <1>7 DEF process_line
  <2>. QED
    BY <2>1, <2>2, CondTypes, CondKept
<1>8. CASE ~Skipped(c, line) /\ line.op = "text"
  <2>1. line.name \in Names
    BY <1>8 DEF Lines
  <2>. QED
    BY <1>8, <2>1, TextKeeps DEF process_line
<1>9. line.op \in {"define", "undef", "ifdef", "ifndef", "text", "include", "else", "endif"}
  BY DEF Lines
<1>. QED
  BY <1>1, <1>2, <1>3, <1>4, <1>5, <1>6, <1>7, <1>8, <1>9

(***************************************************************************)
(* The chain of scopes and the calls.                                      *)
(***************************************************************************)

\* The frames of two stacks up to one at `top' are the same calls.
SameCalls(s, t, top) ==
  \A i \in 1 .. top :
    /\ t[i].kind = s[i].kind /\ t[i].path = s[i].path /\ t[i].start = s[i].start
    /\ s[i].kind = "replay" => t[i].saved = s[i].saved

\* A chain asks of the frames nothing but what was called and when.
LEMMA ChainSame ==
  ASSUME NEW rec \in Seq(Recs), NEW top \in Nat, NEW s, NEW t, NEW hi,
         SameCalls(s, t, top), Chain(rec, s, top, hi)
  PROVE  Chain(rec, t, top, hi)
<1>1. Len(rec) \in Nat /\ Len(rec) < top
  BY DEF Chain
<1>2. top - Len(rec) \in 1 .. top /\ \A i \in top - Len(rec) + 1 .. top : i \in 1 .. top /\ (i = top \/ i + 1 \in 1 .. top)
  BY <1>1
<1>3. \A i \in top - Len(rec) + 1 .. top : EndAt(t, top, hi, i) = EndAt(s, top, hi, i)
  BY <1>2 DEF EndAt, SameCalls
<1>. QED
  BY <1>1, <1>2, <1>3 DEF Chain, SameCalls

\* An operation in the innermost scope.
LEMMA ChainKept ==
  ASSUME NEW c \in Contexts, NEW d \in Contexts, NEW hi \in Nat, Kept(c, hi, d), d.cache,
         NEW stk, NEW top \in Nat, \A i \in 1 .. top : stk[i].start \in Nat,
         Chain(c.rec, stk, top, hi)
  PROVE  Chain(d.rec, stk, top, Len(d.out))
<1>. DEFINE L == Len(c.rec)
            b == top - L
<1>1. L \in Nat /\ L < top /\ Len(d.rec) = L
  BY ContextTypes DEF Chain, Kept
<1>2. ASSUME NEW i \in b + 1 .. top
      PROVE  Between(d.rec[i - b], stk[i].start + 1, EndAt(stk, top, Len(d.out), i))
  <2>1. i - b \in 1 .. L /\ i \in 1 .. top /\ stk[i].start + 1 \in Nat
    BY <1>1
  <2>2. Between(c.rec[i - b], stk[i].start + 1, EndAt(stk, top, hi, i))
    BY <1>2 DEF Chain
  <2>3. CASE i = top
    BY <1>1, <2>1, <2>2, <2>3 DEF Kept, EndAt
  <2>4. CASE i # top
    <3>1. i - b \in 1 .. L - 1
      BY <1>1, <2>1, <2>4
    <3>. QED
      BY <2>2, <2>4, <3>1 DEF Kept, EndAt, Between
  <2>. QED
    BY <2>3, <2>4
<1>. QED
  BY <1>1, <1>2 DEF Chain

\* A header is read, in a scope of its own.
LEMMA ChainPush ==
  ASSUME NEW rec \in Seq(Recs), NEW r \in Recs, NEW stk, NEW top \in Nat, NEW hi \in Nat, NEW up \in Nat,
         Chain(rec, stk, top, hi), NEW t, SameCalls(stk, t, top),
         t[top + 1].kind = "source", t[top + 1].start = hi, Between(r, hi + 1, up)
  PROVE  Chain(Append(rec, r), t, top + 1, up)
<1>. DEFINE L == Len(rec)
            new == Append(rec, r)
<1>1. L \in Nat /\ Len(new) = L + 1 /\ new[L + 1] = r /\ \A i \in 1 .. L : new[i] = rec[i]
  BY AppendProperties
<1>. HIDE DEF new
<1>2. Chain(rec, t, top, hi)
  BY ChainSame
<1>3. top + 1 - Len(new) = top - L /\ L < top
  BY <1>1, <1>2 DEF Chain
<1>4. ASSUME NEW i \in top - L + 1 .. top + 1
      PROVE  /\ t[i].kind = "source"
             /\ Between(new[i - (top - L)], t[i].start + 1, EndAt(t, top + 1, up, i))
  <2>1. CASE i = top + 1
    <3>1. i - (top - L) = L + 1
      BY <1>1, <2>1
    <3>. QED
      BY <1>1, <2>1, <3>1 DEF EndAt
  <2>2. CASE i # top + 1
    <3>1. i \in top - L + 1 .. top /\ i - (top - L) \in 1 .. L
      BY <1>1, <1>3, <2>2
    <3>2. EndAt(t, top + 1, up, i) = EndAt(t, top, hi, i)
      BY <2>2 DEF EndAt
    <3>. QED
      BY <1>1, <1>2, <3>1, <3>2 DEF Chain
  <2>. QED
    BY <2>1, <2>2
<1>5. Len(new) < top + 1 /\ (top + 1 - Len(new) = 1 \/ t[top + 1 - Len(new)].kind = "replay")
  <2>1. top - L = 1 \/ t[top - L].kind = "replay"
    BY <1>2 DEF Chain
  <2>. QED
    BY <1>1, <1>3, <2>1
<1>6. \A i \in top + 1 - Len(new) + 1 .. top + 1 :
        /\ t[i].kind = "source"
        /\ Between(new[i - (top + 1 - Len(new))], t[i].start + 1, EndAt(t, top + 1, up, i))
  BY <1>3, <1>4
<1>7. Chain(new, t, top + 1, up)
  BY <1>5, <1>6 DEF Chain
<1>. QED
  BY <1>7 DEF new

\* A header ends, and its scope with it.
LEMMA ChainPop ==
  ASSUME NEW rec \in Seq(Recs), rec # << >>, NEW stk, NEW top \in Nat, NEW hi, Chain(rec, stk, top, hi)
  PROVE  /\ Chain(Front(rec), stk, top - 1, stk[top].start)
         /\ Between(Last(rec), stk[top].start + 1, hi)
<1>. DEFINE L == Len(rec)
            new == Front(rec)
<1>1. /\ L \in Nat \ {0} /\ Last(rec) = rec[L] /\ Len(new) = L - 1
      /\ \A i \in 1 .. L - 1 : new[i] = rec[i]
  BY FrontLast
<1>. HIDE DEF new
<1>2. L < top /\ top - 1 - Len(new) = top - L
  BY <1>1 DEF Chain
<1>3. Between(rec[L], stk[top].start + 1, hi)
  <2>1. top \in top - L + 1 .. top /\ top - (top - L) = L
    BY <1>1
  <2>. QED
    BY <2>1 DEF Chain, EndAt
<1>4. ASSUME NEW i \in top - L + 1 .. top - 1
      PROVE  /\ stk[i].kind = "source"
             /\ Between(new[i - (top - L)], stk[i].start + 1, EndAt(stk, top - 1, stk[top].start, i))
  <2>1. i \in top - L + 1 .. top /\ i - (top - L) \in 1 .. L - 1
    BY <1>1, <1>2
  <2>2. EndAt(stk, top - 1, stk[top].start, i) = EndAt(stk, top, hi, i)
    <3>1. i = top - 1 => i + 1 = top
      OBVIOUS
    <3>2. i # top
      OBVIOUS
    <3>. QED
      BY <3>1, <3>2 DEF EndAt
  <2>. QED
    BY <1>1, <2>1, <2>2 DEF Chain
<1>5. Len(new) < top - 1 /\ (top - 1 - Len(new) = 1 \/ stk[top - 1 - Len(new)].kind = "replay")
  BY <1>1, <1>2 DEF Chain
<1>. QED
  BY <1>1, <1>2, <1>3, <1>4, <1>5 DEF Chain, new

(***************************************************************************)
(* What a call and a return do to the order of contexts and calls.         *)
(***************************************************************************)

\* The two kinds of frames.
LEMMA FrameTypes ==
  ASSUME NEW f \in Frames
  PROVE  /\ f.kind \in {"source", "replay"} /\ f.path \in Headers \cup {Unit}
         /\ f.start \in Nat /\ f.cond \in Nat
         /\ f.kind = "source" => f.pc \in Nat \ {0} /\ f \in SourceFrames
         /\ f.kind = "replay" => /\ f \in ReplayFrames /\ f.path \in Headers /\ f.entry \in Entries
                                 /\ f.slot \in Nat \ {0} /\ f.op \in Nat \ {0}
                                 /\ f.prev \in Int /\ f.saved \in Seq(Recs)
<1>1. CASE f \in SourceFrames
  BY <1>1 DEF SourceFrames
<1>2. CASE f \in ReplayFrames
  BY <1>2 DEF ReplayFrames
<1>. QED
  BY <1>1, <1>2 DEF Frames

\* The calls of a stack.
LEMMA StackTypes ==
  ASSUME NEW s \in Seq(Frames)
  PROVE  Len(s) \in Nat /\ \A i \in 1 .. Len(s) : s[i] \in Frames /\ s[i].start \in Nat
<1>1. Len(s) \in Nat /\ \A i \in 1 .. Len(s) : s[i] \in Frames
  OBVIOUS
<1>. QED
  BY <1>1, FrameTypes

\* The innermost call goes on.
LEMMA GoesOn ==
  ASSUME NEW c, NEW s, Orderly(c, s), NEW d \in Contexts, Kept(c, Len(c.out), d),
         NEW t \in Seq(Frames), Len(t) = Len(s), SameCalls(s, t, Len(s)),
         \A i \in 1 .. Len(t) : ReplayOK(t[i])
  PROVE  Orderly(d, t)
<1>. DEFINE n == Len(s)
<1>1. /\ c \in Contexts /\ s \in Seq(Frames) /\ n \in Nat \ {0}
      /\ \A i \in 1 .. n : s[i] \in Frames /\ s[i].start \in Nat
      /\ Len(c.out) \in Nat /\ Len(d.out) \in Nat /\ Len(c.out) <= Len(d.out)
  <2>1. c \in Contexts /\ s \in Seq(Frames) /\ s # << >> /\ Len(c.out) <= Len(d.out)
    BY DEF Orderly, CallsInOrder, Kept
  <2>. QED
    BY <2>1, StackTypes, ContextTypes, EmptySeq
<1>2. CallsInOrder(d, t)
  <2>1. t # << >> /\ t[1].kind = "source" /\ t[1].path = Unit
    BY <1>1 DEF Orderly, CallsInOrder, SameCalls
  <2>2. ASSUME NEW i \in 2 .. n
        PROVE  t[i].path # Unit /\ t[i].start < EndAt(t, n, Len(d.out), i)
    <3>1. s[i].path # Unit /\ s[i].start < EndAt(s, n, Len(c.out), i) /\ i \in 1 .. n
      BY DEF Orderly, CallsInOrder
    <3>2. t[i].path = s[i].path /\ t[i].start = s[i].start /\ s[i].start \in Nat
      BY <1>1, <3>1 DEF SameCalls
    <3>3. CASE i = n
      BY <1>1, <3>1, <3>2, <3>3 DEF EndAt
    <3>4. CASE i # n
      <4>1. i + 1 \in 1 .. n
        BY <1>1, <3>4
      <4>2. t[i + 1].start = s[i + 1].start
        BY <4>1 DEF SameCalls
      <4>. QED
        BY <3>1, <3>2, <3>4, <4>2 DEF EndAt
    <3>. QED
      BY <3>3, <3>4
  <2>. QED
    BY <2>1, <2>2 DEF CallsInOrder
<1>3. d.cache => Chain(d.rec, t, n, Len(d.out))
  <2>. SUFFICES ASSUME d.cache
                PROVE  Chain(d.rec, t, n, Len(d.out))
    OBVIOUS
  <2>1. Chain(c.rec, s, n, Len(c.out))
    BY DEF Orderly, ScopesInOrder, Kept
  <2>2. Chain(d.rec, s, n, Len(d.out))
    BY <1>1, <2>1, ChainKept
  <2>. QED
    BY <1>1, <2>2, ChainSame, ContextTypes
<1>4. ASSUME NEW i \in 2 .. n, t[i].kind = "replay"
      PROVE  Chain(t[i].saved, t, i - 1, t[i].start)
  <2>1. i \in 1 .. n /\ i - 1 \in Nat /\ 1 .. i - 1 \subseteq 1 .. n
    BY <1>1
  <2>2. s[i].kind = "replay" /\ t[i].saved = s[i].saved /\ t[i].start = s[i].start
    BY <1>4, <2>1 DEF SameCalls
  <2>3. Chain(s[i].saved, s, i - 1, s[i].start)
    BY <2>2 DEF Orderly, ScopesInOrder
  <2>4. s[i].saved \in Seq(Recs)
    BY <1>1, <2>1, <2>2, FrameTypes
  <2>5. SameCalls(s, t, i - 1)
    BY <2>1 DEF SameCalls
  <2>6. Chain(s[i].saved, t, i - 1, s[i].start)
    BY <2>1, <2>3, <2>4, <2>5, ChainSame
  <2>. QED
    BY <2>2, <2>6
<1>. QED
  BY <1>1, <1>2, <1>3, <1>4 DEF Orderly, ScopesInOrder

\* A call of a header, which writes a line end first.
LEMMA Calls ==
  ASSUME NEW c, NEW s, Orderly(c, s), NEW d \in Contexts, Len(d.out) = Len(c.out) + 1,
         NEW f \in Frames, f.path # Unit, f.start = Len(c.out), ReplayOK(f),
         f.kind = "replay" => c.cache /\ f.saved = c.rec,
         d.cache => Chain(d.rec, Append(s, f), Len(s) + 1, Len(d.out))
  PROVE  Orderly(d, Append(s, f))
<1>. DEFINE n == Len(s)
            t == Append(s, f)
<1>1. /\ c \in Contexts /\ s \in Seq(Frames) /\ n \in Nat \ {0}
      /\ \A i \in 1 .. n : s[i] \in Frames /\ s[i].start \in Nat
      /\ Len(c.out) \in Nat /\ Len(d.out) \in Nat
  <2>1. c \in Contexts /\ s \in Seq(Frames) /\ s # << >>
    BY DEF Orderly, CallsInOrder
  <2>. QED
    BY <2>1, StackTypes, ContextTypes, EmptySeq
<1>2. t \in Seq(Frames) /\ Len(t) = n + 1 /\ t[n + 1] = f /\ \A i \in 1 .. n : t[i] = s[i]
  BY <1>1, AppendProperties
<1>. HIDE DEF t
<1>3. CallsInOrder(d, t)
  <2>1. t # << >> /\ t[1].kind = "source" /\ t[1].path = Unit
    BY <1>1, <1>2 DEF Orderly, CallsInOrder
  <2>2. ASSUME NEW i \in 2 .. n + 1
        PROVE  t[i].path # Unit /\ t[i].start < EndAt(t, n + 1, Len(d.out), i)
    <3>1. CASE i = n + 1
      BY <1>1, <1>2, <3>1 DEF EndAt
    <3>2. CASE i = n
      BY <1>1, <1>2, <3>2 DEF Orderly, CallsInOrder, EndAt
    <3>3. CASE i \in 2 .. n - 1
      <4>1. s[i].path # Unit /\ s[i].start < s[i + 1].start
        BY <1>1, <3>3 DEF Orderly, CallsInOrder, EndAt
      <4>2. t[i] = s[i] /\ t[i + 1] = s[i + 1] /\ i # n + 1
        BY <1>1, <1>2, <3>3
      <4>. QED
        BY <4>1, <4>2 DEF EndAt
    <3>. QED
      BY <1>1, <3>1, <3>2, <3>3
  <2>. QED
    BY <1>2, <2>1, <2>2 DEF CallsInOrder
<1>4. ASSUME NEW i \in 2 .. n + 1, t[i].kind = "replay"
      PROVE  Chain(t[i].saved, t, i - 1, t[i].start)
  <2>1. i - 1 \in Nat /\ i - 1 <= n /\ 1 .. i - 1 \subseteq 1 .. n
    BY <1>1
  <2>2. SameCalls(s, t, i - 1)
    BY <1>2, <2>1 DEF SameCalls
  <2>3. CASE i = n + 1
    <3>1. t[i] = f /\ i - 1 = n
      BY <1>1, <1>2, <2>3
    <3>2. c.cache /\ f.saved = c.rec /\ c.rec \in Seq(Recs)
      BY <1>1, <1>4, <3>1, ContextTypes
    <3>3. Chain(c.rec, s, n, Len(c.out))
      BY <3>2 DEF Orderly, ScopesInOrder
    <3>. QED
      BY <1>1, <2>2, <3>1, <3>2, <3>3, ChainSame
  <2>4. CASE i # n + 1
    <3>1. i \in 2 .. n /\ t[i] = s[i] /\ s[i] \in Frames
      BY <1>1, <1>2, <2>4
    <3>2. Chain(s[i].saved, s, i - 1, s[i].start)
      BY <1>4, <3>1 DEF Orderly, ScopesInOrder
    <3>3. s[i].saved \in Seq(Recs)
      BY <1>4, <3>1, FrameTypes
    <3>. QED
      BY <2>1, <2>2, <3>1, <3>2, <3>3, ChainSame
  <2>. QED
    BY <2>3, <2>4
<1>5. \A i \in 1 .. n + 1 : ReplayOK(t[i])
  <2>1. \A i \in 1 .. n : ReplayOK(s[i])
    BY DEF Orderly
  <2>. QED
    BY <1>1, <1>2, <2>1
<1>. QED
  BY <1>2, <1>3, <1>4, <1>5 DEF Orderly, ScopesInOrder, t

\* The end of a header or of a replay.
LEMMA Returns ==
  ASSUME NEW c, NEW s, Orderly(c, s), Len(s) > 1, NEW d \in Contexts, Len(c.out) <= Len(d.out),
         d.cache => Chain(d.rec, s, Len(s) - 1, Len(d.out))
  PROVE  Orderly(d, Front(s))
<1>. DEFINE n == Len(s)
            t == Front(s)
<1>1. /\ c \in Contexts /\ s \in Seq(Frames) /\ n \in Nat \ {0, 1}
      /\ \A i \in 1 .. n : s[i] \in Frames /\ s[i].start \in Nat
      /\ Len(c.out) \in Nat /\ Len(d.out) \in Nat
  <2>1. c \in Contexts /\ s \in Seq(Frames) /\ s # << >>
    BY DEF Orderly, CallsInOrder
  <2>. QED
    BY <2>1, StackTypes, ContextTypes
<1>2. t \in Seq(Frames) /\ Len(t) = n - 1 /\ \A i \in 1 .. n - 1 : t[i] = s[i]
  BY <1>1, FrontLast, EmptySeq
<1>. HIDE DEF t
<1>3. CallsInOrder(d, t)
  <2>1. t # << >> /\ t[1].kind = "source" /\ t[1].path = Unit
    BY <1>1, <1>2 DEF Orderly, CallsInOrder
  <2>2. ASSUME NEW i \in 2 .. n - 1
        PROVE  t[i].path # Unit /\ t[i].start < EndAt(t, n - 1, Len(d.out), i)
    <3>1. t[i] = s[i] /\ s[i].path # Unit /\ s[i].start < s[i + 1].start /\ i \in 1 .. n /\ i + 1 \in 2 .. n
      BY <1>1, <1>2 DEF Orderly, CallsInOrder, EndAt
    <3>2. CASE i = n - 1
      <4>1. s[n].start < Len(c.out)
        BY <1>1 DEF Orderly, CallsInOrder, EndAt
      <4>2. i + 1 = n /\ s[i].start \in Nat /\ s[n].start \in Nat
        BY <1>1, <3>1, <3>2
      <4>. QED
        BY <1>1, <3>1, <3>2, <4>1, <4>2 DEF EndAt
    <3>3. CASE i # n - 1
      <4>1. i + 1 \in 1 .. n - 1
        BY <1>1, <3>3
      <4>2. t[i + 1] = s[i + 1]
        BY <1>2, <4>1
      <4>. QED
        BY <3>1, <3>3, <4>2 DEF EndAt
    <3>. QED
      BY <3>2, <3>3
  <2>. QED
    BY <1>2, <2>1, <2>2 DEF CallsInOrder
<1>4. SameCalls(s, t, n - 1)
  BY <1>2 DEF SameCalls
<1>5. d.cache => Chain(d.rec, t, n - 1, Len(d.out))
  <2>1. n - 1 \in Nat /\ d.rec \in Seq(Recs)
    BY <1>1, ContextTypes
  <2>2. Chain(d.rec, s, n - 1, Len(d.out)) => Chain(d.rec, t, n - 1, Len(d.out))
    BY <1>4, <2>1, ChainSame
  <2>. QED
    BY <2>2
<1>6. ASSUME NEW i \in 2 .. n - 1, t[i].kind = "replay"
      PROVE  Chain(t[i].saved, t, i - 1, t[i].start)
  <2>1. i - 1 \in Nat /\ 1 .. i - 1 \subseteq 1 .. n - 1 /\ i \in 2 .. n /\ i \in 1 .. n - 1
    BY <1>1
  <2>2. t[i] = s[i] /\ s[i] \in Frames
    BY <1>1, <1>2, <2>1
  <2>3. Chain(s[i].saved, s, i - 1, s[i].start)
    BY <1>6, <2>1, <2>2 DEF Orderly, ScopesInOrder
  <2>4. s[i].saved \in Seq(Recs)
    BY <1>6, <2>2, FrameTypes
  <2>5. SameCalls(s, t, i - 1)
    BY <1>4, <2>1 DEF SameCalls
  <2>. QED
    BY <2>1, <2>2, <2>3, <2>4, <2>5, ChainSame
<1>7. \A i \in 1 .. n - 1 : ReplayOK(t[i])
  <2>1. \A i \in 1 .. n : ReplayOK(s[i])
    BY DEF Orderly
  <2>. SUFFICES ASSUME NEW i \in 1 .. n - 1
                PROVE  ReplayOK(t[i])
    OBVIOUS
  <2>2. i \in 1 .. n /\ t[i] = s[i]
    BY <1>1, <1>2
  <2>3. ReplayOK(s[i])
    BY <2>1, <2>2
  <2>. QED
    BY <2>2, <2>3
<1>. QED
  BY <1>2, <1>3, <1>5, <1>6, <1>7 DEF Orderly, ScopesInOrder, t

(***************************************************************************)
(* The least and the greatest of some numbers.                             *)
(***************************************************************************)

\* try_hit takes the first entry that verifies.
LEMMA MinIn ==
  ASSUME NEW S \in SUBSET Nat, S # {}
  PROVE  Min(S) \in S /\ \A x \in S : Min(S) <= x
<1>1. \E x \in S : \A y \in S : x <= y
  BY LeastExists
<1>. QED
  BY <1>1 DEF Min

\* The last operation on a name counts.
LEMMA MaxIn ==
  ASSUME NEW n \in Nat, NEW S \in SUBSET (1 .. n), S # {}
  PROVE  Max(S) \in S
<1>. DEFINE T == {n - x : x \in S}
<1>1. T \in SUBSET Nat /\ T # {}
  <2>1. \A x \in S : n - x \in Nat
    OBVIOUS
  <2>. QED
    BY <2>1
<1>2. PICK y \in T : \A z \in T : y <= z
  BY <1>1, LeastExists
<1>3. PICK x \in S : y = n - x
  OBVIOUS
<1>4. \A z \in S : x >= z
  <2>. TAKE z \in S
  <2>1. n - z \in T
    OBVIOUS
  <2>2. n - x <= n - z
    BY <1>2, <1>3, <2>1
  <2>. QED
    BY <2>2
<1>. HIDE DEF T
<1>. QED
  BY <1>4 DEF Max

(***************************************************************************)
(* pp_include_resolved.                                                    *)
(***************************************************************************)

\* A cached header is replayed with recording suspended.
LEMMA HitOrderly ==
  ASSUME TypeOK, EntriesInSpan, NEW c, NEW s, Orderly(c, s), NEW p \in Headers, IncludeHit(c, s, p)
  PROVE  Orderly(ctx', stack')
<1>. DEFINE hits == Verified(MarkSeen(c, p), p)
            e == entries[Min(hits)]
            f == [kind |-> "replay", path |-> p, entry |-> e, slot |-> 1, prev |-> 0, op |-> 1,
                  saved |-> c.rec, start |-> Len(c.out), cond |-> c.cond.depth]
            d == [MarkSeen(c, p) EXCEPT !.rec = << >>, !.out = Append(@, NL)]
<1>1. /\ ctx' = d /\ stack' = Append(s, f) /\ c.cache /\ hits # {}
      /\ c \in Contexts /\ s \in Seq(Frames) /\ Len(s) \in Nat \ {0}
      /\ c.rec \in Seq(Recs) /\ c.out \in Seq(Words) /\ Len(c.out) \in Nat
  <2>1. ctx' = d /\ stack' = Append(s, f) /\ c.cache /\ hits # {}
    BY DEF IncludeHit
  <2>2. c \in Contexts /\ s \in Seq(Frames) /\ s # << >>
    BY DEF Orderly, CallsInOrder
  <2>. QED
    BY <2>1, <2>2, ContextTypes, StackTypes, EmptySeq
<1>2. e \in Entries /\ Between(e, 0, Len(e.span))
  <2>1. entries \in Seq(Entries) /\ Len(entries) \in Nat /\ DOMAIN entries = 1 .. Len(entries)
    BY DEF TypeOK
  <2>2. hits \in SUBSET Nat /\ hits \subseteq 1 .. Len(entries)
    BY <2>1 DEF Verified
  <2>. HIDE DEF hits
  <2>3. Min(hits) \in 1 .. Len(entries)
    BY <1>1, <2>2, MinIn
  <2>. QED
    BY <2>1, <2>3 DEF EntriesInSpan
<1>. HIDE DEF e
<1>3. f \in Frames /\ ReplayOK(f) /\ f.kind = "replay" /\ f.path = p /\ f.start = Len(c.out) /\ f.saved = c.rec
  <2>1. c.cond.depth \in Nat
    BY <1>1, CondTypes DEF Contexts
  <2>2. f \in ReplayFrames
    BY <1>1, <1>2, <2>1 DEF ReplayFrames
  <2>3. Len(e.slots) \in Nat
    BY <1>2 DEF Entries
  <2>. QED
    BY <1>2, <2>2, <2>3 DEF Frames, ReplayOK
<1>. HIDE DEF f
<1>4. d \in Contexts /\ d.rec = << >> /\ Len(d.out) = Len(c.out) + 1
  <2>1. /\ Append(c.out, NL) \in Seq(Words) /\ Len(Append(c.out, NL)) = Len(c.out) + 1
        /\ << >> \in Seq(Recs)
    BY <1>1, AppendProperties DEF Words
  <2>. QED
    BY <1>1, <2>1 DEF Contexts, MarkSeen
<1>. HIDE DEF d
<1>5. Chain(d.rec, Append(s, f), Len(s) + 1, Len(d.out))
  <2>1. Append(s, f)[Len(s) + 1] = f
    BY <1>1, <1>3, AppendProperties
  <2>. QED
    BY <1>1, <1>3, <1>4, <2>1 DEF Chain
<1>6. p # Unit
  BY FilesAssumption
<1>. QED
  BY <1>1, <1>3, <1>4, <1>5, <1>6, Calls

\* A header that is not cached is read, and recorded.
LEMMA MissOrderly ==
  ASSUME NEW c, NEW s, Orderly(c, s), NEW p \in Headers, IncludeMiss(c, s, p)
  PROVE  Orderly(ctx', stack')
<1>. DEFINE m == [MarkSeen(c, p) EXCEPT !.out = Append(@, NL)]
            f == [kind |-> "source", path |-> p, pc |-> 1, start |-> Len(c.out), cond |-> c.cond.depth]
            r == NewRec(m)
<1>1. /\ ctx' = IF c.cache THEN [m EXCEPT !.rec = Append(@, r)] ELSE m
      /\ stack' = Append(s, f)
      /\ c \in Contexts /\ s \in Seq(Frames) /\ Len(s) \in Nat \ {0}
      /\ c.rec \in Seq(Recs) /\ c.out \in Seq(Words) /\ Len(c.out) \in Nat
      /\ c.cond \in CondStacks /\ c.cond.depth \in Nat
  <2>1. ctx' = (IF c.cache THEN [m EXCEPT !.rec = Append(@, r)] ELSE m) /\ stack' = Append(s, f)
    BY DEF IncludeMiss
  <2>2. c \in Contexts /\ s \in Seq(Frames) /\ s # << >>
    BY DEF Orderly, CallsInOrder
  <2>3. c.cond \in CondStacks
    BY <2>2 DEF Contexts
  <2>. QED
    BY <2>1, <2>2, <2>3, ContextTypes, StackTypes, EmptySeq, CondTypes
<1>2. m \in Contexts /\ m.rec = c.rec /\ m.cache = c.cache /\ m.cond = c.cond /\ Len(m.out) = Len(c.out) + 1
  <2>1. Append(c.out, NL) \in Seq(Words) /\ Len(Append(c.out, NL)) = Len(c.out) + 1
    BY <1>1, AppendProperties DEF Words
  <2>. QED
    BY <1>1, <2>1 DEF Contexts, MarkSeen
<1>. HIDE DEF m
<1>3. f \in Frames /\ ReplayOK(f) /\ f.kind = "source" /\ f.path = p /\ f.start = Len(c.out)
  BY <1>1 DEF Frames, SourceFrames, ReplayOK
<1>. HIDE DEF f
<1>4. r \in Recs /\ Between(r, Len(c.out) + 1, Len(c.out) + 1)
  <2>1. << >> \in Seq(Ops) /\ << >> \in Seq(Slots) /\ Len(<< >>) = 0
    OBVIOUS
  <2>2. cond_is_skipping(m.cond) \in BOOLEAN
    BY <1>1, <1>2, CondTypes
  <2>3. r \in Recs /\ r.slots = << >> /\ r.ops = << >>
    BY <1>1, <1>2, <2>1, <2>2 DEF NewRec, Recs
  <2>. HIDE DEF r
  <2>. QED
    BY <1>1, <2>1, <2>3 DEF Between, SlotsIn, OpsIn
<1>. HIDE DEF r
<1>5. p # Unit
  BY FilesAssumption
<1>6. CASE c.cache
  <2>. DEFINE d == [m EXCEPT !.rec = Append(@, r)]
  <2>1. d \in Contexts /\ d.out = m.out /\ d.rec = Append(c.rec, r)
    <3>1. Append(c.rec, r) \in Seq(Recs)
      BY <1>1, <1>4, AppendProperties
    <3>. QED
      BY <1>2, <3>1 DEF Contexts
  <2>2. ctx' = d
    BY <1>1, <1>6
  <2>. HIDE DEF d
  <2>3. Chain(c.rec, s, Len(s), Len(c.out))
    BY <1>6 DEF Orderly, ScopesInOrder
  <2>4. SameCalls(s, Append(s, f), Len(s)) /\ Append(s, f)[Len(s) + 1] = f
    BY <1>1, <1>3, AppendProperties DEF SameCalls
  <2>5. Chain(Append(c.rec, r), Append(s, f), Len(s) + 1, Len(c.out) + 1)
    <3>. DEFINE t == Append(s, f)
                up == Len(c.out) + 1
    <3>1. t[Len(s) + 1].kind = "source" /\ t[Len(s) + 1].start = Len(c.out) /\ SameCalls(s, t, Len(s))
      BY <1>3, <2>4
    <3>2. up \in Nat /\ Between(r, up, up)
      BY <1>1, <1>4
    <3>. HIDE DEF t
    <3>3. Chain(Append(c.rec, r), t, Len(s) + 1, up)
      BY <1>1, <1>4, <2>3, <3>1, <3>2, ChainPush
    <3>. QED
      BY <3>3 DEF t
  <2>. QED
    BY <1>1, <1>2, <1>3, <1>5, <2>1, <2>2, <2>5, Calls
<1>7. CASE ~c.cache
  BY <1>1, <1>2, <1>3, <1>5, <1>7, Calls
<1>. QED
  BY <1>6, <1>7

\* Whatever becomes of an #include, contexts and calls stay in order.
LEMMA IncludeOrderly ==
  ASSUME TypeOK, EntriesInSpan, NEW c, NEW s, Orderly(c, s), NEW p \in Headers,
         pp_include_resolved(c, s, p)
  PROVE  Orderly(ctx', stack')
<1>1. CASE IncludeSuppressed(c, s, p)
  <2>1. c \in Contexts /\ s \in Seq(Frames) /\ \A i \in 1 .. Len(s) : ReplayOK(s[i])
    BY DEF Orderly
  <2>2. SameCalls(s, s, Len(s))
    BY DEF SameCalls
  <2>3. ctx' = pp_cache_note_seen(c, p) /\ stack' = s
    BY <1>1 DEF IncludeSuppressed
  <2>. QED
    BY <2>1, <2>2, <2>3, SeenKeeps, GoesOn
<1>2. CASE IncludeFull(c, s, p)
  BY <1>2 DEF IncludeFull
<1>. QED
  BY <1>1, <1>2, HitOrderly, MissOrderly DEF pp_include_resolved

(***************************************************************************)
(* The cache.                                                              *)
(***************************************************************************)

\* A piece of a sequence.
LEMMA PieceType ==
  ASSUME NEW S, NEW s \in Seq(S), NEW m \in Nat \ {0}, NEW n \in Int, n <= Len(s)
  PROVE  /\ SubSeq(s, m, n) \in Seq(S)
         /\ Len(SubSeq(s, m, n)) = IF m <= n THEN n - m + 1 ELSE 0
<1>1. \A i \in m .. n : s[i] \in S
  OBVIOUS
<1>. QED
  BY <1>1, SubSeqProperties

\* What a scope has recorded, moved to the beginning of its span.
LEMMA EntryInSpan ==
  ASSUME NEW c \in Contexts, c.rec # << >>, NEW p \in Headers, NEW start \in Nat,
         Between(Last(c.rec), start, Len(c.out))
  PROVE  EntryOf(c, p, start) \in Entries /\ Between(EntryOf(c, p, start), 0, Len(EntryOf(c, p, start).span))
<1>. DEFINE r == Last(c.rec)
            span == SubSeq(c.out, start + 1, Len(c.out))
            ops == [i \in DOMAIN r.ops |-> [r.ops[i] EXCEPT !.offset = @ - start]]
            slots == [i \in DOMAIN r.slots |-> [r.slots[i] EXCEPT !.start = @ - start, !.end = @ - start]]
            delta == (c.cond.depth - r.depth) - r.childDelta
            e == EntryOf(c, p, start)
<1>1. r \in Recs /\ c.out \in Seq(Words) /\ Len(c.out) \in Nat /\ c.cond.depth \in Nat
  <2>1. c.rec \in Seq(Recs) /\ c.out \in Seq(Words) /\ Len(c.out) \in Nat /\ c.cond \in CondStacks
    BY ContextTypes DEF Contexts
  <2>. QED
    BY <2>1, FrontLast, CondTypes
<1>2. /\ r.ops \in Seq(Ops) /\ r.slots \in Seq(Slots) /\ r.probes \in SUBSET Probes
      /\ r.seens \in SUBSET Headers /\ r.skipping \in BOOLEAN /\ r.depth \in Nat /\ r.childDelta \in Int
      /\ start <= Len(c.out) /\ SlotsIn(r.slots, start, Len(c.out)) /\ OpsIn(r.ops, start, Len(c.out))
  BY <1>1 DEF Recs, Between
<1>. HIDE DEF r
<1>3. span \in Seq(Words) /\ Len(span) = Len(c.out) - start
  <2>1. start + 1 \in Nat \ {0} /\ Len(c.out) \in Int
    BY <1>1
  <2>. QED
    BY <1>1, <1>2, <2>1, PieceType
<1>. HIDE DEF span
<1>4. /\ ops \in Seq(Ops) /\ Len(ops) = Len(r.ops)
      /\ \A i \in 1 .. Len(ops) : r.ops[i].offset \in Int /\ ops[i].offset = r.ops[i].offset - start
  <2>1. Len(r.ops) \in Nat /\ DOMAIN r.ops = 1 .. Len(r.ops) /\ \A i \in 1 .. Len(r.ops) : r.ops[i] \in Ops
    BY <1>2
  <2>2. \A o \in Ops : /\ [o EXCEPT !.offset = @ - start] \in Ops /\ o.offset \in Int
                       /\ [o EXCEPT !.offset = @ - start].offset = o.offset - start
    BY DEF Ops
  <2>3. ops = [i \in 1 .. Len(r.ops) |-> [r.ops[i] EXCEPT !.offset = @ - start]]
    BY <2>1
  <2>4. \A i \in 1 .. Len(r.ops) : [r.ops[i] EXCEPT !.offset = @ - start] \in Ops
    BY <2>1, <2>2
  <2>. QED
    BY <2>1, <2>2, <2>3, <2>4
<1>5. /\ slots \in Seq(Slots) /\ Len(slots) = Len(r.slots)
      /\ \A i \in 1 .. Len(slots) : /\ r.slots[i].start \in Int /\ r.slots[i].end \in Int
                                    /\ slots[i].start = r.slots[i].start - start
                                    /\ slots[i].end = r.slots[i].end - start
  <2>1. Len(r.slots) \in Nat /\ DOMAIN r.slots = 1 .. Len(r.slots) /\ \A i \in 1 .. Len(r.slots) : r.slots[i] \in Slots
    BY <1>2
  <2>. DEFINE moved(o) == [o EXCEPT !.start = @ - start, !.end = @ - start]
  <2>2. ASSUME NEW o \in Slots
        PROVE  /\ o.start \in Int /\ o.end \in Int /\ moved(o) \in Slots
               /\ moved(o).start = o.start - start /\ moved(o).end = o.end - start
    <3>. DEFINE x == o.start - start
                y == o.end - start
    <3>1. o.start \in Int /\ o.end \in Int
      BY DEF Slots
    <3>2. x \in Int /\ y \in Int
      BY <3>1
    <3>3. moved(o) = [o EXCEPT !.start = x, !.end = y]
      BY DEF Slots
    <3>. HIDE DEF x, y
    <3>4. /\ [o EXCEPT !.start = x, !.end = y] \in Slots
          /\ [o EXCEPT !.start = x, !.end = y].start = x
          /\ [o EXCEPT !.start = x, !.end = y].end = y
      BY <3>2 DEF Slots
    <3>. QED
      BY <3>1, <3>3, <3>4 DEF x, y
  <2>3. slots = [i \in 1 .. Len(r.slots) |-> moved(r.slots[i])]
    BY <2>1
  <2>. HIDE DEF moved, slots
  <2>4. \A i \in 1 .. Len(r.slots) : moved(r.slots[i]) \in Slots
    BY <2>1, <2>2
  <2>5. slots \in Seq(Slots) /\ Len(slots) = Len(r.slots)
    BY <2>1, <2>3, <2>4
  <2>. QED
    BY <2>1, <2>2, <2>3, <2>5
<1>6. e = [path |-> p, span |-> span, probes |-> r.probes, seens |-> r.seens, ops |-> ops,
           slots |-> slots, skipping |-> r.skipping, delta |-> delta, seq |-> 0]
  BY DEF EntryOf, r, span
<1>7. delta \in Int
  BY <1>1, <1>2
<1>. HIDE DEF ops, slots, delta, e
<1>8. e \in Entries /\ e.span = span /\ e.ops = ops /\ e.slots = slots
  BY <1>2, <1>3, <1>4, <1>5, <1>6, <1>7 DEF Entries
<1>9. SlotsIn(slots, 0, Len(c.out) - start)
  <2>. SUFFICES ASSUME NEW k \in 1 .. Len(slots)
                PROVE  /\ 0 <= slots[k].start /\ slots[k].start < slots[k].end /\ slots[k].end <= Len(c.out) - start
                       /\ k > 1 => slots[k - 1].end <= slots[k].start
    BY DEF SlotsIn
  <2>1. Len(slots) \in Nat /\ (k > 1 => k - 1 \in 1 .. Len(slots))
    BY <1>5
  <2>2. /\ start <= r.slots[k].start /\ r.slots[k].start < r.slots[k].end /\ r.slots[k].end <= Len(c.out)
        /\ k > 1 => r.slots[k - 1].end <= r.slots[k].start
    BY <1>2, <1>5 DEF SlotsIn
  <2>3. /\ r.slots[k].start \in Int /\ r.slots[k].end \in Int
        /\ slots[k].start = r.slots[k].start - start /\ slots[k].end = r.slots[k].end - start
        /\ k > 1 => r.slots[k - 1].end \in Int /\ slots[k - 1].end = r.slots[k - 1].end - start
    BY <1>5, <2>1
  <2>4. 0 <= slots[k].start /\ slots[k].start < slots[k].end /\ slots[k].end <= Len(c.out) - start
    BY <1>1, <2>2, <2>3
  <2>5. k > 1 => slots[k - 1].end <= slots[k].start
    BY <2>2, <2>3
  <2>. QED
    BY <2>4, <2>5
<1>10. OpsIn(ops, 0, Len(c.out) - start)
  <2>1. /\ \A k \in 1 .. Len(ops) : start <= r.ops[k].offset /\ r.ops[k].offset <= Len(c.out)
        /\ \A k, l \in 1 .. Len(ops) : k <= l => r.ops[k].offset <= r.ops[l].offset
    BY <1>2, <1>4 DEF OpsIn
  <2>2. \A k \in 1 .. Len(ops) : 0 <= ops[k].offset /\ ops[k].offset <= Len(c.out) - start
    BY <1>1, <1>4, <2>1
  <2>3. \A k, l \in 1 .. Len(ops) : k <= l => ops[k].offset <= ops[l].offset
    BY <1>1, <1>4, <2>1
  <2>. QED
    BY <2>2, <2>3 DEF OpsIn
<1>11. 0 <= Len(c.out) - start
  BY <1>1, <1>2
<1>. QED
  BY <1>3, <1>8, <1>9, <1>10, <1>11 DEF Between, e

\* The entry takes the place of another one, or one at the end.
LEMMA StoreInSpan ==
  ASSUME TypeOK, EntriesInSpan, NEW e \in Entries, Between(e, 0, Len(e.span)), pp_cache_store(e)
  PROVE  entries' \in Seq(Entries) /\ seq' \in Nat /\ EntriesInSpan'
<1>. DEFINE ne == [e EXCEPT !.seq = seq]
<1>1. entries \in Seq(Entries) /\ seq \in Nat /\ Len(entries) \in Nat /\ DOMAIN entries = 1 .. Len(entries)
  BY DEF TypeOK
<1>2. ne \in Entries /\ Between(ne, 0, Len(ne.span))
  <2>1. ne \in Entries /\ ne.span = e.span /\ ne.slots = e.slots /\ ne.ops = e.ops
    BY <1>1 DEF Entries
  <2>. HIDE DEF ne
  <2>. QED
    BY <2>1 DEF Between
<1>3. /\ entries' = [entries EXCEPT ![Oldest] = ne] \/ entries' = Append(entries, ne)
      /\ seq' = seq + 1
  BY DEF pp_cache_store
<1>. HIDE DEF ne
<1>4. /\ entries' \in Seq(Entries)
      /\ \A i \in DOMAIN entries' : entries'[i] = ne \/ (i \in DOMAIN entries /\ entries'[i] = entries[i])
  <2>1. CASE entries' = [entries EXCEPT ![Oldest] = ne]
    <3>1. entries' = [i \in 1 .. Len(entries) |-> IF i = Oldest THEN ne ELSE entries[i]]
      BY <1>1, <2>1
    <3>2. \A i \in 1 .. Len(entries) : entries[i] \in Entries
      BY <1>1
    <3>. QED
      BY <1>1, <1>2, <3>1, <3>2
  <2>2. CASE entries' = Append(entries, ne)
    <3>1. /\ entries' \in Seq(Entries) /\ Len(entries') = Len(entries) + 1
          /\ \A i \in 1 .. Len(entries) : entries'[i] = entries[i]
          /\ entries'[Len(entries) + 1] = ne
      BY <1>1, <1>2, <2>2, AppendProperties
    <3>2. DOMAIN entries' = 1 .. Len(entries) + 1
      BY <3>1
    <3>. QED
      BY <1>1, <3>1, <3>2
  <2>. QED
    BY <1>3, <2>1, <2>2
<1>. QED
  BY <1>1, <1>2, <1>3, <1>4 DEF EntriesInSpan

\* The operations of an entry that come before a position of its span.
LEMMA OpsUpToType ==
  ASSUME NEW e, e.ops \in Seq(Ops), NEW from \in Nat \ {0}, NEW limit
  PROVE  OpsUpTo(e, from, limit) \in Nat /\ OpsUpTo(e, from, limit) <= Len(e.ops)
<1>. DEFINE later == {i \in from .. Len(e.ops) : e.ops[i].offset > limit}
<1>1. Len(e.ops) \in Nat /\ later \in SUBSET Nat /\ later \subseteq from .. Len(e.ops)
  OBVIOUS
<1>2. OpsUpTo(e, from, limit) = IF later = {} THEN Len(e.ops) ELSE Min(later) - 1
  BY DEF OpsUpTo
<1>. HIDE DEF later
<1>3. CASE later = {}
  BY <1>1, <1>2, <1>3
<1>4. CASE later # {}
  <2>1. Min(later) \in from .. Len(e.ops)
    BY <1>1, <1>4, MinIn
  <2>. QED
    BY <1>1, <1>2, <1>4, <2>1
<1>. QED
  BY <1>3, <1>4

\* Replayed operations leave a table of macros.
LEMMA ReplayOpsType ==
  ASSUME NEW macros \in MacroTables, NEW ops \in Seq(Ops)
  PROVE  replay_ops(macros, ops) \in MacroTables
<1>1. ASSUME NEW n \in Names
      PROVE  replay_ops(macros, ops)[n] \in Bodies \cup {Undef}
  <2>. DEFINE on == {i \in DOMAIN ops : ops[i].name = n}
  <2>1. replay_ops(macros, ops)[n] = IF on = {} THEN macros[n] ELSE ops[Max(on)].body
    BY DEF replay_ops
  <2>2. Len(ops) \in Nat /\ DOMAIN ops = 1 .. Len(ops) /\ \A i \in 1 .. Len(ops) : ops[i] \in Ops
    OBVIOUS
  <2>3. on \subseteq 1 .. Len(ops)
    BY <2>2
  <2>. HIDE DEF on
  <2>4. on # {} => ops[Max(on)] \in Ops
    BY <2>2, <2>3, MaxIn
  <2>. QED
    BY <2>1, <2>4 DEF Ops, MacroTables
<1>2. \E F : replay_ops(macros, ops) = [n \in Names |-> F[n]]
  <2>1. replay_ops(macros, ops) = [n \in Names |-> replay_ops(macros, ops)[n]]
    BY DEF replay_ops
  <2>. QED
    BY <2>1
<1>. QED
  BY <1>1, <1>2 DEF MacroTables

(***************************************************************************)
(* The innermost call.                                                     *)
(***************************************************************************)

\* In a running unit: the parts of the invariant about the innermost call.
LEMMA TopTypes ==
  ASSUME IInv, phase = "run"
  PROVE  /\ Orderly(ctx, stack) /\ ctx \in Contexts /\ stack \in Seq(Frames)
         /\ Len(stack) \in Nat \ {0} /\ Top = stack[Len(stack)] /\ Top \in Frames /\ ReplayOK(Top)
         /\ (Top.path # Unit \/ Top.kind = "replay") => Len(stack) > 1 /\ Top.path \in Headers /\ Top.start < Len(ctx.out)
<1>1. /\ Orderly(ctx, stack) /\ ctx \in Contexts /\ stack \in Seq(Frames)
      /\ stack # << >> /\ stack[1].kind = "source" /\ stack[1].path = Unit
      /\ \A i \in 1 .. Len(stack) : ReplayOK(stack[i])
  BY DEF IInv, Orderly, CallsInOrder
<1>2. Len(stack) \in Nat \ {0} /\ Top = stack[Len(stack)] /\ Top \in Frames
  BY <1>1, FrontLast DEF Top
<1>3. ASSUME Top.path # Unit \/ Top.kind = "replay"
      PROVE  Len(stack) > 1 /\ Top.path \in Headers /\ Top.start < Len(ctx.out)
  <2>1. Len(stack) > 1
    BY <1>1, <1>2, <1>3
  <2>2. Len(stack) \in 2 .. Len(stack)
    BY <1>2, <2>1
  <2>3. Top.path # Unit /\ Top.start < Len(ctx.out)
    BY <1>1, <1>2, <2>2 DEF Orderly, CallsInOrder, EndAt
  <2>. QED
    BY <1>2, <2>1, <2>3, FrameTypes
<1>. QED
  BY <1>1, <1>2, <1>3

\* The line that is read.
LEMMA LineTypes ==
  ASSUME IInv, Reading
  PROVE  CurrentLine \in Lines
<1>1. phase = "run" /\ Top.kind = "source" /\ Top.pc <= Len(Text(Top.path))
  BY DEF Reading, Running
<1>2. Top \in Frames
  BY <1>1, TopTypes
<1>3. Top.path \in Headers \cup {Unit} /\ Top.pc \in Nat \ {0}
  BY <1>1, <1>2, FrameTypes
<1>4. tree \in [Headers -> Seq(Lines)] /\ src \in Seq(Lines)
  BY FilesAssumption DEF IInv, TypeOK
<1>5. Text(Top.path) \in Seq(Lines)
  BY <1>3, <1>4 DEF Text
<1>. QED
  BY <1>1, <1>3, <1>5 DEF CurrentLine

\* The next line of the innermost call.
LEMMA AdvancedTypes ==
  ASSUME IInv, Reading
  PROVE  /\ Advanced \in Seq(Frames) /\ Len(Advanced) = Len(stack)
         /\ SameCalls(stack, Advanced, Len(stack))
         /\ \A i \in 1 .. Len(Advanced) : ReplayOK(Advanced[i])
<1>. DEFINE n == Len(stack)
            f == [Top EXCEPT !.pc = @ + 1]
<1>1. phase = "run" /\ Top.kind = "source"
  BY DEF Reading, Running
<1>2. stack \in Seq(Frames) /\ n \in Nat \ {0} /\ Top = stack[n] /\ Top \in Frames
  BY <1>1, TopTypes
<1>3. Top \in SourceFrames
  BY <1>1, <1>2, FrameTypes
<1>4. /\ f \in SourceFrames /\ f.kind = Top.kind /\ f.path = Top.path /\ f.start = Top.start
  BY <1>3 DEF SourceFrames
<1>5. Advanced = [stack EXCEPT ![n] = f]
  BY <1>2 DEF Advanced
<1>. HIDE DEF f
<1>6. /\ Advanced \in Seq(Frames) /\ Len(Advanced) = n
      /\ \A i \in 1 .. n : Advanced[i] = IF i = n THEN f ELSE stack[i]
  <2>1. f \in Frames
    BY <1>4 DEF Frames
  <2>. QED
    BY <1>2, <1>5, <2>1, ExceptSeq
<1>7. \A i \in 1 .. n : ReplayOK(stack[i])
  BY <1>1 DEF IInv, Orderly
<1>8. ReplayOK(f)
  BY <1>1, <1>4 DEF ReplayOK
<1>. QED
  BY <1>1, <1>2, <1>4, <1>6, <1>7, <1>8 DEF SameCalls

(***************************************************************************)
(* The invariant, action by action.                                        *)
(***************************************************************************)

\* What an action inside of a unit has to show.
LEMMA InUnit ==
  ASSUME IInv, phase = "run", UnchangedBatch, UnchangedCache, Orderly(ctx', stack')
  PROVE  IInv'
<1>1. ctx' \in Contexts /\ stack' \in Seq(Frames)
  BY DEF Orderly
<1>2. TypeOK'
  BY <1>1 DEF IInv, TypeOK, UnchangedBatch, UnchangedCache
<1>3. EntriesInSpan'
  BY DEF IInv, EntriesInSpan, UnchangedCache
<1>. QED
  BY <1>2, <1>3 DEF IInv, UnchangedBatch

\* A unit begins with nothing recorded.
LEMMA StartUnitStep ==
  ASSUME IInv, NEW s \in Sources, StartUnit(s)
  PROVE  IInv'
<1>. DEFINE c == NewCtx(TRUE)
            f == [kind |-> "source", path |-> Unit, pc |-> 1, start |-> 0, cond |-> 0]
<1>1. /\ ctx' = c /\ stack' = <<f>> /\ phase' = "run" /\ src' = s /\ left' = left - 1 /\ left > 0
      /\ UNCHANGED <<tree, entries, seq, crashed>>
  BY DEF StartUnit
<1>2. c \in Contexts /\ c.rec = << >> /\ Len(c.out) = 0
  BY CondTypes DEF NewCtx, Contexts, MacroTables
<1>. HIDE DEF c
<1>3. f \in Frames /\ f.kind = "source" /\ f.path = Unit
  BY DEF Frames, SourceFrames
<1>. HIDE DEF f
<1>4. <<f>> \in Seq(Frames) /\ Len(<<f>>) = 1 /\ <<f>>[1] = f /\ <<f>> # << >>
  BY <1>3
<1>5. Orderly(c, <<f>>)
  BY <1>2, <1>3, <1>4 DEF Orderly, CallsInOrder, ScopesInOrder, Chain, ReplayOK
<1>6. TypeOK'
  <2>1. s \in Seq(Lines)
    BY FilesAssumption
  <2>. QED
    BY <1>1, <1>2, <1>4, <2>1 DEF IInv, TypeOK
<1>7. EntriesInSpan'
  BY <1>1 DEF IInv, EntriesInSpan
<1>. QED
  BY <1>1, <1>5, <1>6, <1>7 DEF IInv

\* A line charges what it reads and writes to the innermost scope.
LEMMA ProcessLineStep ==
  ASSUME IInv, ProcessLine
  PROVE  IInv'
<1>1. /\ Reading /\ phase = "run" /\ UnchangedBatch /\ UnchangedCache
      /\ CurrentLine.op # "include" \/ Skipped(ctx, CurrentLine)
      /\ ctx' = process_line(ctx, CurrentLine) /\ stack' = Advanced
  BY DEF ProcessLine, Reading, Running
<1>2. Orderly(ctx, stack) /\ ctx \in Contexts
  BY <1>1, TopTypes
<1>3. ctx' \in Contexts /\ Kept(ctx, Len(ctx.out), ctx')
  BY <1>1, <1>2, LineTypes, LineKeeps
<1>4. Orderly(ctx', stack')
  BY <1>1, <1>2, <1>3, AdvancedTypes, GoesOn
<1>. QED
  BY <1>1, <1>4, InUnit

\* An #include of a file that is read.
LEMMA ProcessIncludeStep ==
  ASSUME IInv, ProcessInclude
  PROVE  IInv'
<1>1. /\ Reading /\ phase = "run" /\ UnchangedBatch /\ UnchangedCache
      /\ CurrentLine.op = "include"
      /\ pp_include_resolved(ctx, Advanced, CurrentLine.name)
  BY DEF ProcessInclude, Reading, Running
<1>2. Orderly(ctx, stack) /\ ctx \in Contexts
  BY <1>1, TopTypes
<1>3. Kept(ctx, Len(ctx.out), ctx)
  BY <1>2, SameKept, ContextTypes
<1>4. Orderly(ctx, Advanced)
  BY <1>1, <1>2, <1>3, AdvancedTypes, GoesOn
<1>5. CurrentLine.name \in Headers
  BY <1>1, LineTypes DEF Lines
<1>6. Orderly(ctx', stack')
  BY <1>1, <1>4, <1>5, IncludeOrderly DEF IInv
<1>. QED
  BY <1>1, <1>6, InUnit

\* The end of a header: its scope becomes an entry, and the header a slot of
\* the scope around it.
LEMMA EndHeaderStep ==
  ASSUME IInv, EndHeader
  PROVE  IInv'
<1>. DEFINE n == Len(stack)
            c == IF ctx.rec = << >> THEN ctx ELSE [ctx EXCEPT !.rec = Front(@)]
            done == [c EXCEPT !.out = Append(@, NL)]
            e == EntryOf(ctx, Top.path, Top.start + 1)
            d == pp_cache_note_slot(done, Top.path, Top.start, Top.cond)
<1>1. /\ phase = "run" /\ Top.kind = "source" /\ Top.path # Unit
      /\ ctx' = d /\ stack' = Front(stack) /\ UnchangedBatch
      /\ crashed' = (ctx.rec # << >> /\ ~ctx.cache)
      /\ IF Recording(ctx) THEN pp_cache_store(e) ELSE UNCHANGED <<entries, seq>>
  BY DEF EndHeader, Running
<1>2. /\ Orderly(ctx, stack) /\ ctx \in Contexts /\ stack \in Seq(Frames)
      /\ n \in Nat /\ n > 1 /\ Top = stack[n] /\ Top \in Frames
      /\ Top.path \in Headers /\ Top.start < Len(ctx.out)
      /\ Top.start \in Nat /\ Top.cond \in Nat
  BY <1>1, TopTypes, FrameTypes
<1>3. c \in Contexts /\ c.out = ctx.out /\ c.cache = ctx.cache
      /\ c.rec = IF ctx.rec = << >> THEN << >> ELSE Front(ctx.rec)
  <2>1. ctx.rec # << >> => Front(ctx.rec) \in Seq(Recs)
    BY <1>2, ContextTypes, FrontLast
  <2>. QED
    BY <1>2, <2>1 DEF Contexts
<1>. HIDE DEF c
<1>4. done \in Contexts /\ Len(done.out) = Len(ctx.out) + 1 /\ done.cache = ctx.cache /\ done.rec = c.rec
  <2>1. done \in Contexts /\ Len(done.out) = Len(c.out) + 1
    BY <1>3, OutKept DEF Words
  <2>2. done.cache = c.cache /\ done.rec = c.rec
    BY <1>3 DEF Contexts
  <2>. QED
    BY <1>3, <2>1, <2>2
<1>. HIDE DEF done
<1>5. Len(ctx.out) \in Nat /\ Top.start < Len(done.out)
  BY <1>2, <1>4, ContextTypes
<1>6. d \in Contexts /\ Kept(done, Top.start, d)
  BY <1>2, <1>4, <1>5, SlotKeeps
<1>. HIDE DEF d
<1>7. ASSUME ctx.cache
      PROVE  /\ ctx.rec # << >> /\ Between(Last(ctx.rec), Top.start + 1, Len(ctx.out))
             /\ Chain(done.rec, stack, n - 1, Top.start)
  <2>1. Chain(ctx.rec, stack, n, Len(ctx.out))
    BY <1>2, <1>7 DEF Orderly, ScopesInOrder
  <2>2. ctx.rec # << >>
    <3>1. ASSUME ctx.rec = << >>
          PROVE  FALSE
      <4>1. Len(ctx.rec) = 0
        BY <3>1
      <4>2. n - 0 = 1 \/ stack[n - 0].kind = "replay"
        BY <2>1, <4>1 DEF Chain
      <4>. QED
        BY <1>1, <1>2, <4>2
    <3>. QED
      BY <3>1
  <2>3. ctx.rec \in Seq(Recs)
    BY <1>2, ContextTypes
  <2>. QED
    BY <1>2, <1>3, <1>4, <2>1, <2>2, <2>3, ChainPop
<1>8. Orderly(d, Front(stack))
  <2>1. ASSUME d.cache
        PROVE  Chain(d.rec, stack, n - 1, Len(d.out))
    <3>1. Chain(done.rec, stack, n - 1, Top.start)
      BY <1>4, <1>6, <1>7, <2>1 DEF Kept
    <3>2. n - 1 \in Nat /\ \A i \in 1 .. n - 1 : stack[i].start \in Nat
      BY <1>2, StackTypes
    <3>. QED
      BY <1>2, <1>4, <1>6, <2>1, <3>1, <3>2, ChainKept
  <2>2. Len(ctx.out) <= Len(d.out)
    BY <1>4, <1>5, <1>6, ContextTypes DEF Kept
  <2>. QED
    BY <1>2, <1>6, <2>1, <2>2, Returns
<1>9. entries' \in Seq(Entries) /\ seq' \in Nat /\ EntriesInSpan'
  <2>1. CASE Recording(ctx)
    <3>1. Top.start + 1 \in Nat /\ ctx.rec # << >> /\ Between(Last(ctx.rec), Top.start + 1, Len(ctx.out))
      BY <1>2, <1>7, <2>1 DEF Recording
    <3>2. e \in Entries /\ Between(e, 0, Len(e.span))
      BY <1>2, <3>1, EntryInSpan
    <3>. HIDE DEF e
    <3>. QED
      BY <1>1, <2>1, <3>2, StoreInSpan DEF IInv
  <2>2. CASE ~Recording(ctx)
    BY <1>1, <2>2 DEF IInv, TypeOK, EntriesInSpan
  <2>. QED
    BY <2>1, <2>2
<1>10. TypeOK'
  <2>1. ctx' \in Contexts /\ stack' \in Seq(Frames)
    BY <1>1, <1>8 DEF Orderly
  <2>2. crashed' \in BOOLEAN
    BY <1>1
  <2>. QED
    BY <1>1, <1>9, <2>1, <2>2 DEF IInv, TypeOK, UnchangedBatch
<1>. QED
  BY <1>1, <1>8, <1>9, <1>10 DEF IInv, UnchangedBatch

\* A child of a replay: the text and the operations before it, then the
\* header it names.
LEMMA ReplayChildStep ==
  ASSUME IInv, ReplayChild
  PROVE  IInv'
<1>. DEFINE n == Len(stack)
            f == Top
            e == f.entry
            s == e.slots[f.slot]
            k == OpsUpTo(e, f.op, s.start)
            macros == replay_ops(ctx.macros, SubSeq(e.ops, f.op, k))
            out == ctx.out \o SubSeq(e.span, f.prev + 1, s.start)
            c == [ctx EXCEPT !.macros = macros, !.out = out]
            g == [f EXCEPT !.slot = @ + 1, !.prev = s.end, !.op = k + 1]
            stk == [stack EXCEPT ![n] = g]
<1>1. /\ phase = "run" /\ f.kind = "replay" /\ f.slot <= Len(e.slots) /\ UnchangedBatch /\ UnchangedCache
      /\ pp_include_resolved(c, stk, s.path)
  BY DEF ReplayChild, Running
<1>2. /\ Orderly(ctx, stack) /\ ctx \in Contexts /\ stack \in Seq(Frames) /\ n \in Nat \ {0}
      /\ f = stack[n] /\ f \in Frames /\ ReplayOK(f)
  BY <1>1, TopTypes
<1>3. /\ f \in ReplayFrames /\ e \in Entries /\ f.slot \in Nat \ {0} /\ f.op \in Nat \ {0} /\ f.prev \in Int
      /\ Between(e, 0, Len(e.span)) /\ f.prev = IF f.slot = 1 THEN 0 ELSE e.slots[f.slot - 1].end
  BY <1>1, <1>2, FrameTypes DEF ReplayOK
<1>. HIDE DEF f
<1>4. e.ops \in Seq(Ops) /\ e.slots \in Seq(Slots) /\ e.span \in Seq(Words) /\ Len(e.slots) \in Nat /\ Len(e.span) \in Nat
  BY <1>3 DEF Entries
<1>. HIDE DEF e
<1>5. /\ s \in Slots /\ s.path \in Headers /\ s.start \in Int /\ s.end \in Int
      /\ s.start <= Len(e.span) /\ f.prev \in Nat
  <2>1. f.slot \in 1 .. Len(e.slots) /\ (f.slot # 1 => f.slot - 1 \in 1 .. Len(e.slots))
    BY <1>1, <1>3, <1>4
  <2>2. \A i \in 1 .. Len(e.slots) : e.slots[i] \in Slots
    BY <1>4
  <2>3. \A i \in 1 .. Len(e.slots) : e.slots[i].path \in Headers /\ e.slots[i].start \in Int /\ e.slots[i].end \in Int
    BY <2>2 DEF Slots
  <2>4. \A i \in 1 .. Len(e.slots) :
          0 <= e.slots[i].start /\ e.slots[i].start < e.slots[i].end /\ e.slots[i].end <= Len(e.span)
    BY <1>3 DEF Between, SlotsIn
  <2>5. \A i \in 1 .. Len(e.slots) : 0 <= e.slots[i].end /\ e.slots[i].start <= Len(e.span)
    <3>. TAKE i \in 1 .. Len(e.slots)
    <3>1. /\ e.slots[i].start \in Int /\ e.slots[i].end \in Int
          /\ 0 <= e.slots[i].start /\ e.slots[i].start < e.slots[i].end /\ e.slots[i].end <= Len(e.span)
      BY <2>3, <2>4
    <3>. QED
      BY <1>4, <3>1
  <2>. QED
    BY <1>3, <2>1, <2>2, <2>3, <2>5
<1>. HIDE DEF s
<1>6. k \in Nat /\ k <= Len(e.ops)
  BY <1>3, <1>4, OpsUpToType
<1>. HIDE DEF k
<1>7. macros \in MacroTables
  <2>1. SubSeq(e.ops, f.op, k) \in Seq(Ops)
    BY <1>3, <1>4, <1>6, PieceType
  <2>2. ctx.macros \in MacroTables
    BY <1>2 DEF Contexts
  <2>. QED
    BY <2>1, <2>2, ReplayOpsType
<1>. HIDE DEF macros
<1>8. out \in Seq(Words) /\ Len(out) \in Nat /\ Len(ctx.out) <= Len(out)
  <2>. DEFINE piece == SubSeq(e.span, f.prev + 1, s.start)
  <2>1. ctx.out \in Seq(Words) /\ Len(ctx.out) \in Nat
    BY <1>2, ContextTypes
  <2>2. f.prev + 1 \in Nat \ {0}
    BY <1>5
  <2>3. piece \in Seq(Words) /\ Len(piece) \in Nat
    BY <1>4, <1>5, <2>2, PieceType
  <2>. HIDE DEF piece
  <2>4. ctx.out \o piece \in Seq(Words) /\ Len(ctx.out \o piece) = Len(ctx.out) + Len(piece)
    BY <2>1, <2>3, ConcatProperties
  <2>. QED
    BY <2>1, <2>3, <2>4 DEF piece
<1>. HIDE DEF out
<1>9. c \in Contexts /\ c.out = out /\ c.rec = ctx.rec /\ c.cache = ctx.cache
  BY <1>2, <1>7, <1>8 DEF Contexts
<1>. HIDE DEF c
<1>10. Kept(ctx, Len(ctx.out), c)
  BY <1>2, <1>8, <1>9, SameKept, ContextTypes
<1>11. /\ g \in Frames /\ g.kind = f.kind /\ g.path = f.path /\ g.start = f.start /\ g.saved = f.saved
       /\ ReplayOK(g)
  <2>. DEFINE y == s.end
              z == k + 1
              w == f.slot + 1
  <2>1. y \in Int /\ z \in Nat \ {0} /\ w \in Nat \ {0}
    BY <1>3, <1>5, <1>6
  <2>2. g = [f EXCEPT !.slot = w, !.prev = y, !.op = z]
    BY <1>3 DEF ReplayFrames
  <2>. HIDE DEF y, z, w, g
  <2>3. /\ g \in ReplayFrames /\ g.kind = f.kind /\ g.path = f.path /\ g.start = f.start /\ g.saved = f.saved
        /\ g.slot = w /\ g.prev = y /\ g.entry = f.entry
    BY <1>3, <2>1, <2>2 DEF ReplayFrames
  <2>4. w <= Len(e.slots) + 1 /\ w # 1 /\ w - 1 = f.slot
    BY <1>1, <1>3, <1>4 DEF w
  <2>5. ReplayOK(g)
    BY <1>3, <2>3, <2>4 DEF ReplayOK, e, s, y
  <2>. QED
    BY <2>3, <2>5 DEF Frames
<1>. HIDE DEF g
<1>12. /\ stk \in Seq(Frames) /\ Len(stk) = n
       /\ \A i \in 1 .. n : stk[i] = IF i = n THEN g ELSE stack[i]
  BY <1>2, <1>11, ExceptSeq
<1>. HIDE DEF stk
<1>13. SameCalls(stack, stk, n)
  BY <1>2, <1>11, <1>12 DEF SameCalls
<1>14. \A i \in 1 .. n : ReplayOK(stk[i])
  <2>1. \A i \in 1 .. n : ReplayOK(stack[i])
    BY <1>2 DEF Orderly
  <2>. QED
    BY <1>11, <1>12, <2>1
<1>15. Orderly(c, stk)
  BY <1>2, <1>9, <1>10, <1>12, <1>13, <1>14, GoesOn
<1>16. Orderly(ctx', stack')
  BY <1>1, <1>5, <1>15, IncludeOrderly DEF IInv
<1>. QED
  BY <1>1, <1>16, InUnit

\* The end of a replay: recording goes on in the scopes put aside.
LEMMA EndReplayStep ==
  ASSUME IInv, EndReplay
  PROVE  IInv'
<1>. DEFINE n == Len(stack)
            f == Top
            e == f.entry
            macros == replay_ops(ctx.macros, SubSeq(e.ops, f.op, Len(e.ops)))
            out == Append(ctx.out \o SubSeq(e.span, f.prev + 1, Len(e.span)), NL)
            cond == [ctx.cond EXCEPT !.depth = ClampDepth(ctx.cond.depth + e.delta)]
            c == [ctx EXCEPT !.macros = macros, !.out = out, !.cond = cond, !.rec = f.saved]
            d == pp_cache_note_slot(c, f.path, f.start, f.cond)
<1>1. /\ phase = "run" /\ f.kind = "replay" /\ UnchangedBatch /\ UnchangedCache
      /\ stack' = Front(stack)
  BY DEF EndReplay, Running
<1>2. /\ Orderly(ctx, stack) /\ ctx \in Contexts /\ stack \in Seq(Frames) /\ n \in Nat /\ n > 1
      /\ f = stack[n] /\ f \in Frames /\ ReplayOK(f) /\ f.path \in Headers /\ f.start < Len(ctx.out)
      /\ f.start \in Nat /\ f.cond \in Nat
  BY <1>1, TopTypes, FrameTypes
<1>3. /\ f \in ReplayFrames /\ e \in Entries /\ f.slot \in Nat \ {0} /\ f.op \in Nat \ {0} /\ f.saved \in Seq(Recs)
      /\ Between(e, 0, Len(e.span)) /\ f.slot <= Len(e.slots) + 1
      /\ f.prev = IF f.slot = 1 THEN 0 ELSE e.slots[f.slot - 1].end
  BY <1>1, <1>2, FrameTypes DEF ReplayOK
<1>4. ctx' = d
  <2>1. ctx' = pp_cache_note_slot(
                 [ctx EXCEPT
                    !.macros = replay_ops(@, SubSeq(e.ops, f.op, Len(e.ops))),
                    !.out = Append(@ \o SubSeq(e.span, f.prev + 1, Len(e.span)), NL),
                    !.cond.depth = ClampDepth(@ + e.delta),
                    !.rec = f.saved], f.path, f.start, f.cond)
    BY DEF EndReplay
  <2>. HIDE DEF f
  <2>2. [ctx EXCEPT
           !.macros = replay_ops(@, SubSeq(e.ops, f.op, Len(e.ops))),
           !.out = Append(@ \o SubSeq(e.span, f.prev + 1, Len(e.span)), NL),
           !.cond.depth = ClampDepth(@ + e.delta),
           !.rec = f.saved] = c
    BY <1>2 DEF Contexts
  <2>. QED
    BY <2>1, <2>2
<1>. HIDE DEF f
<1>5. /\ e.ops \in Seq(Ops) /\ e.slots \in Seq(Slots) /\ e.span \in Seq(Words) /\ e.delta \in Int
      /\ Len(e.slots) \in Nat /\ Len(e.span) \in Nat /\ Len(e.ops) \in Nat
  BY <1>3 DEF Entries
<1>. HIDE DEF e
<1>6. f.prev \in Nat
  <2>1. CASE f.slot = 1
    BY <1>3, <2>1
  <2>2. CASE f.slot # 1
    <3>1. f.slot - 1 \in 1 .. Len(e.slots)
      BY <1>3, <1>5, <2>2
    <3>2. e.slots[f.slot - 1] \in Slots
      BY <1>5, <3>1
    <3>3. 0 <= e.slots[f.slot - 1].start /\ e.slots[f.slot - 1].start < e.slots[f.slot - 1].end
      BY <1>3, <3>1 DEF Between, SlotsIn
    <3>4. e.slots[f.slot - 1].start \in Int /\ e.slots[f.slot - 1].end \in Int
      BY <3>2 DEF Slots
    <3>. QED
      BY <1>3, <2>2, <3>3, <3>4
  <2>. QED
    BY <2>1, <2>2
<1>7. macros \in MacroTables
  <2>1. SubSeq(e.ops, f.op, Len(e.ops)) \in Seq(Ops)
    BY <1>3, <1>5, PieceType
  <2>2. ctx.macros \in MacroTables
    BY <1>2 DEF Contexts
  <2>. QED
    BY <2>1, <2>2, ReplayOpsType
<1>8. out \in Seq(Words) /\ Len(out) \in Nat /\ Len(ctx.out) < Len(out)
  <2>. DEFINE piece == SubSeq(e.span, f.prev + 1, Len(e.span))
              all == ctx.out \o piece
  <2>1. ctx.out \in Seq(Words) /\ Len(ctx.out) \in Nat
    BY <1>2, ContextTypes
  <2>2. f.prev + 1 \in Nat \ {0}
    BY <1>6
  <2>3. piece \in Seq(Words) /\ Len(piece) \in Nat
    BY <1>5, <2>2, PieceType
  <2>. HIDE DEF piece
  <2>4. all \in Seq(Words) /\ Len(all) = Len(ctx.out) + Len(piece)
    BY <2>1, <2>3, ConcatProperties
  <2>5. NL \in Words
    BY DEF Words
  <2>. HIDE DEF all
  <2>6. Append(all, NL) \in Seq(Words) /\ Len(Append(all, NL)) = Len(all) + 1
    BY <2>4, <2>5, AppendProperties
  <2>7. out = Append(all, NL)
    BY DEF all, piece
  <2>. HIDE DEF out
  <2>. QED
    BY <2>1, <2>3, <2>4, <2>6, <2>7
<1>9. cond \in CondStacks
  <2>1. ctx.cond \in CondStacks
    BY <1>2 DEF Contexts
  <2>. QED
    BY <1>5, <2>1, CondTypes
<1>. HIDE DEF macros, out, cond
<1>10. c \in Contexts /\ c.out = out /\ c.rec = f.saved
  BY <1>2, <1>3, <1>7, <1>8, <1>9 DEF Contexts
<1>. HIDE DEF c
<1>11. Len(ctx.out) \in Nat /\ f.start < Len(c.out)
  BY <1>2, <1>8, <1>10, ContextTypes
<1>12. d \in Contexts /\ Kept(c, f.start, d)
  BY <1>2, <1>10, <1>11, SlotKeeps
<1>. HIDE DEF d
<1>13. Chain(c.rec, stack, n - 1, f.start)
  <2>1. n \in 2 .. Len(stack)
    BY <1>2
  <2>. QED
    BY <1>1, <1>2, <1>10, <2>1 DEF Orderly, ScopesInOrder
<1>14. d.cache => Chain(d.rec, stack, n - 1, Len(d.out))
  <2>1. n - 1 \in Nat /\ \A i \in 1 .. n - 1 : stack[i].start \in Nat
    BY <1>2, StackTypes
  <2>. QED
    BY <1>2, <1>10, <1>12, <1>13, <2>1, ChainKept
<1>15. Len(ctx.out) <= Len(d.out)
  <2>1. Len(c.out) <= Len(d.out) /\ Len(d.out) \in Nat
    BY <1>12, ContextTypes DEF Kept
  <2>. QED
    BY <1>8, <1>10, <1>11, <2>1
<1>16. Orderly(ctx', stack')
  BY <1>1, <1>2, <1>4, <1>12, <1>14, <1>15, Returns
<1>. QED
  BY <1>1, <1>16, InUnit

\* At the end of a unit every scope has been closed.
LEMMA EndUnitStep ==
  ASSUME IInv, EndUnit
  PROVE  IInv'
<1>1. /\ phase = "run" /\ Top.path = Unit /\ Top.kind = "source" /\ phase' = "done" /\ stack' = << >>
      /\ UNCHANGED <<tree, src, left, ctx, entries, seq, crashed>>
  BY DEF EndUnit, Running
<1>2. /\ Orderly(ctx, stack) /\ ctx \in Contexts /\ Len(stack) \in Nat \ {0} /\ Top = stack[Len(stack)]
  BY <1>1, TopTypes
<1>3. Len(stack) = 1
  <2>1. Len(stack) > 1 => stack[Len(stack)].path # Unit
    BY <1>2 DEF Orderly, CallsInOrder
  <2>. QED
    BY <1>1, <1>2, <2>1
<1>4. ctx.cache => ctx.rec = << >>
  <2>. SUFFICES ASSUME ctx.cache
                PROVE  ctx.rec = << >>
    OBVIOUS
  <2>1. ctx.rec \in Seq(Recs) /\ Len(ctx.rec) \in Nat /\ Len(ctx.rec) < 1
    BY <1>2, <1>3, ContextTypes DEF Orderly, ScopesInOrder, Chain
  <2>. QED
    BY <2>1, EmptySeq
<1>5. TypeOK'
  BY <1>1 DEF IInv, TypeOK
<1>6. EntriesInSpan'
  BY <1>1 DEF IInv, EntriesInSpan
<1>. QED
  BY <1>1, <1>4, <1>5, <1>6 DEF IInv

\* The next unit has a context of its own.
LEMMA FreeUnitStep ==
  ASSUME IInv, FreeUnit
  PROVE  IInv'
<1>1. /\ phase = "done" /\ phase' = "idle" /\ src' = << >> /\ ctx' = NewCtx(TRUE)
      /\ UNCHANGED <<tree, left, stack, entries, seq, crashed>>
  BY DEF FreeUnit
<1>2. NewCtx(TRUE) \in Contexts /\ NewCtx(TRUE).rec = << >>
  BY CondTypes DEF NewCtx, Contexts, MacroTables
<1>3. TypeOK'
  <2>1. << >> \in Seq(Lines)
    OBVIOUS
  <2>. QED
    BY <1>1, <1>2, <2>1 DEF IInv, TypeOK
<1>4. EntriesInSpan'
  BY <1>1 DEF IInv, EntriesInSpan
<1>. QED
  BY <1>1, <1>2, <1>3, <1>4 DEF IInv

\* A batch begins with an empty cache and no unit.
LEMMA InitStep == Init => IInv
<1>. SUFFICES ASSUME Init
              PROVE  IInv
  OBVIOUS
<1>1. NewCtx(TRUE) \in Contexts /\ NewCtx(TRUE).rec = << >>
  BY CondTypes DEF NewCtx, Contexts, MacroTables
<1>2. TypeOK
  <2>1. << >> \in Seq(Lines) /\ << >> \in Seq(Frames) /\ << >> \in Seq(Entries)
    OBVIOUS
  <2>. QED
    BY <1>1, <2>1, LimitsAssumption DEF Init, TypeOK
<1>3. EntriesInSpan
  BY DEF Init, EntriesInSpan
<1>. QED
  BY <1>1, <1>2, <1>3 DEF Init, IInv

\* Every step.
LEMMA NextStep == IInv /\ [Next]_vars => IInv'
<1>. SUFFICES ASSUME IInv, [Next]_vars
              PROVE  IInv'
  OBVIOUS
<1>1. CASE UNCHANGED vars
  BY <1>1 DEF vars, IInv, TypeOK, EntriesInSpan
<1>2. CASE Next
  <2>1. ASSUME NEW s \in Sources, StartUnit(s)
        PROVE  IInv'
    BY <2>1, StartUnitStep
  <2>2. CASE Stopped
    BY <1>1, <2>2 DEF Stopped
  <2>. QED
    BY <1>2, <2>1, <2>2, ProcessLineStep, ProcessIncludeStep, EndHeaderStep, ReplayChildStep,
       EndReplayStep, EndUnitStep, FreeUnitStep DEF Next
<1>. QED
  BY <1>1, <1>2

(***************************************************************************)
(* Theorems                                                                *)
(***************************************************************************)

\* The inductive invariant of the batch: each active scope belongs to a header
\* that is being read and has recorded, in order, what that header wrote.
THEOREM Invariance == Spec => []IInv
BY InitStep, NextStep, PTL DEF Spec

\* The types of the preprocessor's state (pp_cache.h, pp.h): for one, the replayed
\* shifts keep the depth of the conditional stack inside its array, whatever the
\* headers in between have opened and closed.
THEOREM Types == Spec => []TypeOK
<1>1. IInv => TypeOK
  BY DEF IInv
<1>. QED
  BY <1>1, Invariance, PTL

\* entry_replay copies pieces of non-negative length out of a span, each
\* after the other, and meets the operations in the order of their offsets.
THEOREM Replayable == Spec => []ReplaySegmentsInSpan
<1>1. IInv => ReplaySegmentsInSpan
  <2>. SUFFICES ASSUME IInv, NEW i \in DOMAIN entries
                PROVE  LET e == entries[i]
                           n == Len(e.slots)
                       IN  /\ \A k \in 1 .. n :
                                /\ (IF k = 1 THEN 0 ELSE e.slots[k - 1].end) <= e.slots[k].start
                                /\ e.slots[k].start < e.slots[k].end
                                /\ e.slots[k].end <= Len(e.span)
                           /\ \A k, l \in DOMAIN e.ops : k <= l => e.ops[k].offset <= e.ops[l].offset
                           /\ \A k \in DOMAIN e.ops : e.ops[k].offset \in 0 .. Len(e.span)
    BY DEF ReplaySegmentsInSpan
  <2>. DEFINE e == entries[i]
  <2>1. e \in Entries /\ Between(e, 0, Len(e.span))
    BY DEF IInv, TypeOK, EntriesInSpan
  <2>. HIDE DEF e
  <2>2. /\ e.slots \in Seq(Slots) /\ Len(e.slots) \in Nat /\ Len(e.span) \in Nat
        /\ e.ops \in Seq(Ops) /\ DOMAIN e.ops = 1 .. Len(e.ops)
    BY <2>1 DEF Entries
  <2>3. \A k \in 1 .. Len(e.slots) :
          /\ (IF k = 1 THEN 0 ELSE e.slots[k - 1].end) <= e.slots[k].start
          /\ e.slots[k].start < e.slots[k].end
          /\ e.slots[k].end <= Len(e.span)
    BY <2>1 DEF Between, SlotsIn
  <2>4. \A k, l \in 1 .. Len(e.ops) : k <= l => e.ops[k].offset <= e.ops[l].offset
    BY <2>1 DEF Between, OpsIn
  <2>5. \A k \in 1 .. Len(e.ops) : e.ops[k].offset \in 0 .. Len(e.span)
    BY <2>1, <2>2, Elements DEF Between, OpsIn
  <2>. QED
    BY <2>2, <2>3, <2>4, <2>5 DEF e
<1>. QED
  BY <1>1, Invariance, PTL

\* While a cache is in use there is one active scope for each header that is
\* read below the innermost replay, so that a probe, an operation or a child
\* is charged to the header it is in (ctx->rec, pp_cache_begin, try_hit).
THEOREM ScopesAreCalls == Spec => []ScopesFollowCalls
<1>1. IInv => ScopesFollowCalls
  <2>. DEFINE L == Len(ctx.rec)
              n == Len(stack)
              open == {i \in DOMAIN stack : stack[i].kind = "source" /\ stack[i].path # Unit
                                            /\ \A j \in i .. n : stack[j].kind = "source"}
  <2>. SUFFICES ASSUME IInv, ctx.cache
                PROVE  Cardinality(open) = L
    BY DEF ScopesFollowCalls
  <2>1. CASE phase # "run"
    <3>1. stack = << >> /\ ctx.rec = << >>
      BY <2>1 DEF IInv
    <3>2. open = {} /\ L = 0
      BY <3>1
    <3>. QED
      BY <3>2, FS_EmptySet
  <2>2. CASE phase = "run"
    <3>1. /\ stack \in Seq(Frames) /\ n \in Nat \ {0} /\ DOMAIN stack = 1 .. n /\ L \in Nat
          /\ stack[1].path = Unit /\ \A i \in 2 .. n : stack[i].path # Unit
      <4>1. ctx \in Contexts /\ stack \in Seq(Frames) /\ n \in Nat \ {0} /\ Orderly(ctx, stack)
        BY <2>2, TopTypes
      <4>. QED
        BY <4>1, ContextTypes DEF Orderly, CallsInOrder
    <3>2. Chain(ctx.rec, stack, n, Len(ctx.out))
      BY <2>2 DEF IInv, Orderly, ScopesInOrder
    <3>3. L < n /\ (n - L = 1 \/ stack[n - L].kind = "replay") /\ \A i \in n - L + 1 .. n : stack[i].kind = "source"
      BY <3>2 DEF Chain
    <3>. HIDE DEF n, L
    <3>4. open = n - L + 1 .. n
      <4>1. ASSUME NEW i \in n - L + 1 .. n
            PROVE  i \in open
        BY <3>1, <3>3
      <4>2. ASSUME NEW i \in open
            PROVE  i \in n - L + 1 .. n
        <5>1. i \in 1 .. n /\ stack[i].path # Unit /\ \A j \in i .. n : stack[j].kind = "source"
          BY <3>1
        <5>2. n - L \in 1 .. n
          BY <3>1, <3>3
        <5>3. ~(i <= n - L)
          <6>1. ASSUME i <= n - L
                PROVE  FALSE
            <7>1. n - L \in i .. n
              BY <5>1, <5>2, <6>1
            <7>. QED
              BY <3>1, <3>3, <5>1, <5>2, <6>1, <7>1
          <6>. QED
            BY <6>1
        <5>. QED
          BY <3>1, <5>1, <5>2, <5>3
      <4>. QED
        BY <4>1, <4>2
    <3>. HIDE DEF open
    <3>5. Cardinality(n - L + 1 .. n) = IF n - L + 1 > n THEN 0 ELSE n - (n - L + 1) + 1
      BY <3>1, FS_Interval
    <3>. QED
      BY <3>1, <3>3, <3>4, <3>5
  <2>. QED
    BY <2>1, <2>2
<1>. QED
  BY <1>1, Invariance, PTL
=============================================================================
