------------------------------ MODULE PPCache ------------------------------
(***************************************************************************)
(* The include checkpoint cache of batch mode: pp/pp_cache.h,              *)
(* pp/inc/pp_cache*.c, pp/pp_include.c, with the parts of the preprocessor *)
(* it records and replays (pp/pp.c, pp_directive.c, pp_if.c, pp_define.c,  *)
(* pp_macro.c) and the batch loop of main_batch.c.                         *)
(*                                                                         *)
(* A batch compiles one translation unit after another; each has its own   *)
(* preprocessor context, the cache is shared.  The C call stack of         *)
(* process_source, pp_include_resolved and entry_replay is the sequence    *)
(* `stack', one frame per call, so that a step is one source line, one     *)
(* child of a replay or one return.                                        *)
(*                                                                         *)
(* Text is abstract: a line of text is one identifier, the output is the   *)
(* sequence of what the identifiers expand to, a macro body is a value     *)
(* that is not itself a macro name, and its hash is the value.             *)
(***************************************************************************)
EXTENDS CondStack, Integers, SequencesExt

CONSTANTS Headers,       \* resolved header paths
          Names,         \* identifiers
          Keywords,      \* the identifiers of PP_KEYWORDS
          Bodies,        \* what macros expand to
          Trees,         \* contents of the headers: a set of [Headers -> Seq(Line)]
          Sources,       \* contents of the translation units: a set of Seq(Line)
          MaxTUs,        \* bound on the translation units of a batch
          MAX_INCLUDES, PP_CACHE_MAX, PP_CACHE_PER_PATH

Undef == "undef"
NL == "nl"
Unit == "unit"      \* the path of the main source's frame

\* A line of a file.
Lines == [op : {"define"}, name : Names, body : Bodies]
         \cup [op : {"undef", "ifdef", "ifndef", "text"}, name : Names, body : {Undef}]
         \cup [op : {"include"}, name : Headers, body : {Undef}]
         \cup [op : {"else", "endif"}, name : {Undef}, body : {Undef}]

ASSUME LimitsAssumption ==
  /\ MaxTUs \in Nat
  /\ {MAX_INCLUDES, PP_CACHE_MAX, PP_CACHE_PER_PATH} \subseteq Nat \ {0}
  /\ Keywords \subseteq Names

\* The main source is not one of the headers.
ASSUME FilesAssumption ==
  /\ Unit \notin Headers
  /\ Trees \subseteq [Headers -> Seq(Lines)]
  /\ Sources \subseteq Seq(Lines)

VARIABLES
  tree,       \* the files on disk, fixed during a batch
  src,        \* the source of the current translation unit
  phase,      \* "idle" between two units, "run", "done" when a unit is complete
  left,       \* units the batch still may compile
  ctx,        \* PPCtx
  stack,      \* the C call stack, innermost call last
  entries,    \* PP_Cache.entries[0 .. n_entries-1]
  seq,        \* PP_Cache.seq
  crashed     \* a null pointer was followed

vars == <<tree, src, phase, left, ctx, stack, entries, seq, crashed>>

CondDirectives == {"ifdef", "ifndef", "else", "endif"}

\* pp_ctx_init, and compile_one of main_batch.c for `cache'.  `rec' is the
\* chain of recording scopes that ctx->rec heads, innermost last.
NewCtx(cache) == [macros |-> [n \in Names |-> Undef], cond |-> cond_init,
                  out |-> << >>, seen |-> {}, cache |-> cache, rec |-> << >>]

(***************************************************************************)
(* Recording (pp_cache_rec.c, pp_cache_ctrl.c)                             *)
(***************************************************************************)

Recording(c) == c.cache /\ c.rec # << >>

\* pp_rec_init
NewRec(c) == [probes |-> {}, seens |-> {}, ops |-> << >>, slots |-> << >>, ctrl |-> {},
              childDelta |-> 0, skipping |-> cond_is_skipping(c.cond),
              depth |-> c.cond.depth]

pp_cache_note_lookup_hook(c, n) ==
  IF Recording(c) /\ n \notin Keywords /\ n \notin Last(c.rec).ctrl
  THEN [c EXCEPT !.rec[Len(c.rec)].probes = @ \cup {[name |-> n, body |-> c.macros[n]]}]
  ELSE c

pp_cache_note_seen(c, path) ==
  IF Recording(c) THEN [c EXCEPT !.rec[Len(c.rec)].seens = @ \cup {path}] ELSE c

pp_cache_note_slot(c, path, start, condBefore) ==
  IF Recording(c)
  THEN [c EXCEPT !.rec[Len(c.rec)].slots =
                     Append(@, [path |-> path, start |-> start, end |-> Len(c.out)]),
                 !.rec[Len(c.rec)].childDelta = @ + (c.cond.depth - condBefore)]
  ELSE c

\* pp_cache_note_op_define and _undef: the operation is recorded in the
\* active scope, the name becomes controlled in it and in every scope above.
pp_cache_note_op(c, n, body) ==
  IF Recording(c)
  THEN [c EXCEPT !.rec =
          [i \in DOMAIN c.rec |->
             [c.rec[i] EXCEPT
                !.ctrl = @ \cup {n},
                !.ops = IF i = Len(c.rec)
                        THEN Append(@, [name |-> n, body |-> body, offset |-> Len(c.out)])
                        ELSE @]]]
  ELSE c

(***************************************************************************)
(* One line of a file: process_source and handle_directive, #include       *)
(* excepted.  A line is [op, name, body].                                  *)
(***************************************************************************)

handle_define(c, n, body) ==
  LET d == pp_cache_note_op([c EXCEPT !.macros[n] = body], n, body)
  IN  IF n \in Keywords THEN [d EXCEPT !.cache = FALSE, !.rec = << >>] ELSE d

handle_undef(c, n) ==
  pp_cache_note_op([pp_cache_note_lookup_hook(c, n) EXCEPT !.macros[n] = Undef], n, Undef)

handle_ifdef(c, n, isIfdef) ==
  [pp_cache_note_lookup_hook(c, n) EXCEPT
     !.cond = cond_push(@, (c.macros[n] # Undef) <=> isIfdef)]

expand_line(c, n) ==
  [pp_cache_note_lookup_hook(c, n) EXCEPT
     !.out = Append(@, IF c.macros[n] = Undef THEN n ELSE c.macros[n])]

Skipped(c, line) == cond_is_skipping(c.cond) /\ line.op \notin CondDirectives

process_line(c, line) ==
  IF Skipped(c, line) THEN c ELSE
  CASE line.op = "define"   -> handle_define(c, line.name, line.body)
    [] line.op = "undef"    -> handle_undef(c, line.name)
    [] line.op = "ifdef"    -> handle_ifdef(c, line.name, TRUE)
    [] line.op = "ifndef"   -> handle_ifdef(c, line.name, FALSE)
    [] line.op = "else"     -> [c EXCEPT !.cond = cond_else(@)]
    [] line.op = "endif"    -> [c EXCEPT !.cond = cond_endif(@)]
    [] line.op = "text"     -> expand_line(c, line.name)

(***************************************************************************)
(* The cache (pp_cache.c)                                                  *)
(***************************************************************************)

entry_verify(c, e) ==
  /\ e.skipping = cond_is_skipping(c.cond)
  /\ \A p \in e.probes : c.macros[p.name] = p.body
  /\ e.seens \subseteq c.seen

\* The entries a probe for `path' accepts; try_hit takes the first.
Verified(c, path) ==
  {i \in DOMAIN entries : entries[i].path = path /\ entry_verify(c, entries[i])}

\* The entry with the smallest sequence number.
Oldest == CHOOSE i \in DOMAIN entries : \A j \in DOMAIN entries : entries[i].seq <= entries[j].seq

pp_cache_store(e) ==
  LET samePath == {i \in DOMAIN entries : entries[i].path = e.path}
      ne       == [e EXCEPT !.seq = seq]
  IN  /\ entries' = IF \/ Cardinality(samePath) >= PP_CACHE_PER_PATH
                       \/ Len(entries) >= PP_CACHE_MAX
                    THEN [entries EXCEPT ![Oldest] = ne]
                    ELSE Append(entries, ne)
      /\ seq' = seq + 1

\* Mutant: slots made relative to the span, operations forgotten.
EntryOfAbsoluteOps(c, path, start) ==
  LET r == Last(c.rec)
  IN  [path     |-> path,
       span     |-> SubSeq(c.out, start + 1, Len(c.out)),
       probes   |-> r.probes,
       seens    |-> r.seens,
       ops      |-> r.ops,
       slots    |-> [i \in DOMAIN r.slots |-> [r.slots[i] EXCEPT !.start = @ - start,
                                                                 !.end = @ - start]],
       skipping |-> r.skipping,
       delta    |-> (c.cond.depth - r.depth) - r.childDelta,
       seq      |-> 0]

\* The entry pp_cache_end makes of the innermost scope; pp_cache_store numbers it.
EntryOf(c, path, start) ==
  LET r == Last(c.rec)
  IN  [path     |-> path,
       span     |-> SubSeq(c.out, start + 1, Len(c.out)),
       probes   |-> r.probes,
       seens    |-> r.seens,
       ops      |-> [i \in DOMAIN r.ops |-> [r.ops[i] EXCEPT !.offset = @ - start]],
       slots    |-> [i \in DOMAIN r.slots |-> [r.slots[i] EXCEPT !.start = @ - start,
                                                                 !.end = @ - start]],
       skipping |-> r.skipping,
       delta    |-> (c.cond.depth - r.depth) - r.childDelta,
       seq      |-> 0]

(***************************************************************************)
(* pp_include_resolved, entered with context c from the frames stk.        *)
(***************************************************************************)

IncludeSuppressed(c, stk, path) ==
  /\ path \in c.seen
  /\ ctx' = pp_cache_note_seen(c, path)
  /\ stack' = stk

IncludeFull(c, stk, path) ==
  /\ path \notin c.seen
  /\ Cardinality(c.seen) >= MAX_INCLUDES
  /\ ctx' = c
  /\ stack' = stk

Included(c, path) ==
  /\ path \notin c.seen
  /\ Cardinality(c.seen) < MAX_INCLUDES

MarkSeen(c, path) == [c EXCEPT !.seen = @ \cup {path}]

\* Mutant: a hit goes on recording into the parent's scope.
IncludeHitRecording(c, stk, path) ==
  LET m    == MarkSeen(c, path)
      hits == Verified(m, path)
  IN  /\ Included(c, path)
      /\ c.cache /\ hits # {}
      /\ ctx' = [m EXCEPT !.out = Append(@, NL)]
      /\ stack' = Append(stk, [kind |-> "replay", path |-> path, entry |-> entries[Min(hits)],
                               slot |-> 1, prev |-> 0, op |-> 1, saved |-> c.rec,
                               start |-> Len(c.out), cond |-> c.cond.depth])

\* pp_cache_try_hit finds an entry: recording stops and entry_replay begins.
IncludeHit(c, stk, path) ==
  LET m    == MarkSeen(c, path)
      hits == Verified(m, path)
  IN  /\ Included(c, path)
      /\ c.cache /\ hits # {}
      /\ ctx' = [m EXCEPT !.rec = << >>, !.out = Append(@, NL)]
      /\ stack' = Append(stk, [kind |-> "replay", path |-> path, entry |-> entries[Min(hits)],
                               slot |-> 1, prev |-> 0, op |-> 1, saved |-> c.rec,
                               start |-> Len(c.out), cond |-> c.cond.depth])

\* No entry: pp_cache_begin, then process_source on the file.
IncludeMiss(c, stk, path) ==
  LET m == [MarkSeen(c, path) EXCEPT !.out = Append(@, NL)]
  IN  /\ Included(c, path)
      /\ ~(c.cache /\ Verified(MarkSeen(c, path), path) # {})
      /\ ctx' = IF c.cache THEN [m EXCEPT !.rec = Append(@, NewRec(m))] ELSE m
      /\ stack' = Append(stk, [kind |-> "source", path |-> path, pc |-> 1,
                               start |-> Len(c.out), cond |-> c.cond.depth])

pp_include_resolved(c, stk, path) ==
  \/ IncludeSuppressed(c, stk, path)
  \/ IncludeFull(c, stk, path)
  \/ IncludeHit(c, stk, path)
  \/ IncludeMiss(c, stk, path)

(***************************************************************************)
(* Steps                                                                   *)
(***************************************************************************)

Init == /\ tree \in Trees
        /\ src = << >>
        /\ phase = "idle"
        /\ left = MaxTUs
        /\ ctx = NewCtx(TRUE)
        /\ stack = << >>
        /\ entries = << >>
        /\ seq = 0
        /\ crashed = FALSE

\* compile_one: the next unit of the batch, with a context of its own.
StartUnit(s) ==
  /\ phase = "idle" /\ left > 0
  /\ src' = s
  /\ phase' = "run"
  /\ left' = left - 1
  /\ ctx' = NewCtx(TRUE)
  /\ stack' = <<[kind |-> "source", path |-> Unit, pc |-> 1, start |-> 0, cond |-> 0]>>
  /\ UNCHANGED <<tree, entries, seq, crashed>>

Top == Last(stack)
Text(path) == IF path = Unit THEN src ELSE tree[path]
Running(kind) == phase = "run" /\ ~crashed /\ stack # << >> /\ Top.kind = kind
Reading == Running("source") /\ Top.pc <= Len(Text(Top.path))
CurrentLine == Text(Top.path)[Top.pc]
Advanced == [stack EXCEPT ![Len(stack)].pc = @ + 1]
UnchangedBatch == UNCHANGED <<tree, src, phase, left>>
UnchangedCache == UNCHANGED <<entries, seq, crashed>>

\* A line other than an #include that is taken.
ProcessLine ==
  /\ Reading
  /\ CurrentLine.op # "include" \/ Skipped(ctx, CurrentLine)
  /\ ctx' = process_line(ctx, CurrentLine)
  /\ stack' = Advanced
  /\ UnchangedBatch /\ UnchangedCache

\* handle_include_dir
ProcessInclude ==
  /\ Reading
  /\ CurrentLine.op = "include" /\ ~Skipped(ctx, CurrentLine)
  /\ pp_include_resolved(ctx, Advanced, CurrentLine.name)
  /\ UnchangedBatch /\ UnchangedCache

\* The end of a header: pp_cache_end, the closing newline, the parent's slot.
\* pp_cache_end follows ctx->cache whenever a scope is active.
EndHeader ==
  /\ Running("source") /\ Top.path # Unit /\ Top.pc > Len(Text(Top.path))
  /\ LET c    == IF ctx.rec = << >> THEN ctx ELSE [ctx EXCEPT !.rec = Front(@)]
         done == [c EXCEPT !.out = Append(@, NL)]
     IN  ctx' = pp_cache_note_slot(done, Top.path, Top.start, Top.cond)
  /\ stack' = Front(stack)
  /\ crashed' = (ctx.rec # << >> /\ ~ctx.cache)
  /\ IF Recording(ctx)
     THEN pp_cache_store(EntryOf(ctx, Top.path, Top.start + 1))
     ELSE UNCHANGED <<entries, seq>>
  /\ UnchangedBatch

\* Mutant: every operation replayed up front.
OpsUpFront(e, from, limit) == Len(e.ops)

\* The operations of a replayed entry from index `from' up to offset `limit'.
OpsUpTo(e, from, limit) ==
  LET later == {i \in from .. Len(e.ops) : e.ops[i].offset > limit}
  IN  IF later = {} THEN Len(e.ops) ELSE Min(later) - 1

\* Of several operations on a name the last one counts.
replay_ops(macros, ops) ==
  [n \in Names |-> LET on == {i \in DOMAIN ops : ops[i].name = n}
                   IN  IF on = {} THEN macros[n] ELSE ops[Max(on)].body]

\* Mutant: the walk does not move on past a suppressed child.
ReplayChildStuck ==
  /\ Running("replay") /\ Top.slot <= Len(Top.entry.slots)
  /\ LET f == Top
         e == f.entry
         s == e.slots[f.slot]
         k == OpsUpTo(e, f.op, s.start)
         c == [ctx EXCEPT !.macros = replay_ops(@, SubSeq(e.ops, f.op, k)),
                          !.out = @ \o SubSeq(e.span, f.prev + 1, s.start)]
     IN  pp_include_resolved(
           c, [stack EXCEPT ![Len(stack)] =
                 [f EXCEPT !.slot = IF s.path \in c.seen THEN @ ELSE @ + 1,
                           !.prev = s.end, !.op = k + 1]],
           s.path)
  /\ UnchangedBatch /\ UnchangedCache

\* entry_replay, one child: the operations before it, the header's own text
\* up to it, and the child included afresh.
ReplayChild ==
  /\ Running("replay") /\ Top.slot <= Len(Top.entry.slots)
  /\ LET f == Top
         e == f.entry
         s == e.slots[f.slot]
         k == OpsUpTo(e, f.op, s.start)
         c == [ctx EXCEPT !.macros = replay_ops(@, SubSeq(e.ops, f.op, k)),
                          !.out = @ \o SubSeq(e.span, f.prev + 1, s.start)]
     IN  pp_include_resolved(
           c, [stack EXCEPT ![Len(stack)] = [f EXCEPT !.slot = @ + 1, !.prev = s.end,
                                                      !.op = k + 1]],
           s.path)
  /\ UnchangedBatch /\ UnchangedCache

ClampDepth(d) == IF d < 0 THEN 0 ELSE IF d > CondStackMax THEN CondStackMax ELSE d

\* The end of entry_replay, the return through try_hit, the parent's slot.
EndReplay ==
  /\ Running("replay") /\ Top.slot > Len(Top.entry.slots)
  /\ LET f == Top
         e == f.entry
         c == [ctx EXCEPT
                 !.macros = replay_ops(@, SubSeq(e.ops, f.op, Len(e.ops))),
                 !.out = Append(@ \o SubSeq(e.span, f.prev + 1, Len(e.span)), NL),
                 !.cond.depth = ClampDepth(@ + e.delta),
                 !.rec = f.saved]
     IN  ctx' = pp_cache_note_slot(c, f.path, f.start, f.cond)
  /\ stack' = Front(stack)
  /\ UnchangedBatch /\ UnchangedCache

\* The end of the main source.
EndUnit ==
  /\ Running("source") /\ Top.path = Unit /\ Top.pc > Len(src)
  /\ phase' = "done"
  /\ stack' = << >>
  /\ UNCHANGED <<tree, src, left, ctx, entries, seq, crashed>>

\* compile_source frees the context.
FreeUnit ==
  /\ phase = "done"
  /\ phase' = "idle"
  /\ src' = << >>
  /\ ctx' = NewCtx(TRUE)
  /\ UNCHANGED <<tree, left, stack, entries, seq, crashed>>

\* The batch is over, or the process is gone.
Stopped ==
  /\ (phase = "idle" /\ left = 0) \/ crashed
  /\ UNCHANGED vars

Next == \/ \E s \in Sources : StartUnit(s)
        \/ ProcessLine
        \/ ProcessInclude
        \/ EndHeader
        \/ ReplayChild
        \/ EndReplay
        \/ EndUnit
        \/ FreeUnit
        \/ Stopped

Spec == Init /\ [][Next]_vars

\* The compiler is one thread that is never blocked.
FairSpec == Spec /\ WF_vars(Next)

(***************************************************************************)
(* Types                                                                   *)
(***************************************************************************)
MacroTables == [Names -> Bodies \cup {Undef}]
Words == Names \cup Bodies \cup {Undef, NL}
Probes == [name : Names, body : Bodies \cup {Undef}]
Ops == [name : Names, body : Bodies \cup {Undef}, offset : Int]
Slots == [path : Headers, start : Int, end : Int]

\* PP_Rec, PP_Entry, PPCtx
Recs == [probes : SUBSET Probes, seens : SUBSET Headers, ops : Seq(Ops), slots : Seq(Slots),
         ctrl : SUBSET Names, childDelta : Int, skipping : BOOLEAN, depth : Nat]
Entries == [path : Headers, span : Seq(Words), probes : SUBSET Probes, seens : SUBSET Headers,
            ops : Seq(Ops), slots : Seq(Slots), skipping : BOOLEAN, delta : Int, seq : Nat]
Contexts == [macros : MacroTables, cond : CondStacks, out : Seq(Words), seen : SUBSET Headers,
             cache : BOOLEAN, rec : Seq(Recs)]

\* The calls of process_source and of entry_replay.
SourceFrames == [kind : {"source"}, path : Headers \cup {Unit}, pc : Nat \ {0}, start : Nat, cond : Nat]
ReplayFrames == [kind : {"replay"}, path : Headers, entry : Entries, slot : Nat \ {0}, prev : Int,
                 op : Nat \ {0}, saved : Seq(Recs), start : Nat, cond : Nat]
Frames == SourceFrames \cup ReplayFrames

TypeOK ==
  /\ tree \in Trees /\ src \in Seq(Lines)
  /\ phase \in {"idle", "run", "done"} /\ left \in Nat
  /\ ctx \in Contexts /\ stack \in Seq(Frames)
  /\ entries \in Seq(Entries) /\ seq \in Nat /\ crashed \in BOOLEAN

(***************************************************************************)
(* Properties                                                              *)
(***************************************************************************)

\* The pieces entry_replay copies out of a span have non-negative lengths and
\* lie in it, and its operations come in the order of their offsets.
ReplaySegmentsInSpan ==
  \A i \in DOMAIN entries :
    LET e == entries[i]
        n == Len(e.slots)
    IN  /\ \A k \in 1 .. n :
             /\ (IF k = 1 THEN 0 ELSE e.slots[k - 1].end) <= e.slots[k].start
             /\ e.slots[k].start < e.slots[k].end
             /\ e.slots[k].end <= Len(e.span)
        /\ \A k, l \in DOMAIN e.ops : k <= l => e.ops[k].offset <= e.ops[l].offset
        /\ \A k \in DOMAIN e.ops : e.ops[k].offset \in 0 .. Len(e.span)

\* Each active scope is the one of a header being processed, innermost with
\* innermost: what is probed and defined is charged to the right header.
ScopesFollowCalls ==
  ctx.cache =>
    LET open == {i \in DOMAIN stack : stack[i].kind = "source" /\ stack[i].path # Unit
                                      /\ \A j \in i .. Len(stack) : stack[j].kind = "source"}
    IN  Cardinality(open) = Len(ctx.rec)

\* Headers that include each other in cycles do not keep a unit from ending,
\* processed or replayed (doc/preprocessor.md, "prevents infinite recursion").
EveryUnitEnds == phase = "run" ~> phase = "done"
=============================================================================
