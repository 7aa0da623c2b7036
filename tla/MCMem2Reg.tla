----------------------------- MODULE MCMem2Reg -----------------------------
(***************************************************************************)
(* Functions for Mem2Reg: small bodies lowered by the IR generator, whose  *)
(* instructions read and write two slots.  Slot 1 is set first and read    *)
(* last.                                                                   *)
(***************************************************************************)
EXTENDS Mem2Reg

G == INSTANCE Lowering WITH MAX_CASES <- 3
S == INSTANCE SmallBodies

Const(b, k) == <<"const", b, k>>
R(b, k)     == <<"load", b, k>>

Store(v, x)   == [op |-> "store", var |-> v, val |-> x, res |-> Undef]
Load(v, r)    == [op |-> "load", var |-> v, val |-> Undef, res |-> r]
Use(x)        == [op |-> "use", var |-> 0, val |-> x, res |-> Undef]
Call(v, x)    == [op |-> "call", var |-> v, val |-> x, res |-> Undef]

\* What the k-th instruction of block b stands for.
Expand(id, b, k) ==
  CASE id = "set"   -> <<Store(1, Const(b, k))>>
    [] id = "read"  -> <<Load(1, R(b, k)), Use(R(b, k))>>
    [] id = "bump"  -> <<Load(1, R(b, k)), Store(1, Const(b, k)), Use(R(b, k))>>
    [] id = "save"  -> <<Load(1, R(b, k)), Store(2, R(b, k))>>
    [] id = "restore" -> <<Load(2, R(b, k)), Store(1, R(b, k))>>
    [] id = "swap"  -> <<Load(1, R(b, k)), Load(2, R(b, -k)), Store(1, R(b, -k)), Store(2, R(b, k))>>
    [] id = "hold"  -> <<Load(1, R(0, 99))>>
    [] id = "release" -> <<Use(R(0, 99))>>
    [] id = "pass"  -> <<Call(1, Const(b, k))>>

Code(named) ==
  [b \in DOMAIN named |-> FlattenSeq([k \in DOMAIN named[b] |-> Expand(named[b][k].id, b, k)])]

ProgramOf(blocks) == [cfg |-> G!CfgOf(blocks), code |-> Code(G!CodeOf(blocks))]

Program(body) == ProgramOf(G!ir_gen_function(<<S!Do("set")>> \o body \o <<S!Do("read")>>))

Actions == {S!Do(x) : x \in {"set", "read", "bump", "save", "restore"}}
Leaves  == Actions \cup {<<"break">>, <<"continue">>}

Simple == S!Ifs(Leaves, S!Test("p")) \cup S!Loops(Leaves, S!Test("p"), S!Do("bump"))
          \cup S!Switches({S!Do("set"), S!Do("read"), <<"break">>})

\* Two slots that a loop swaps.
Swap == <<S!Do("save"), S!Do("set"), <<"while", S!Test("p"), S!Do("swap")>>, S!Do("restore")>>

\* A value read before a loop that is used in it and after it.
Hold == <<S!Do("hold"), <<"while", S!Test("p"), S!Block(<<S!Do("set"), S!Do("release")>>)>>,
          S!Do("release")>>

\* A callee that writes slot 1 through its address.
Pass == <<<<"while", S!Test("p"), S!Block(<<S!Do("save"), S!Do("pass"), S!Do("read")>>)>>,
          S!Do("restore")>>

\* Marks of an earlier sweep mislead meet: the condition of this loop gets a
\* dominator that it does not have.
Unordered == {<<S!Unordered(S!Do("set"))>>, <<S!Unordered(S!Do("bump"))>>}
Misled == {Program(b).cfg : b \in Unordered}

FunctionsWithSlots ==
  {Program(b) : b \in
     {Swap, Hold, Pass} \cup Unordered
     \cup {<<s>> : s \in S!AroundAll(Simple, S!Do("set"))}
     \cup {<<s, t>> : s \in S!Loops(Leaves, S!Test("p"), S!Do("read")),
                      t \in S!Ifs(Actions, S!Test("p"))}}

\* Bodies whose graph alone matters: nothing is read or written.
EmptyCode(graph) == [cfg |-> graph, code |-> [b \in Blocks(graph) |-> << >>]]
Skeletons(bodies) == {EmptyCode(G!CfgOf(G!ir_gen_function(b))) : b \in bodies}

Jumps == {S!Do("a")} \cup S!Jumps

\* Bodies without loops: branches around switches, switches around branches, and
\* branches three deep.
Forks(T, c) == S!Ifs(T, S!Test(c)) \cup S!Switches(T)
Ends   == {S!Do("a"), <<"return">>}
Forks1 == Ends \cup Forks(Ends, "p")
Forks2 == Forks1 \cup S!Ifs(Forks1, S!Test("q"))
InSwitch == S!Switches({S!Do("a")} \cup Forks({S!Do("a"), <<"break">>}, "p"))
Ifs2   == S!Ifs(Ends \cup S!Ifs(Ends, S!Test("p")), S!Test("q"))
Ifs3   == {<<"ifelse", c, s, S!Do("a")>> : c \in {S!Test("r"), <<"or", "r", "t">>}, s \in Ifs2}
          \cup {<<"ifelse", <<"and", "r", "t">>, S!Do("a"), s>> : s \in Ifs2}
          \cup {<<"if", S!Test("r"), s>> : s \in Ifs2}
Branching == Skeletons({<<s, t, S!Do("end")>> :
                         s \in Forks2, t \in {S!Do("a")} \cup Forks({S!Do("a")}, "p")}
                       \cup {<<s, S!Do("end")>> : s \in Ifs3 \cup InSwitch})

\* Bodies with loops.
Flows == S!Ifs(Jumps, S!Test("p")) \cup S!Loops(Jumps, S!Test("p"), S!Do("step"))
          \cup S!Switches(Jumps)
Rows == S!Pairs(Flows, S!Loops({S!Do("a"), <<"continue">>}, S!Test("r"), S!Do("step")))
        \cup S!Pairs({S!Do("a")}, Flows)
Structured ==
  Skeletons({<<s, S!Do("end")>> : s \in S!AroundAll(Flows \cup Rows, S!Do("c"))}
           \cup {<<s, t>> : s, t \in S!Loops(Jumps, S!Test("p"), S!Do("step"))})

LoweredFunctions == FunctionsWithSlots \cup Branching \cup Structured

\* With loops the analysis still serves: what is recorded of a reachable block
\* dominates it, and no phi is missing for want of a block in a frontier.
ServesLoops == g \in Misled \/ (RecordedDominate /\ PhisReachFrontiers)
=============================================================================
