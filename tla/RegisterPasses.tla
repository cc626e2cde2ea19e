--------------------------- MODULE RegisterPasses ---------------------------
(***************************************************************************)
(* The passes on x86: select-instructions to prolog-and-epilog             *)
(* (packages/compiler.x/src/passes/040 to 080).  A program is a function   *)
(* from labels to sequences of instructions.                               *)
(***************************************************************************)
EXTENDS LangC, LangX86, FiniteSets

BeginLabel == <<"begin">>
BodyLabel == <<"begin", "body">>
EpilogLabel == <<"begin", "epilog">>

NoInstr == Instr("no-match", <<>>)

-----------------------------------------------------------------------------
(* 040: select-instructions *)

select_operand(atom) ==
    CASE atom.exp = "int" -> Imm(atom.int)
      [] atom.exp = "bool" -> Imm(IF atom.bool THEN 1 ELSE 0)
      [] atom.exp = "void" -> Imm(0)
      [] atom.exp = "var" -> VarRand(atom.name)

select_call(label, arity, dest) ==
    <<callq(label, arity), Instr("movq", <<Reg("rax"), dest>>)>>

select_instr_assign(dest, rhs) ==
    LET arg == [i \in DOMAIN rhs.args |-> select_operand(rhs.args[i])]
        Move(rand) == Instr("movq", <<rand, dest>>)
    IN  CASE rhs.exp \in {"int", "var"} -> <<Move(select_operand(rhs))>>
          [] IsPrim(rhs, {"random-dice"}) -> select_call("random_dice", 0, dest)
          [] IsPrim(rhs, {"newline"}) -> select_call("newline", 0, dest)
          [] IsPrim(rhs, {"print-int"}) ->
               <<Instr("movq", <<arg[1], Reg("rdi")>>)>> \o select_call("print_int", 1, dest)
          [] IsPrim(rhs, {"ineg"}) -> <<Move(arg[1]), Instr("negq", <<dest>>)>>
          [] IsPrim(rhs, {"iadd"}) -> <<Move(arg[1]), Instr("addq", <<arg[2], dest>>)>>
          [] IsPrim(rhs, {"isub"}) -> <<Move(arg[1]), Instr("subq", <<arg[2], dest>>)>>
          [] IsPrim(rhs, {"not"}) -> <<Move(arg[1]), Instr("xorq", <<Imm(1), dest>>)>>
          [] IsPrim(rhs, CmpOps) ->
               <<Instr("cmpq", <<arg[2], arg[1]>>),
                 set_if(operator_condition_codes(rhs.op), ByteReg("al")),
                 Instr("movzbq", <<ByteReg("al"), dest>>)>>
          [] OTHER -> <<NoInstr>>

(* A variable that is assigned what is made of itself is changed in place. *)
select_instr_stmt(stmt) ==
    LET rhs == stmt.rhs
        self == VarRand(stmt.name)
        Own(i) == rhs.args[i] = VarExp(stmt.name)
        InPlace(op, i) == <<Instr(op, <<select_operand(rhs.args[i]), self>>)>>
    IN  CASE stmt.stmt = "effect" -> select_instr_assign(Reg("rax"), rhs)
          [] stmt.stmt = "assign" ->
               IF IsPrim(rhs, {"iadd"}) /\ Own(1) THEN InPlace("addq", 2)
               ELSE IF IsPrim(rhs, {"iadd"}) /\ Own(2) THEN InPlace("addq", 1)
               ELSE IF IsPrim(rhs, {"isub"}) /\ Own(1) THEN InPlace("subq", 2)
               ELSE IF IsPrim(rhs, {"not"}) /\ Own(1)
                 THEN <<Instr("xorq", <<Imm(1), self>>)>>
               ELSE select_instr_assign(self, rhs)

RECURSIVE select_instr_seq(_)
select_instr_seq(seq) ==
    CASE seq.seq = "return" /\ IsPrim(seq.result, {"random-dice"}) ->
           <<callq("random_dice", 0), jmp(EpilogLabel)>>
      [] seq.seq = "return" /\ ~IsPrim(seq.result, {"random-dice"}) ->
           Append(select_instr_assign(Reg("rax"), seq.result), jmp(EpilogLabel))
      [] seq.seq = "goto" -> <<jmp(seq.label)>>
      [] seq.seq = "branch" ->
           LET arg == [i \in 1 .. 2 |-> select_operand(seq.condition.args[i])]
           IN  <<Instr("cmpq", <<arg[2], arg[1]>>),
                 jmp_if(operator_condition_codes(seq.condition.op), seq.then),
                 jmp(seq.else)>>
      [] seq.seq = "cons" -> select_instr_stmt(seq.stmt) \o select_instr_seq(seq.tail)

select_instructions(seqs) == [l \in DOMAIN seqs |-> select_instr_seq(seqs[l])]

BlocksHaveNoMatch(blocks) ==
    \E l \in DOMAIN blocks : \E i \in DOMAIN blocks[l] : blocks[l][i] = NoInstr

-----------------------------------------------------------------------------
(* 050: uncover-live *)

(* A slip: negq is left out. *)
Readable_without_negq(instr) ==
    instr.op \in Special \union {"addq", "subq", "movq", "movzbq", "cmpq"}

(* There is no case for xorq. *)
Readable(instr) ==
    instr.op \in Special \union {"addq", "subq", "movq", "movzbq", "negq", "cmpq"}

uncover_live_operand(rand) == IF IsLocation(rand) THEN {rand} ELSE {}

uncover_live_read(instr) ==
    LET Operand(i) == uncover_live_operand(instr.rands[i])
    IN  CASE instr.op = "callq" -> {Reg(argument_regs[i]) : i \in 1 .. instr.arity}
          [] instr.op \in {"retq", "jmp"} -> {Reg("rsp"), Reg("rax")}
          [] instr.op = "set-if" -> uncover_live_operand(extend_byte_register(instr.dest))
          [] instr.op \in {"addq", "subq", "cmpq"} -> Operand(1) \union Operand(2)
          [] instr.op \in {"movq", "negq"} -> Operand(1)
          [] instr.op = "movzbq" -> uncover_live_operand(extend_byte_register(instr.rands[1]))

uncover_live_write(instr) ==
    CASE instr.op = "callq" -> {Reg(r) : r \in caller_saved_regs}
      [] instr.op = "retq" -> {Reg("rsp")}
      [] instr.op = "jmp" -> {Reg("rsp"), Reg("rax")}
      [] instr.op \in {"set-if", "cmpq"} -> {}
      [] instr.op \in {"addq", "subq", "movq", "movzbq", "negq"} ->
           uncover_live_operand(instr.rands[Len(instr.rands)])

(* A slip: a conditional jump forgets that it may fall through. *)
uncover_live_before_taken(live, instr, after) ==
    IF instr.op \in {"jmp", "jmp-if"} /\ instr.label \in DOMAIN live
      THEN live[instr.label].before
      ELSE (after \ uncover_live_write(instr)) \union uncover_live_read(instr)

(* live: what is known of the blocks done so far. *)
uncover_live_before(live, instr, after) ==
    IF instr.op \in {"jmp", "jmp-if"} /\ instr.label \in DOMAIN live
      THEN live[instr.label].before \union (IF instr.op = "jmp" THEN {} ELSE after)
      ELSE (after \ uncover_live_write(instr)) \union uncover_live_read(instr)

uncover_live_block(live, instrs) ==
    LET n == Len(instrs)
        target == instrs[n].label
        last == IF target \in DOMAIN live THEN live[target].before ELSE {}
        Before[i \in 1 .. n + 1] ==
            IF i = n + 1 THEN last ELSE uncover_live_before(live, instrs[i], Before[i + 1])
        before == [i \in 1 .. n |-> Before[i]]
    IN  [before |-> before[1], after |-> [i \in 1 .. n |-> IF i = n THEN {} ELSE before[i + 1]]]

jmp_labels(instrs) ==
    {instrs[i].label : i \in {j \in DOMAIN instrs : instrs[j].op \in {"jmp", "jmp-if"}}}

(* The blocks in the reverse of a topological order of their jumps: a      *)
(* block when all blocks that it jumps to are done.                        *)
RECURSIVE uncover_live(_, _)
uncover_live(blocks, live) ==
    LET ready == {l \in DOMAIN blocks \ DOMAIN live :
                    jmp_labels(blocks[l]) \intersect DOMAIN blocks \subseteq DOMAIN live}
    IN  IF ready = {} THEN live
        ELSE uncover_live(blocks, [l \in ready |-> uncover_live_block(live, blocks[l])] @@ live)

-----------------------------------------------------------------------------
(* 051: build-interference *)

(* A slip: what a call changes interferes with nothing. *)
instr_edges_without_calls(instr, after) ==
    LET Others == IF instr.op = "movq" THEN after \ {instr.rands[1]} ELSE after
    IN  IF instr.op \in {"jmp", "jmp-if", "callq"} THEN {}
        ELSE {{a, b} : a \in uncover_live_write(instr), b \in Others}
             \ {{a} : a \in uncover_live_write(instr)}

(* The operands of which the instruction makes one differ from the live.   *)
(* The source of a move does not interfere with where it goes.             *)
instr_edges(instr, after) ==
    LET Written == IF instr.op \in {"movq", "movzbq"} THEN {instr.rands[2]}
                   ELSE uncover_live_write(instr)
        Others == CASE instr.op = "movq" -> after \ {instr.rands[1]}
                    [] instr.op = "movzbq" -> after \ {extend_byte_register(instr.rands[1])}
                    [] OTHER -> after
    IN  IF instr.op \in {"jmp", "jmp-if"} THEN {}
        ELSE {{a, b} : a \in Written, b \in Others} \ {{a} : a \in Written}

build_interference(blocks, live, locals) ==
    LET edges == UNION {UNION {instr_edges(blocks[l][i], live[l].after[i]) :
                               i \in DOMAIN blocks[l]} : l \in DOMAIN blocks}
    IN  [vertices |-> {VarRand(v) : v \in locals} \union UNION edges, edges |-> edges]

-----------------------------------------------------------------------------
(* 052: allocate-registers *)

pre_coloring ==
    (Reg("rcx") :> 0) @@ (Reg("rbx") :> 1) @@ (Reg("rax") :> -1) @@ (Reg("rsp") :> -2)
    @@ (Reg("rbp") :> -3) @@ (Reg("r11") :> -4) @@ (Reg("r15") :> -5)

max_register_color == 1

(* graph-coloring! of the library takes the vertices in some order; each   *)
(* gets the least color that no neighbour has.                             *)
FreeColor(graph, coloring, v) ==
    LET used == {coloring[w] : w \in {u \in DOMAIN coloring : {u, v} \in graph.edges}}
        free == {c \in 0 .. Cardinality(graph.vertices) : c \notin used}
    IN  CHOOSE c \in free : \A d \in free : c <= d

count_spilled_variables(coloring) ==
    Cardinality({v \in DOMAIN coloring : ~IsReg(v) /\ coloring[v] > max_register_color})

coloring_use_register(coloring, register) ==
    /\ register \in DOMAIN coloring
    /\ \E v \in DOMAIN coloring \ {register} : coloring[v] = coloring[register]

find_callee_saved(coloring) ==
    LET used(r) == coloring_use_register(coloring, Reg(r))
    IN  SelectSeq(callee_saved_regs, used)

color_to_location(coloring, color) ==
    IF color <= max_register_color
      THEN CHOOSE r \in DOMAIN pre_coloring : pre_coloring[r] = color
      ELSE LET index == color - max_register_color - 1 + Len(find_callee_saved(coloring))
           IN  Deref("rbp", -8 * (1 + index))

home_locations(graph, coloring) ==
    [v \in {u \in graph.vertices : IsVar(u)} |-> color_to_location(coloring, coloring[v])]

-----------------------------------------------------------------------------
(* 060: assign-homes *)

assign_homes_instr(homes, instr) ==
    IF instr.op \in Special THEN instr
    ELSE Instr(instr.op, [i \in DOMAIN instr.rands |->
                            IF IsVar(instr.rands[i]) THEN homes[instr.rands[i]]
                            ELSE instr.rands[i]])

assign_homes(homes, blocks) ==
    [l \in DOMAIN blocks |->
        [i \in DOMAIN blocks[l] |-> assign_homes_instr(homes, blocks[l][i])]]

-----------------------------------------------------------------------------
(* 070: patch-instructions *)

(* A slip: only moves are split. *)
BothInMemory_move(instr) ==
    instr.op = "movq" /\ IsDeref(instr.rands[1]) /\ IsDeref(instr.rands[2])

BothInMemory(instr) == IsDeref(instr.rands[1]) /\ IsDeref(instr.rands[2])

patch_instr(instr) ==
    LET a == instr.rands[1]
        b == instr.rands[2]
        Through(first) == <<Instr("movq", <<first, Reg("rax")>>)>>
    IN  IF instr.op \in Special \/ Len(instr.rands) # 2 THEN <<instr>>
        ELSE IF instr.op = "movq" /\ a = b THEN <<>>
        ELSE IF instr.op = "movzbq" /\ ~IsReg(b)
          THEN Through(b) \o <<Instr("movzbq", <<a, Reg("rax")>>)>>
        ELSE IF instr.op = "cmpq" /\ IsImm(b)
          THEN Through(b) \o <<Instr("cmpq", <<a, Reg("rax")>>)>>
        ELSE IF BothInMemory(instr)
          THEN Through(a) \o <<Instr(instr.op, <<Reg("rax"), b>>)>>
        ELSE <<instr>>

RECURSIVE patch_block(_)
patch_block(instrs) ==
    IF instrs = <<>> THEN <<>> ELSE patch_instr(Head(instrs)) \o patch_block(Tail(instrs))

patch_instructions(blocks) == [l \in DOMAIN blocks |-> patch_block(blocks[l])]

-----------------------------------------------------------------------------
(* 080: prolog-and-epilog *)

int_align(n, size) == IF size % n = 0 THEN size ELSE (size - (size % n)) + n

(* A slip: the saved registers are left out of the alignment. *)
leave_stack_space_alone(saved, spill_count) == int_align(16, 8 * spill_count)

leave_stack_space(saved, spill_count) ==
    int_align(16, 8 * Len(saved) + 8 * spill_count) - 8 * Len(saved)

OnEach(op, regs) == [i \in DOMAIN regs |-> Instr(op, <<Reg(regs[i])>>)]
MoveStack(op, space) ==
    IF space = 0 THEN <<>> ELSE <<Instr(op, <<Imm(space), Reg("rsp")>>)>>
Backwards(s) == [i \in DOMAIN s |-> s[Len(s) + 1 - i]]

prolog_block(saved, space) ==
    <<Instr("pushq", <<Reg("rbp")>>), Instr("movq", <<Reg("rsp"), Reg("rbp")>>)>>
    \o OnEach("pushq", saved) \o MoveStack("subq", space) \o <<jmp(BodyLabel)>>

epilog_block(saved, space) ==
    MoveStack("addq", space) \o OnEach("popq", Backwards(saved))
    \o <<Instr("popq", <<Reg("rbp")>>), retq>>

prolog_and_epilog(blocks, saved, spill_count) ==
    LET space == leave_stack_space(saved, spill_count)
    IN  (BeginLabel :> prolog_block(saved, space)) @@ (BodyLabel :> blocks[BeginLabel])
        @@ (EpilogLabel :> epilog_block(saved, space)) @@ blocks
=============================================================================
