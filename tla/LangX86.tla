------------------------------ MODULE LangX86 ------------------------------
(***************************************************************************)
(* The target language of the compiler (packages/compiler.x/src/langs/x86) *)
(* and a machine that runs it.  The machine is not code of the repository: *)
(* it is what the processor and the calling convention promise, for the    *)
(* instructions that the compiler makes.  It also runs the earlier forms   *)
(* of a program, in which operands may be variables.                       *)
(*                                                                         *)
(* Integers do not overflow, and the three functions of the runtime that   *)
(* are called change every register and all memory that they may change.   *)
(***************************************************************************)
EXTENDS Integers, Sequences, TLC

VarRand(name) == [var |-> name]
Imm(value) == [imm |-> value]
Reg(name) == [reg |-> name]
ByteReg(name) == [byte |-> name]
Deref(name, offset) == [base |-> name, offset |-> offset]

IsVar(rand) == "var" \in DOMAIN rand
IsImm(rand) == "imm" \in DOMAIN rand
IsReg(rand) == "reg" \in DOMAIN rand
IsDeref(rand) == "base" \in DOMAIN rand
IsLocation(rand) == ~IsImm(rand)

Instr(op, rands) == [op |-> op, rands |-> rands]
callq(label, arity) == [op |-> "callq", label |-> label, arity |-> arity]
jmp(label) == [op |-> "jmp", label |-> label]
jmp_if(cc, label) == [op |-> "jmp-if", cc |-> cc, label |-> label]
set_if(cc, dest) == [op |-> "set-if", cc |-> cc, dest |-> dest]
retq == [op |-> "retq"]

Special == {"callq", "retq", "jmp", "jmp-if", "set-if"}

operator_condition_codes(op) ==
    CASE op = "eq?" -> "e" [] op = "lt?" -> "l" [] op = "gt?" -> "g"
      [] op = "lteq?" -> "le" [] op = "gteq?" -> "ge"

(* It looks for the byte registers among the others and finds none. *)
extend_byte_register(operand) == IF operand = Reg("al") THEN Reg("rax") ELSE operand

argument_regs == <<"rdi", "rsi", "rdx", "rcx", "r8", "r9">>
caller_saved_regs == {"rax", "rcx", "rdx", "rsi", "rdi", "r8", "r9", "r10", "r11"}
callee_saved_regs == <<"rsp", "rbp", "rbx", "r12", "r13", "r14", "r15">>

-----------------------------------------------------------------------------
(* The machine. *)

Junk == 9999

(* The caller has its own values in the registers that a call must keep. *)
CallerRegs == [r \in {"rbp", "rbx", "r12", "r13", "r14", "r15"} |->
                CASE r = "rbp" -> 5001 [] r = "rbx" -> 5002 [] r = "r12" -> 5003
                  [] r = "r13" -> 5004 [] r = "r14" -> 5005 [] r = "r15" -> 5006]
ReturnAddress == 7000
EntryStack == -8

AtEntry(dice) ==
    [regs |-> ("rsp" :> EntryStack) @@ CallerRegs @@ [r \in caller_saved_regs |-> Junk],
     mem |-> EntryStack :> ReturnAddress,
     vars |-> <<>>, flags |-> <<0, 0>>, aligned |-> TRUE, framed |-> TRUE,
     world |-> [dice |-> dice, out |-> <<>>]]

(* Before there is a prolog, rbp is the frame and rsp is far below it. *)
InFrame(dice) ==
    [AtEntry(dice) EXCEPT !.regs["rbp"] = 0, !.regs["rsp"] = -1600]

Address(m, rand) == m.regs[rand.base] + rand.offset

Get(m, rand) ==
    CASE IsImm(rand) -> rand.imm
      [] IsReg(rand) -> m.regs[rand.reg]
      [] IsDeref(rand) ->
           IF Address(m, rand) \in DOMAIN m.mem THEN m.mem[Address(m, rand)] ELSE Junk
      [] IsVar(rand) -> IF rand.var \in DOMAIN m.vars THEN m.vars[rand.var] ELSE Junk
      [] OTHER -> m.regs["rax"] % 256

Put(m, rand, value) ==
    CASE IsReg(rand) -> [m EXCEPT !.regs[rand.reg] = value]
      [] IsDeref(rand) -> [m EXCEPT !.mem = (Address(m, rand) :> value) @@ m.mem]
      [] IsVar(rand) -> [m EXCEPT !.vars = (rand.var :> value) @@ m.vars]
      [] OTHER -> [m EXCEPT !.regs["rax"] = (@ - (@ % 256)) + value]

Holds(cc, flags) ==
    CASE cc = "e" -> flags[1] = flags[2]
      [] cc = "l" -> flags[1] < flags[2]
      [] cc = "le" -> flags[1] <= flags[2]
      [] cc = "g" -> flags[1] > flags[2]
      [] cc = "ge" -> flags[1] >= flags[2]

(* A call of the runtime: its effect, and all that a callee may change. *)
Called(m, label) ==
    LET world == m.world
        effect == CASE label = "random_dice" ->
                         [world EXCEPT !.dice = Append(Tail(@), Head(@))]
                    [] label = "print_int" ->
                         [world EXCEPT !.out = Append(@, <<m.regs["rdi"]>>)]
                    [] label = "newline" -> [world EXCEPT !.out = Append(@, <<>>)]
        result == IF label = "random_dice" THEN Head(world.dice) ELSE Junk
        kept == {a \in DOMAIN m.mem : a >= m.regs["rsp"]}
    IN  [m EXCEPT !.world = effect,
                  !.aligned = @ /\ m.regs["rsp"] % 16 = 0,
                  !.mem = [a \in kept |-> m.mem[a]],
                  !.regs = [r \in DOMAIN @ |-> IF r = "rax" THEN result
                                               ELSE IF r \in caller_saved_regs THEN Junk
                                               ELSE @[r]]]

(* One instruction that does not jump. *)
Exec(m, instr) ==
    LET rands == instr.rands
        src == Get(m, rands[1])
        dest == rands[Len(rands)]
        old == Get(m, dest)
    IN  CASE instr.op = "callq" -> Called(m, instr.label)
          [] instr.op = "set-if" ->
               Put(m, instr.dest, IF Holds(instr.cc, m.flags) THEN 1 ELSE 0)
          [] instr.op \in {"movq", "movzbq"} -> Put(m, dest, src)
          [] instr.op = "addq" -> Put(m, dest, old + src)
          [] instr.op = "subq" -> Put(m, dest, old - src)
          [] instr.op = "negq" -> Put(m, dest, -old)
          [] instr.op = "xorq" -> Put(m, dest, IF old % 2 = 0 THEN old + 1 ELSE old - 1)
          [] instr.op = "cmpq" -> [m EXCEPT !.flags = <<old, src>>]
          [] instr.op = "pushq" ->
               LET top == m.regs["rsp"] - 8
               IN  [m EXCEPT !.regs["rsp"] = top, !.mem = (top :> src) @@ m.mem]
          [] instr.op = "popq" ->
               LET top == m.regs["rsp"]
               IN  Put([m EXCEPT !.regs["rsp"] = top + 8], dest, m.mem[top])

(* Every slot that an instruction names lies above the top of the stack. *)
SlotsFramed(m, instr) ==
    instr.op \in Special \/
    \A i \in DOMAIN instr.rands :
        IsDeref(instr.rands[i]) => Address(m, instr.rands[i]) >= m.regs["rsp"]

(* Only what is live keeps its value. *)
Forgotten(m, live) ==
    [m EXCEPT !.vars = [v \in {w \in DOMAIN @ : VarRand(w) \in live} |-> @[v]],
              !.regs = [r \in DOMAIN @ |->
                          IF r \in {"rsp", "rbp"} \/ Reg(r) \in live
                             \/ (r = "rax" /\ ByteReg("al") \in live)
                          THEN @[r] ELSE Junk]]

(* Runs from instruction i of a block until the program returns or jumps   *)
(* to a label without a block.  With live sets, a value is forgotten as    *)
(* soon as it is not live; without (<<>>), never.                          *)
RECURSIVE Run(_, _, _, _, _)
Run(blocks, live, label, i, m) ==
    LET instr == blocks[label][i]
        next == Exec([m EXCEPT !.framed = m.framed /\ SlotsFramed(m, instr)], instr)
    IN  CASE instr.op = "jmp" ->
               IF instr.label \in DOMAIN blocks THEN Run(blocks, live, instr.label, 1, m) ELSE m
          [] instr.op = "jmp-if" ->
               IF Holds(instr.cc, m.flags) THEN Run(blocks, live, instr.label, 1, m)
               ELSE Run(blocks, live, label, i + 1, m)
          [] instr.op = "retq" -> m
          [] OTHER ->
               Run(blocks, live, label, i + 1,
                   IF live = <<>> THEN next ELSE Forgotten(next, live[label][i]))

Outcome(m) == [out |-> m.world.out, result |-> m.regs["rax"]]
=============================================================================
