------------------------------ MODULE Compiler ------------------------------
(***************************************************************************)
(* compile-mod (packages/compiler.x/src/compile/compile-mod.lisp): the     *)
(* passes one after the other, each on what the one before has returned.   *)
(*                                                                         *)
(*   source    the program that is compiled                                *)
(*   pass      the last pass that has returned; "stopped" when a pass      *)
(*             exits or has no case for what it is given                   *)
(*   code      what it has returned                                        *)
(*   info      the record that the passes on x86 hand on beside the code   *)
(*                                                                         *)
(* Two variables are only looked at, no pass uses them:                    *)
(*   meaning   of code: for each sequence of dice, what it prints and what *)
(*             it returns                                                  *)
(*   machine   for each sequence of dice, the machine after it has run     *)
(*             code, when that is x86                                      *)
(***************************************************************************)
EXTENDS FrontPasses, ControlPasses, RegisterPasses

CONSTANTS Programs,   \* closed expressions that return an integer or a boolean
          Dice        \* sequences of dice that random-dice throws

VARIABLES source, pass, code, info, meaning, machine
vars == <<source, pass, code, info, meaning, machine>>

-----------------------------------------------------------------------------
(* Meanings.  A boolean is returned as the machine has it. *)

Encoded(value) ==
    IF "int" \in DOMAIN value THEN value.int
    ELSE IF "bool" \in DOMAIN value /\ value.bool THEN 1 ELSE 0

Observed(run) == [out |-> run.world.out, result |-> Encoded(run.value)]

SMeaning(body) == [d \in Dice |-> Observed(eval_mod(body, d))]
CMeaning(seqs) == [d \in Dice |-> Observed(run_c_mod(seqs, d))]

Pseudo(blocks, live) == [d \in Dice |-> Run(blocks, live, BeginLabel, 1, InFrame(d))]
Complete(blocks) == [d \in Dice |-> Run(blocks, <<>>, BeginLabel, 1, AtEntry(d))]

-----------------------------------------------------------------------------
Init ==
    /\ source \in Programs
    /\ pass = "mod"
    /\ code = source
    /\ info = [locals |-> {}, live |-> <<>>, graph |-> <<>>, coloring |-> <<>>]
    /\ meaning = IF check_mod(source) = NoMatch THEN <<>> ELSE SMeaning(source)
    /\ machine = <<>>

Returns(name, new_code, new_meaning) ==
    /\ pass' = name
    /\ code' = new_code
    /\ meaning' = new_meaning
    /\ UNCHANGED <<source, info, machine>>

(* A pass on x86 that leaves the instructions as they are ... *)
Informs(name, new_info) ==
    /\ pass' = name
    /\ info' = new_info
    /\ UNCHANGED <<source, code, meaning>>

(* ... and one that changes them. *)
Rewrites(name, new_code, new_machine) ==
    /\ pass' = name
    /\ code' = new_code
    /\ machine' = new_machine
    /\ meaning' = [d \in Dice |-> Outcome(new_machine[d])]
    /\ UNCHANGED <<source, info>>

Stops == pass' = "stopped" /\ UNCHANGED <<source, code, info, meaning, machine>>

shrink ==
    /\ pass = "mod"
    /\ LET new == shrink_exp(code)
       IN  Returns("shrink", new, IF meaning = <<>> THEN <<>> ELSE SMeaning(new))

uniquify ==
    /\ pass = "shrink"
    /\ LET new == uniquify_exp(<<>>, <<>>, code)
       IN  IF HasNoMatch(new) THEN Stops
           ELSE Returns("uniquify", new, IF meaning = <<>> THEN <<>> ELSE SMeaning(new))

check_type ==
    /\ pass = "uniquify"
    /\ LET new == check_mod(code)
       IN  IF new = NoMatch THEN Stops ELSE Returns("check-type", new, SMeaning(new))

RemoveComplexOperands ==
    /\ pass = "check-type"
    /\ LET new == remove_complex_operands(code)
       IN  Returns("remove-complex-operands", new, SMeaning(new))

ExplicateControl ==
    /\ pass = "remove-complex-operands"
    /\ LET new == explicate_control(code)
       IN  IF \E l \in DOMAIN new : SeqHasNoMatch(new[l]) THEN Stops
           ELSE Returns("explicate-control", new, CMeaning(new))

UncoverLocals ==
    /\ pass = "explicate-control"
    /\ Informs("uncover-locals", [info EXCEPT !.locals = uncover_locals(code)])
    /\ UNCHANGED machine

SelectInstructions ==
    /\ pass = "uncover-locals"
    /\ LET new == select_instructions(code)
       IN  IF BlocksHaveNoMatch(new) THEN Stops
           ELSE Rewrites("select-instructions", new, Pseudo(new, <<>>))

UncoverLive ==
    /\ pass = "select-instructions"
    /\ IF \E l \in DOMAIN code : \E i \in DOMAIN code[l] : ~Readable(code[l][i]) THEN Stops
       ELSE LET live == uncover_live(code, <<>>)
            IN  /\ Informs("uncover-live", [info EXCEPT !.live = live])
                /\ machine' = Pseudo(code, [l \in DOMAIN code |-> live[l].after])

BuildInterference ==
    /\ pass = "uncover-live"
    /\ LET graph == build_interference(code, info.live, info.locals)
       IN  Informs("build-interference",
                   [info EXCEPT !.graph = graph, !.coloring = pre_coloring])
    /\ UNCHANGED machine

(* graph-coloring! at its next vertex.  Registers that are not precolored  *)
(* are colored with the last step: they interfere neither with each other  *)
(* nor with what has the color they get.                                   *)
Uncolored == {v \in info.graph.vertices : v \notin DOMAIN info.coloring}

ColorVertex ==
    /\ pass = "build-interference"
    /\ \E v \in {u \in Uncolored : ~IsReg(u)} :
         info' = [info EXCEPT !.coloring = (v :> FreeColor(info.graph, @, v)) @@ @]
    /\ UNCHANGED <<source, pass, code, meaning, machine>>

AllocateRegisters ==
    /\ pass = "build-interference"
    /\ \A v \in Uncolored : IsReg(v)
    /\ LET registers == [v \in Uncolored |-> FreeColor(info.graph, info.coloring, v)]
       IN  Informs("allocate-registers", [info EXCEPT !.coloring = registers @@ @])
    /\ UNCHANGED machine

AssignHomes ==
    /\ pass = "allocate-registers"
    /\ LET new == assign_homes(home_locations(info.graph, info.coloring), code)
       IN  Rewrites("assign-homes", new, Pseudo(new, <<>>))

PatchInstructions ==
    /\ pass = "assign-homes"
    /\ LET new == patch_instructions(code)
       IN  Rewrites("patch-instructions", new, Pseudo(new, <<>>))

PrologAndEpilog ==
    /\ pass = "patch-instructions"
    /\ LET new == prolog_and_epilog(code, find_callee_saved(info.coloring),
                                    count_spilled_variables(info.coloring))
       IN  Rewrites("prolog-and-epilog", new, Complete(new))

Next ==
    \/ shrink \/ uniquify \/ check_type \/ RemoveComplexOperands
    \/ ExplicateControl \/ UncoverLocals \/ SelectInstructions
    \/ UncoverLive \/ BuildInterference \/ ColorVertex \/ AllocateRegisters
    \/ AssignHomes \/ PatchInstructions \/ PrologAndEpilog

Spec == Init /\ [][Next]_vars

-----------------------------------------------------------------------------
(* Properties *)

Encodable(instr) ==
    LET rands == instr.rands
    IN  instr.op \notin Special =>
          /\ \A i \in DOMAIN rands : ~IsVar(rands[i])
          /\ Len(rands) = 2 => ~(IsDeref(rands[1]) /\ IsDeref(rands[2]))
          /\ ~IsImm(rands[Len(rands)])
          /\ instr.op = "movzbq" => IsReg(rands[2])

(* What each pass claims of what it returns: types everywhere, atomic      *)
(* operands, sequences and instructions of the kinds that exist, a live    *)
(* set for every instruction, and in the end only instructions that the    *)
(* processor has.                                                          *)
TypeOK ==
    CASE pass = "check-type" -> IsTyped(code)
      [] pass = "remove-complex-operands" -> IsTyped(code) /\ typed_atom_operand(code)
      [] pass = "explicate-control" ->
           \A l \in DOMAIN code : \A i \in DOMAIN Stmts(code[l]) :
             LET rhs == Stmts(code[l])[i].rhs
             IN  IsAtom(rhs) \/ \A j \in DOMAIN rhs.args : IsAtom(rhs.args[j])
      [] pass = "uncover-live" ->
           /\ DOMAIN info.live = DOMAIN code
           /\ \A l \in DOMAIN code : DOMAIN info.live[l].after = DOMAIN code[l]
      [] pass \in {"patch-instructions", "prolog-and-epilog"} ->
           \A l \in DOMAIN code : \A i \in DOMAIN code[l] : Encodable(code[l][i])
      [] OTHER -> TRUE

(* What a pass relies on and the passes before it do not always provide:   *)
(* remove-complex-operands moves lets out of operands and so needs names   *)
(* that differ, and patch-instructions a register for a comparison.        *)
Provided ==
    CASE pass = "check-type" -> NamesDiffer(code) /\ NoTemporary(code)
      [] pass = "assign-homes" ->
           \A l \in DOMAIN code : \A i \in DOMAIN code[l] :
             code[l][i].op = "movzbq" => IsReg(code[l][i].rands[2])
      [] OTHER -> TRUE

(* A pass that returns has kept what the program prints and returns, for   *)
(* every sequence of dice and every order in which variables are colored.  *)
MeaningKept == [][Provided /\ pass' # "stopped" => meaning' = meaning]_vars

(* The live sets miss no access: a program whose every variable and        *)
(* register is forgotten where uncover-live says that it is not live still *)
(* does the same.                                                          *)
LiveEnough == pass = "uncover-live" => \A d \in Dice : Outcome(machine[d]) = meaning[d]

(* The compiled function keeps to the calling convention: it returns with  *)
(* the stack and the registers of its caller, calls with the stack         *)
(* aligned, and has all its slots in its own frame.                        *)
FrameKept ==
    pass = "prolog-and-epilog" =>
      \A d \in Dice :
        LET m == machine[d]
        IN  /\ m.aligned /\ m.framed
            /\ m.regs["rsp"] = EntryStack /\ m.mem[EntryStack] = ReturnAddress
            /\ \A r \in DOMAIN CallerRegs : m.regs[r] = CallerRegs[r]

(* The programs that all passes have cases for.  An operand may be a       *)
(* constant of any type; a value that goes into a variable or is returned  *)
(* may be neither a boolean constant nor a negation; a condition may not   *)
(* be a variable; what a begin evaluates for its effect must be simple.    *)
Selectable == CmpOps \union {"iadd", "isub", "ineg", "random-dice", "print-int", "newline"}
RECURSIVE IsValue(_), IsOperand(_), IsCondition(_)
IsSimple(exp) ==
    \/ exp.exp \in {"int", "var"}
    \/ IsPrim(exp, Selectable) /\ \A i \in DOMAIN exp.args : IsAtom(exp.args[i])
IsOperand(exp) == IsAtom(exp) \/ IsValue(exp)
IsSequence(sequence) ==
    sequence # <<>> /\ \A i \in 1 .. Len(sequence) - 1 : IsSimple(sequence[i])
IsValue(exp) ==
    \/ IsSimple(exp)
    \/ IsPrim(exp, Selectable) /\ \A i \in DOMAIN exp.args : IsOperand(exp.args[i])
    \/ exp.exp = "let" /\ IsValue(exp.rhs) /\ IsValue(exp.body)
    \/ exp.exp = "if" /\ IsCondition(exp.condition) /\ IsValue(exp.then) /\ IsValue(exp.else)
    \/ exp.exp = "begin" /\ IsSequence(exp.sequence) /\ IsValue(Last(exp.sequence))
IsCondition(exp) ==
    \/ exp.exp = "bool"
    \/ IsPrim(exp, CmpOps) /\ \A i \in DOMAIN exp.args : IsOperand(exp.args[i])
    \/ IsPrim(exp, {"and", "or"}) /\ IsCondition(exp.args[1]) /\ IsCondition(exp.args[2])
    \/ exp.exp = "let" /\ IsValue(exp.rhs) /\ IsCondition(exp.body)
    \/ /\ exp.exp = "if" /\ IsCondition(exp.condition)
       /\ IsCondition(exp.then) /\ IsCondition(exp.else)
    \/ exp.exp = "begin" /\ IsSequence(exp.sequence) /\ IsCondition(Last(exp.sequence))

(* A program with a type that keeps to these forms is never stopped. *)
SupportedCompiles == pass = "stopped" /\ IsValue(source) => check_mod(source) = NoMatch

(* uniquify gives every let a name of its own. *)
NamesUnique == pass = "uniquify" => NamesDiffer(code)
=============================================================================
