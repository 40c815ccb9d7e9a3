------------------------- MODULE ControlFlowProofs -------------------------
(***************************************************************************)
(* JumpsAreClosed for the bodies of any functions: whatever is nested in   *)
(* what, every jump gets a target, and the target is a label.              *)
(*                                                                         *)
(* The invariant looks at the code, the jumps that activations hold on to, *)
(* and the labels they will jump back to.  Each step appends instructions, *)
(* sets the target of one jump, or both: the two lemmas about Closed say   *)
(* what that does to the jumps that are open.                              *)
(***************************************************************************)
EXTENDS ControlFlow, SequenceTheorems, TLAPS

-----------------------------------------------------------------------------
(***************************************************************************)
(* Types.                                                                  *)
(***************************************************************************)
Steps == {"do", "return", "if", "else", "end_if", "for", "loop", "end_for"}
AnyStatement == Statement \cup {Default} \cup {Loop(s) : s \in Statement}
Ids == {s.id : s \in Statement} \cup {"", Default.id}
Instructions ==
  [op : {"do", "ret", "eqi", "jt", "j", "label"}, id : Ids, target : Nat]
Tasks ==
  [step : Steps, node : Statement, jump : Nat, label : Nat, rest : Seq(AnyStatement)]

\* The node of an activation is one its step is a step of, and it holds a
\* jump only where an IF or a loop has one to close.
StepFits(task) ==
  /\ task.step \in {"do", "return"} => task.node.op = task.step
  /\ task.step \in {"if", "else", "end_if"} => task.node.op = "if"
  /\ task.step \in {"for", "loop", "end_for"} => task.node.op = "for"
  /\ task.step \in {"do", "return", "if", "for", "loop"} => task.jump = 0

TypeInv ==
  /\ body \in Bodies
  /\ phase \in {"generate", "run", "returned"}
  /\ code \in Seq(Instructions)
  /\ work \in Seq(Tasks)
  /\ \A k \in DOMAIN work : StepFits(work[k])

(***************************************************************************)
(* Code is closed but for some jumps.                                      *)
(***************************************************************************)
IsLabel(instructions, i) ==
  i \in DOMAIN instructions /\ instructions[i].op = "label"
Closed(instructions, open) ==
  \A i \in DOMAIN instructions :
    IsJump(instructions[i]) =>
      IF instructions[i].target = 0 THEN i \in open
      ELSE IsLabel(instructions, instructions[i].target)

Held(tasks) == {tasks[k].jump : k \in DOMAIN tasks}

\* A loop jumps back to a label that is there.
LabelsAreThere(instructions, tasks) ==
  \A k \in DOMAIN tasks :
    tasks[k].step = "end_for" => IsLabel(instructions, tasks[k].label)

IInv ==
  /\ TypeInv
  /\ Closed(code, Held(work))
  /\ LabelsAreThere(code, work)
  /\ phase # "generate" => work = <<>>

-----------------------------------------------------------------------------
(***************************************************************************)
(* Lemmas about code and tasks.                                            *)
(***************************************************************************)

\* Instructions that are appended keep what is closed closed, if they are.
LEMMA AppendClosed ==
  ASSUME NEW c \in Seq(Instructions), NEW new \in Seq(Instructions),
         NEW open, NEW opened, open \subseteq opened, Closed(c, open),
         \A i \in DOMAIN new :
           IsJump(new[i]) =>
             IF new[i].target = 0 THEN Len(c) + i \in opened
             ELSE IsLabel(c \o new, new[i].target)
  PROVE  /\ c \o new \in Seq(Instructions)
         /\ Closed(c \o new, opened)
         /\ \A l : IsLabel(c, l) => IsLabel(c \o new, l)
<1>1. c \o new \in Seq(Instructions)
  OBVIOUS
<1>2. \A i \in DOMAIN c : i \in DOMAIN (c \o new) /\ (c \o new)[i] = c[i]
  OBVIOUS
<1>3. \A i \in DOMAIN (c \o new) :
        i \in DOMAIN c \/ (i - Len(c) \in DOMAIN new /\ (c \o new)[i] = new[i - Len(c)]
                             /\ Len(c) + (i - Len(c)) = i)
  OBVIOUS
<1>4. \A l : IsLabel(c, l) => IsLabel(c \o new, l)
  BY <1>2 DEF IsLabel
<1>5. Closed(c \o new, opened)
  <2> SUFFICES ASSUME NEW i \in DOMAIN (c \o new), IsJump((c \o new)[i])
               PROVE  IF (c \o new)[i].target = 0 THEN i \in opened
                      ELSE IsLabel(c \o new, (c \o new)[i].target)
    BY DEF Closed
  <2>1. CASE i \in DOMAIN c
    BY <2>1, <1>2, <1>4 DEF Closed
  <2>2. CASE i \notin DOMAIN c
    <3>1. i - Len(c) \in DOMAIN new /\ (c \o new)[i] = new[i - Len(c)]
            /\ Len(c) + (i - Len(c)) = i
      BY <2>2, <1>3
    <3> QED
      BY <3>1
  <2> QED
    BY <2>1, <2>2
<1> QED
  BY <1>1, <1>4, <1>5

\* Setting the target of a jump to a label closes that jump and opens none.
LEMMA SetClosed ==
  ASSUME NEW c \in Seq(Instructions), NEW open, NEW jump \in Nat, NEW l \in Nat \ {0},
         Closed(c, open), IsLabel(c, l)
  PROVE  /\ SetTarget(c, jump, l) \in Seq(Instructions)
         /\ Closed(SetTarget(c, jump, l), open \ {jump})
         /\ \A m : IsLabel(c, m) => IsLabel(SetTarget(c, jump, l), m)
<1> DEFINE d == SetTarget(c, jump, l)
<1>1. DOMAIN d = DOMAIN c /\ DOMAIN c = 1 .. Len(c) /\ Len(c) \in Nat
  BY DEF SetTarget
<1>2. \A i \in DOMAIN c : /\ c[i] \in Instructions
                          /\ i # jump => d[i] = c[i]
                          /\ i = jump => d[i] = [c[i] EXCEPT !.target = l]
  BY DEF SetTarget
<1>3. \A i \in DOMAIN c : /\ d[i] \in Instructions
                          /\ d[i].op = c[i].op
                          /\ i # jump => d[i].target = c[i].target
                          /\ i = jump => d[i].target = l
  BY <1>2 DEF Instructions
<1>4. d \in Seq(Instructions)
  <2>1. d = [i \in 1 .. Len(c) |-> d[i]]
    BY <1>1 DEF SetTarget
  <2> QED
    BY <1>1, <1>3, <2>1
<1>5. \A m : IsLabel(c, m) => IsLabel(d, m)
  BY <1>1, <1>3 DEF IsLabel
<1>6. Closed(d, open \ {jump})
  <2> SUFFICES ASSUME NEW i \in DOMAIN c, IsJump(d[i])
               PROVE  IF d[i].target = 0 THEN i \in open \ {jump}
                      ELSE IsLabel(d, d[i].target)
    BY <1>1 DEF Closed
  <2>1. IsJump(c[i])
    BY <1>3 DEF IsJump
  <2>2. CASE i = jump
    BY <2>2, <1>3, <1>5
  <2>3. CASE i # jump
    BY <2>1, <2>3, <1>3, <1>5 DEF Closed
  <2> QED
    BY <2>2, <2>3
<1> QED
  BY <1>4, <1>5, <1>6

\* The tasks of a block hold no jump, and are fit for their nodes.
LEMMA WalkTasks ==
  ASSUME NEW block \in Seq(Statement), NEW rest \in Seq(AnyStatement)
  PROVE  /\ Walk(block, rest) \in Seq(Tasks)
         /\ \A k \in DOMAIN Walk(block, rest) :
              StepFits(Walk(block, rest)[k]) /\ Walk(block, rest)[k].step # "end_for"
<1> DEFINE w == Walk(block, rest)
<1>1. DOMAIN w = 1 .. Len(block) /\ Len(block) \in Nat
  BY DEF Walk
<1>2. \A k \in DOMAIN w :
        w[k] = Task(block[k].op, block[k], 0, 0, SubSeq(block, k + 1, Len(block)) \o rest)
  BY DEF Walk
<1>3. \A k \in DOMAIN w : block[k] \in Statement /\ block[k].op \in {"do", "return", "if", "for"}
  BY <1>1, BodiesAssumption
<1>4. \A k \in DOMAIN w : SubSeq(block, k + 1, Len(block)) \o rest \in Seq(AnyStatement)
  <2> TAKE k \in DOMAIN w
  <2>1. block \in Seq(AnyStatement)
    BY DEF AnyStatement
  <2>2. SubSeq(block, k + 1, Len(block)) \in Seq(AnyStatement)
    BY <1>1, <2>1
  <2> QED
    BY <2>2
<1>5. \A k \in DOMAIN w : w[k] \in Tasks /\ StepFits(w[k]) /\ w[k].step # "end_for"
  <2> TAKE k \in DOMAIN w
  <2> DEFINE left == SubSeq(block, k + 1, Len(block)) \o rest
  <2>1. /\ w[k] = Task(block[k].op, block[k], 0, 0, left)
        /\ block[k] \in Statement
        /\ block[k].op \in {"do", "return", "if", "for"}
        /\ left \in Seq(AnyStatement)
    BY <1>2, <1>3, <1>4
  <2> HIDE DEF w, left
  <2> QED
    BY <2>1 DEF Task, Tasks, Steps, StepFits
<1>6. w = [k \in 1 .. Len(block) |-> w[k]]
  BY <1>1 DEF Walk
<1> QED
  BY <1>1, <1>5, <1>6

\* What an activation goes on with goes before what the others have to do: it
\* may let go of its jump only.
LEMMA NextTasks ==
  ASSUME NEW next \in Seq(Tasks), NEW tasks \in Seq(Tasks), tasks # <<>>,
         \A k \in DOMAIN tasks : StepFits(tasks[k]),
         \A k \in DOMAIN next : StepFits(next[k])
  PROVE  /\ next \o Tail(tasks) \in Seq(Tasks)
         /\ \A k \in DOMAIN (next \o Tail(tasks)) : StepFits((next \o Tail(tasks))[k])
         /\ Held(tasks) \ {tasks[1].jump} \subseteq Held(next \o Tail(tasks))
         /\ Held(next) \subseteq Held(next \o Tail(tasks))
         /\ \A c : LabelsAreThere(c, tasks) /\ LabelsAreThere(c, next) =>
                     LabelsAreThere(c, next \o Tail(tasks))
<1> DEFINE all == next \o Tail(tasks)
<1>1. Tail(tasks) \in Seq(Tasks) /\ Len(Tail(tasks)) = Len(tasks) - 1 /\ Len(tasks) >= 1
  OBVIOUS
<1>2. all \in Seq(Tasks) /\ Len(all) = Len(next) + Len(tasks) - 1
  BY <1>1
<1>3. \A k \in DOMAIN all :
        \/ k \in DOMAIN next /\ all[k] = next[k]
        \/ (k - Len(next)) + 1 \in DOMAIN tasks /\ all[k] = tasks[(k - Len(next)) + 1]
  BY <1>1, <1>2
<1>4. \A k \in DOMAIN tasks : k # 1 =>
        /\ Len(next) + k - 1 \in DOMAIN all
        /\ all[Len(next) + k - 1] = tasks[k]
  BY <1>1, <1>2
<1>5. \A k \in DOMAIN next : k \in DOMAIN all /\ all[k] = next[k]
  BY <1>1, <1>2
<1>6. \A k \in DOMAIN all : StepFits(all[k])
  BY <1>3
<1>7. Held(tasks) \ {tasks[1].jump} \subseteq Held(all)
  BY <1>4 DEF Held
<1>8. Held(next) \subseteq Held(all)
  BY <1>5 DEF Held
<1>9. ASSUME NEW c, LabelsAreThere(c, tasks), LabelsAreThere(c, next)
      PROVE  LabelsAreThere(c, all)
  BY <1>3, <1>9 DEF LabelsAreThere
<1> QED
  BY <1>2, <1>6, <1>7, <1>8, <1>9

\* Labels stay where they are.
LEMMA LabelsStay ==
  ASSUME NEW c, NEW d, NEW tasks, LabelsAreThere(c, tasks),
         \A l : IsLabel(c, l) => IsLabel(d, l)
  PROVE  LabelsAreThere(d, tasks)
BY DEF LabelsAreThere

\* What a FOR or IF goes on with: blocks, and then its own next step.
LEMMA BlocksThen ==
  ASSUME NEW w \in Seq(Tasks), NEW t \in Tasks, StepFits(t), NEW c,
         \A k \in DOMAIN w : StepFits(w[k]) /\ w[k].step # "end_for",
         t.step = "end_for" => IsLabel(c, t.label)
  PROVE  /\ w \o <<t>> \in Seq(Tasks)
         /\ \A k \in DOMAIN (w \o <<t>>) : StepFits((w \o <<t>>)[k])
         /\ t.jump \in Held(w \o <<t>>)
         /\ LabelsAreThere(c, w \o <<t>>)
<1> DEFINE n == w \o <<t>>
<1>1. n \in Seq(Tasks) /\ Len(n) = Len(w) + 1
  OBVIOUS
<1>2. \A k \in DOMAIN n : (k \in DOMAIN w /\ n[k] = w[k]) \/ n[k] = t
  OBVIOUS
<1>3. Len(w) + 1 \in DOMAIN n /\ n[Len(w) + 1] = t
  OBVIOUS
<1> HIDE DEF n
<1>4. t.jump \in Held(n)
  BY <1>3 DEF Held
<1>5. \A k \in DOMAIN n : StepFits(n[k])
  BY <1>2
<1>6. LabelsAreThere(c, n)
  BY <1>2 DEF LabelsAreThere
<1> QED
  BY <1>1, <1>4, <1>5, <1>6 DEF n

-----------------------------------------------------------------------------
(***************************************************************************)
(* The invariant.                                                          *)
(***************************************************************************)

\* A generator's step that goes on with "next" keeps the invariant, if it
\* keeps the labels and leaves no jump open but those that are held by
\* "next", or were held by another activation.
LEMMA TakesStep ==
  ASSUME IInv, NEW step, NEW next \in Seq(Tasks), Takes(step, next),
         \A k \in DOMAIN next : StepFits(next[k]),
         code' \in Seq(Instructions),
         Closed(code', Held(next) \cup (Held(work) \ {Top.jump})),
         \A l : IsLabel(code, l) => IsLabel(code', l),
         LabelsAreThere(code', next)
  PROVE  IInv'
<1>1. work \in Seq(Tasks) /\ work # <<>> /\ \A k \in DOMAIN work : StepFits(work[k])
  BY DEF IInv, TypeInv, Takes
<1>2. work' = next \o Tail(work) /\ phase = "generate" /\ phase' = phase /\ body' = body
  BY DEF Takes
<1>3. /\ work' \in Seq(Tasks)
      /\ \A k \in DOMAIN work' : StepFits(work'[k])
      /\ Held(work) \ {Top.jump} \subseteq Held(work')
      /\ Held(next) \subseteq Held(work')
      /\ LabelsAreThere(code', work) => LabelsAreThere(code', work')
  BY <1>1, <1>2, NextTasks DEF Top
<1>4. LabelsAreThere(code', work')
  BY <1>3, LabelsStay DEF IInv
<1>5. Closed(code', Held(work'))
  BY <1>3 DEF Closed
<1>6. TypeInv'
  BY <1>2, <1>3 DEF IInv, TypeInv
<1> QED
  BY <1>2, <1>4, <1>5, <1>6 DEF IInv, Closed, Held, LabelsAreThere, IsLabel, IsJump

\* At first there is no code, and the tasks are those of the function's block.
LEMMA InitIInv == Init => IInv
<1> SUFFICES ASSUME Init PROVE IInv
  OBVIOUS
<1>1. body \in Seq(Statement) /\ <<Default>> \in Seq(AnyStatement)
  BY BodiesAssumption DEF Init, AnyStatement
<1>2. /\ work \in Seq(Tasks)
      /\ \A k \in DOMAIN work : StepFits(work[k]) /\ work[k].step # "end_for"
  BY <1>1, WalkTasks DEF Init
<1>3. code \in Seq(Instructions) /\ DOMAIN code = {}
  BY DEF Init
<1> QED
  BY <1>2, <1>3 DEF Init, IInv, TypeInv, Closed, LabelsAreThere

\* The activation that takes a step, and what it holds on to.
LEMMA TopFits ==
  ASSUME IInv, NEW step, NEW next, Takes(step, next)
  PROVE  /\ Top \in Tasks /\ Top.step = step /\ StepFits(Top)
         /\ code \in Seq(Instructions) /\ Here \in Nat /\ Closed(code, Held(work))
         /\ Top.jump = 0 => Closed(code, Held(work) \ {Top.jump})
         /\ step = "end_for" => IsLabel(code, Top.label)
<1>1. /\ work \in Seq(Tasks) /\ work # <<>> /\ Top.step = step
      /\ \A k \in DOMAIN work : StepFits(work[k])
      /\ code \in Seq(Instructions) /\ Closed(code, Held(work))
      /\ LabelsAreThere(code, work)
  BY DEF IInv, TypeInv, Takes
<1>2. 1 \in DOMAIN work /\ Top = work[1] /\ Top \in Tasks
  BY <1>1 DEF Top
<1>3. Top.jump = 0 => Closed(code, Held(work) \ {Top.jump})
  <2>1. 0 \notin DOMAIN code
    BY <1>1
  <2> QED
    BY <1>1, <2>1 DEF Closed
<1> QED
  BY <1>1, <1>2, <1>3 DEF LabelsAreThere, Here

\* Instructions as they are emitted.
LEMMA Named == "" \in Ids /\ Default.id \in Ids /\ \A s \in Statement : s.id \in Ids
BY DEF Ids

\* An instruction without a target is a jump if its operation is.
LEMMA Emitted ==
  ASSUME NEW op \in {"do", "ret", "eqi", "jt", "j", "label"}, NEW id \in Ids
  PROVE  /\ Ins(op, id) \in Instructions /\ Ins(op, id).op = op /\ Ins(op, id).target = 0
         /\ op \notin {"jt", "j"} => ~IsJump(Ins(op, id))
BY DEF Ins, Instructions, IsJump

\* A jump with a target.
LEMMA EmittedJump ==
  ASSUME NEW l \in Nat
  PROVE  Jump(l) \in Instructions /\ Jump(l).op = "j" /\ Jump(l).target = l
BY Named DEF Jump, Instructions

\* What one, two and three instructions are.
LEMMA One ==
  ASSUME NEW x \in Instructions
  PROVE  <<x>> \in Seq(Instructions) /\ \A i \in DOMAIN <<x>> : i = 1 /\ <<x>>[i] = x
OBVIOUS
LEMMA Two ==
  ASSUME NEW x \in Instructions, NEW y \in Instructions
  PROVE  /\ <<x, y>> \in Seq(Instructions) /\ Len(<<x, y>>) = 2
         /\ <<x, y>>[1] = x /\ <<x, y>>[2] = y
         /\ \A i \in DOMAIN <<x, y>> : (i = 1 /\ <<x, y>>[i] = x) \/ (i = 2 /\ <<x, y>>[i] = y)
OBVIOUS
LEMMA Three ==
  ASSUME NEW x \in Instructions, NEW y \in Instructions, NEW z \in Instructions
  PROVE  /\ <<x, y, z>> \in Seq(Instructions) /\ <<x, y, z>>[1] = x
         /\ \A i \in DOMAIN <<x, y, z>> : \/ i = 1 /\ <<x, y, z>>[i] = x
                                          \/ i = 2 /\ <<x, y, z>>[i] = y
                                          \/ i = 3 /\ <<x, y, z>>[i] = z
OBVIOUS

\* A label is no jump.
LEMMA EmittedLabel == Label \in Instructions /\ Label.op = "label" /\ ~IsJump(Label)
BY Named, Emitted DEF Label

\* A label that is appended is one of the code's labels.
LEMMA AppendedLabel ==
  ASSUME NEW c \in Seq(Instructions), NEW new \in Seq(Instructions),
         NEW i \in 1 .. Len(new), new[i].op = "label"
  PROVE  IsLabel(c \o new, Len(c) + i) /\ Len(c) + i \in Nat \ {0}
<1>1. (c \o new)[Len(c) + i] = new[i] /\ Len(c) + i \in DOMAIN (c \o new)
        /\ Len(c) + i \in Nat \ {0}
  OBVIOUS
<1> QED
  BY <1>1 DEF IsLabel

\* Both at once.
LEMMA AppendAndSet ==
  ASSUME NEW c \in Seq(Instructions), NEW new \in Seq(Instructions),
         NEW open, NEW opened, open \subseteq opened, Closed(c, open),
         \A i \in DOMAIN new :
           IsJump(new[i]) =>
             IF new[i].target = 0 THEN Len(c) + i \in opened
             ELSE IsLabel(c \o new, new[i].target),
         NEW jump \in Nat, NEW l \in Nat \ {0}, IsLabel(c \o new, l)
  PROVE  /\ SetTarget(c \o new, jump, l) \in Seq(Instructions)
         /\ Closed(SetTarget(c \o new, jump, l), opened \ {jump})
         /\ \A m : IsLabel(c, m) => IsLabel(SetTarget(c \o new, jump, l), m)
<1>1. /\ c \o new \in Seq(Instructions) /\ Closed(c \o new, opened)
      /\ \A m : IsLabel(c, m) => IsLabel(c \o new, m)
  BY AppendClosed
<1> QED
  BY <1>1, SetClosed

\* An activation that is done goes on with nothing.
LEMMA NothingMore ==
  /\ <<>> \in Seq(Tasks) /\ Held(<<>>) = {}
  /\ \A k \in DOMAIN <<>> : StepFits(<<>>[k])
  /\ \A c : LabelsAreThere(c, <<>>)
BY DEF Held, LabelsAreThere

\* A loop that comes round again is a statement that may be left.
LEMMA LoopAgain ==
  ASSUME NEW s \in Statement, NEW rest \in Seq(AnyStatement)
  PROVE  <<Loop(s)>> \o rest \in Seq(AnyStatement)
<1>1. Loop(s) \in AnyStatement
  BY DEF AnyStatement
<1> QED
  BY <1>1

-----------------------------------------------------------------------------
(***************************************************************************)
(* One lemma for each action.                                              *)
(***************************************************************************)

\* One instruction that is no jump.
LEMMA GenDoStep == IInv /\ (GenDo \/ GenReturn) => IInv'
<1> SUFFICES ASSUME IInv, NEW step, Takes(step, <<>>), step \in {"do", "return"},
                    NEW op \in {"do", "ret"}, code' = Append(code, Ins(op, Top.node.id))
             PROVE  IInv'
  BY DEF GenDo, GenReturn
<1> DEFINE new == <<Ins(op, Top.node.id)>>
           open == Held(work) \ {Top.jump}
<1>1. /\ Top \in Tasks /\ code \in Seq(Instructions)
      /\ Top.step = step /\ StepFits(Top) /\ (Top.jump = 0 => Closed(code, open))
  BY TopFits
<1>2. Closed(code, open)
  BY <1>1 DEF StepFits
<1>3. new \in Seq(Instructions) /\ \A i \in DOMAIN new : ~IsJump(new[i])
  <2>1. Top.node.id \in Ids
    BY <1>1, Named DEF Tasks
  <2>2. Ins(op, Top.node.id) \in Instructions /\ ~IsJump(Ins(op, Top.node.id))
    BY <2>1, Emitted
  <2> QED
    BY <2>2
<1>4. code' = code \o new
  BY <1>1, <1>3
<1> HIDE DEF new, open
<1>5. /\ code' \in Seq(Instructions) /\ Closed(code', open)
      /\ \A l : IsLabel(code, l) => IsLabel(code', l)
  BY <1>1, <1>2, <1>3, <1>4, AppendClosed
<1>6. <<>> \in Seq(Tasks) /\ Held(<<>>) = {} /\ DOMAIN <<>> = {} /\ LabelsAreThere(code', <<>>)
  BY DEF Held, LabelsAreThere
<1> QED
  BY <1>5, <1>6, TakesStep DEF open

\* An IF opens one jump, which its next step holds.
LEMMA GenIfStep == IInv /\ GenIf => IInv'
<1> SUFFICES ASSUME IInv, GenIf PROVE IInv'
  OBVIOUS
<1> DEFINE w == Walk(Top.node.then, Top.rest)
           t == Task("else", Top.node, Here + 2, 0, Top.rest)
           next == w \o <<t>>
           new == <<Ins("eqi", Top.node.id), Ins("jt", "")>>
           open == Held(work) \ {Top.jump}
           opened == Held(next) \cup open
<1>1. Takes("if", next) /\ code' = code \o new
  BY DEF GenIf
<1>2. /\ Top \in Tasks /\ code \in Seq(Instructions) /\ Here \in Nat
      /\ Top.step = "if" /\ StepFits(Top) /\ (Top.jump = 0 => Closed(code, open))
  BY <1>1, TopFits
<1>3. Top.node \in Statement /\ Top.rest \in Seq(AnyStatement) /\ Top.node.op = "if"
        /\ Top.node.id \in Ids /\ Top.node.then \in Seq(Statement) /\ Closed(code, open)
  BY <1>2, BodiesAssumption, Named DEF Tasks, StepFits
<1>4. t \in Tasks /\ StepFits(t) /\ t.step = "else" /\ t.jump = Len(code) + 2
  BY <1>2, <1>3 DEF Task, Tasks, Steps, StepFits, Here
<1>5. w \in Seq(Tasks) /\ \A k \in DOMAIN w : StepFits(w[k]) /\ w[k].step # "end_for"
  BY <1>3, WalkTasks
<1>6. /\ new \in Seq(Instructions)
      /\ \A i \in DOMAIN new : IsJump(new[i]) => i = 2 /\ new[i].target = 0
  <2> DEFINE eqi == Ins("eqi", Top.node.id)
             jt == Ins("jt", "")
  <2>1. eqi \in Instructions /\ ~IsJump(eqi)
    BY <1>3, Emitted
  <2>2. jt \in Instructions /\ jt.target = 0
    BY Named, Emitted
  <2> HIDE DEF eqi, jt
  <2>3. new = <<eqi, jt>>
    BY DEF eqi, jt
  <2> HIDE DEF new
  <2> QED
    BY <2>1, <2>2, <2>3, Two
<1> HIDE DEF w, t, new, open
<1>7. /\ next \in Seq(Tasks) /\ \A k \in DOMAIN next : StepFits(next[k])
      /\ t.jump \in Held(next) /\ LabelsAreThere(code', next)
  BY <1>4, <1>5, BlocksThen
<1> HIDE DEF next
<1>8. /\ code' \in Seq(Instructions) /\ Closed(code', opened)
      /\ \A l : IsLabel(code, l) => IsLabel(code', l)
  <2>1. \A i \in DOMAIN new : IsJump(new[i]) => new[i].target = 0 /\ Len(code) + i \in opened
    BY <1>4, <1>6, <1>7
  <2> HIDE DEF opened
  <2>2. open \subseteq opened
    BY DEF opened
  <2> QED
    BY <1>1, <1>2, <1>3, <1>6, <2>1, <2>2, AppendClosed
<1> QED
  BY <1>1, <1>7, <1>8, TakesStep DEF open

\* Between the blocks of an IF: another jump is opened, and the first closed.
LEMMA GenElseStep == IInv /\ GenElse => IInv'
<1> SUFFICES ASSUME IInv, GenElse PROVE IInv'
  OBVIOUS
<1> DEFINE w == Walk(Top.node.else, Top.rest)
           t == Task("end_if", Top.node, Here + 1, 0, Top.rest)
           next == w \o <<t>>
           jump == Jump(0)
           new == <<jump, Label>>
           opened == Held(next) \cup Held(work)
<1>1. Takes("else", next) /\ code' = SetTarget(code \o new, Top.jump, Here + 2)
  BY DEF GenElse
<1>2. /\ Top \in Tasks /\ code \in Seq(Instructions) /\ Here \in Nat /\ Here = Len(code)
      /\ Top.step = "else" /\ StepFits(Top) /\ Closed(code, Held(work))
  BY <1>1, TopFits DEF Here
<1>3. /\ Top.node \in Statement /\ Top.rest \in Seq(AnyStatement) /\ Top.node.op = "if"
      /\ Top.node.else \in Seq(Statement) /\ Top.jump \in Nat
  BY <1>2, BodiesAssumption DEF Tasks, StepFits
<1>4. t \in Tasks /\ StepFits(t) /\ t.step = "end_if" /\ t.jump = Len(code) + 1
  BY <1>2, <1>3 DEF Task, Tasks, Steps, StepFits
<1>5. w \in Seq(Tasks) /\ \A k \in DOMAIN w : StepFits(w[k]) /\ w[k].step # "end_for"
  BY <1>3, WalkTasks
<1>6. jump \in Instructions /\ jump.target = 0
  BY EmittedJump
<1> HIDE DEF w, t, jump
<1>7. /\ next \in Seq(Tasks) /\ \A k \in DOMAIN next : StepFits(next[k])
      /\ t.jump \in Held(next) /\ LabelsAreThere(code', next)
  BY <1>4, <1>5, BlocksThen
<1>8. /\ new \in Seq(Instructions) /\ new[2].op = "label" /\ Len(new) = 2
      /\ \A i \in DOMAIN new : IsJump(new[i]) => i = 1 /\ new[i].target = 0
  BY <1>6, EmittedLabel, Two
<1> HIDE DEF next, new
<1>9. IsLabel(code \o new, Here + 2) /\ Here + 2 \in Nat \ {0}
  BY <1>2, <1>8, AppendedLabel
<1>10. \A i \in DOMAIN new : IsJump(new[i]) => new[i].target = 0 /\ Len(code) + i \in opened
  BY <1>4, <1>7, <1>8
<1>11. Held(work) \subseteq opened
  OBVIOUS
<1> HIDE DEF opened
<1>12. /\ code' \in Seq(Instructions) /\ Closed(code', opened \ {Top.jump})
       /\ \A l : IsLabel(code, l) => IsLabel(code', l)
  BY <1>1, <1>2, <1>3, <1>8, <1>9, <1>10, <1>11, AppendAndSet
<1>13. Closed(code', Held(next) \cup (Held(work) \ {Top.jump}))
  BY <1>12 DEF Closed, opened
<1> QED
  BY <1>1, <1>7, <1>12, <1>13, TakesStep

\* At the end of an IF a jump is closed.
LEMMA GenEndIfStep == IInv /\ GenEndIf => IInv'
<1> SUFFICES ASSUME IInv, GenEndIf PROVE IInv'
  OBVIOUS
<1> DEFINE new == <<Label>>
<1>1. Takes("end_if", <<>>) /\ code' = SetTarget(code \o new, Top.jump, Here + 1)
  <2>1. code \in Seq(Instructions) /\ Label \in Instructions
    BY EmittedLabel DEF IInv, TypeInv
  <2>2. Append(code, Label) = code \o new
    BY <2>1
  <2> QED
    BY <2>2 DEF GenEndIf
<1>2. /\ Top \in Tasks /\ code \in Seq(Instructions) /\ Here \in Nat /\ Here = Len(code)
      /\ Closed(code, Held(work))
  BY <1>1, TopFits DEF Here
<1>3. Top.jump \in Nat
  BY <1>2 DEF Tasks
<1>4. /\ new \in Seq(Instructions) /\ new[1].op = "label" /\ Len(new) = 1
      /\ \A i \in DOMAIN new : ~IsJump(new[i])
  BY EmittedLabel, One
<1> HIDE DEF new
<1>5. IsLabel(code \o new, Here + 1) /\ Here + 1 \in Nat \ {0}
  BY <1>2, <1>4, AppendedLabel
<1>6. /\ code' \in Seq(Instructions) /\ Closed(code', Held(work) \ {Top.jump})
      /\ \A l : IsLabel(code, l) => IsLabel(code', l)
  BY <1>1, <1>2, <1>3, <1>4, <1>5, AppendAndSet
<1> QED
  BY <1>1, <1>6, NothingMore, TakesStep

\* The init of a FOR, and then its loop: no instruction yet.
LEMMA GenForStep == IInv /\ GenFor => IInv'
<1> SUFFICES ASSUME IInv, GenFor PROVE IInv'
  OBVIOUS
<1> DEFINE w == Walk(Top.node.init, <<Loop(Top.node)>> \o Top.rest)
           t == Task("loop", Top.node, 0, 0, Top.rest)
           next == w \o <<t>>
           open == Held(work) \ {Top.jump}
<1>1. Takes("for", next) /\ code' = code
  BY DEF GenFor
<1>2. /\ Top \in Tasks /\ code \in Seq(Instructions)
      /\ Top.step = "for" /\ StepFits(Top) /\ (Top.jump = 0 => Closed(code, open))
  BY <1>1, TopFits
<1>3. Top.node \in Statement /\ Top.rest \in Seq(AnyStatement) /\ Top.node.op = "for"
        /\ Top.node.init \in Seq(Statement) /\ Closed(code, open)
  BY <1>2, BodiesAssumption DEF Tasks, StepFits
<1>4. t \in Tasks /\ StepFits(t) /\ t.step = "loop"
  BY <1>3 DEF Task, Tasks, Steps, StepFits
<1>5. <<Loop(Top.node)>> \o Top.rest \in Seq(AnyStatement)
  BY <1>3, LoopAgain
<1>6. w \in Seq(Tasks) /\ \A k \in DOMAIN w : StepFits(w[k]) /\ w[k].step # "end_for"
  BY <1>3, <1>5, WalkTasks
<1> HIDE DEF w, t
<1>7. /\ next \in Seq(Tasks) /\ \A k \in DOMAIN next : StepFits(next[k])
      /\ LabelsAreThere(code', next)
  BY <1>4, <1>6, BlocksThen
<1>8. Closed(code', Held(next) \cup open)
  BY <1>1, <1>3 DEF Closed
<1> HIDE DEF next
<1> QED
  BY <1>1, <1>2, <1>7, <1>8, TakesStep

\* The top of a loop: a label, and a jump out of it if there is a condition.
LEMMA GenLoopStep == IInv /\ GenLoop => IInv'
<1> SUFFICES ASSUME IInv, GenLoop PROVE IInv'
  OBVIOUS
<1> DEFINE again == <<Loop(Top.node)>> \o Top.rest
           first == Walk(Top.node.body, Top.node.update \o again)
           second == Walk(Top.node.update, again)
           w == first \o second
           t == Task("end_for", Top.node, IF Top.node.tested THEN Here + 3 ELSE 0,
                     Here + 1, Top.rest)
           next == w \o <<t>>
           eqi == Ins("eqi", Top.node.id)
           jt == Ins("jt", "")
           new == IF Top.node.tested THEN <<Label, eqi, jt>> ELSE <<Label>>
           open == Held(work) \ {Top.jump}
           opened == Held(next) \cup open
<1>1. Takes("loop", next) /\ code' = code \o new
  BY DEF GenLoop
<1>2. /\ Top \in Tasks /\ code \in Seq(Instructions) /\ Here \in Nat /\ Here = Len(code)
      /\ Top.step = "loop" /\ StepFits(Top) /\ (Top.jump = 0 => Closed(code, open))
  BY <1>1, TopFits DEF Here
<1>3. /\ Top.node \in Statement /\ Top.rest \in Seq(AnyStatement) /\ Top.node.op = "for"
      /\ Top.node.body \in Seq(Statement) /\ Top.node.update \in Seq(Statement)
      /\ Top.node.tested \in BOOLEAN /\ Top.node.id \in Ids /\ Closed(code, open)
  BY <1>2, BodiesAssumption, Named DEF Tasks, StepFits
<1>4. /\ t \in Tasks /\ StepFits(t) /\ t.step = "end_for" /\ t.label = Len(code) + 1
      /\ Top.node.tested => t.jump = Len(code) + 3
  BY <1>2, <1>3 DEF Task, Tasks, Steps, StepFits
<1>5. w \in Seq(Tasks) /\ \A k \in DOMAIN w : StepFits(w[k]) /\ w[k].step # "end_for"
  <2>1. again \in Seq(AnyStatement) /\ Top.node.update \in Seq(AnyStatement)
    <3>1. again \in Seq(AnyStatement)
      BY <1>3, LoopAgain
    <3>2. Top.node.update \in Seq(AnyStatement)
      BY <1>3 DEF AnyStatement
    <3> QED
      BY <3>1, <3>2
  <2>2. Top.node.update \o again \in Seq(AnyStatement)
    BY <2>1
  <2>3. /\ first \in Seq(Tasks) /\ second \in Seq(Tasks)
        /\ \A k \in DOMAIN first : StepFits(first[k]) /\ first[k].step # "end_for"
        /\ \A k \in DOMAIN second : StepFits(second[k]) /\ second[k].step # "end_for"
    BY <1>3, <2>1, <2>2, WalkTasks
  <2> HIDE DEF first, second
  <2>4. w \in Seq(Tasks)
    BY <2>3
  <2>5. \A k \in DOMAIN w : \/ k \in DOMAIN first /\ w[k] = first[k]
                            \/ k - Len(first) \in DOMAIN second /\ w[k] = second[k - Len(first)]
    BY <2>3
  <2> QED
    BY <2>3, <2>4, <2>5
<1>6. /\ eqi \in Instructions /\ ~IsJump(eqi) /\ jt \in Instructions /\ jt.target = 0
  <2>1. eqi \in Instructions /\ ~IsJump(eqi)
    BY <1>3, Emitted
  <2>2. jt \in Instructions /\ jt.target = 0
    BY Named, Emitted
  <2> QED
    BY <2>1, <2>2
<1> HIDE DEF w, t, eqi, jt
<1>7. /\ new \in Seq(Instructions) /\ 1 \in 1 .. Len(new) /\ new[1].op = "label"
      /\ \A i \in DOMAIN new : IsJump(new[i]) =>
                                i = 3 /\ new[i].target = 0 /\ Top.node.tested
  <2>1. CASE Top.node.tested
    <3>1. new = <<Label, eqi, jt>>
      BY <2>1
    <3>2. Len(<<Label, eqi, jt>>) = 3
      OBVIOUS
    <3> HIDE DEF new
    <3> QED
      BY <2>1, <3>1, <3>2, <1>6, EmittedLabel, Three
  <2>2. CASE ~Top.node.tested
    <3>1. new = <<Label>>
      BY <2>2
    <3>2. Len(<<Label>>) = 1
      OBVIOUS
    <3> HIDE DEF new
    <3> QED
      BY <3>1, <3>2, EmittedLabel, One
  <2> QED
    BY <2>1, <2>2
<1> HIDE DEF new, open
<1>8. IsLabel(code \o new, Len(code) + 1)
  BY <1>2, <1>7, AppendedLabel
<1>9. /\ next \in Seq(Tasks) /\ \A k \in DOMAIN next : StepFits(next[k])
      /\ t.jump \in Held(next) /\ LabelsAreThere(code', next)
  BY <1>1, <1>4, <1>5, <1>8, BlocksThen
<1> HIDE DEF next
<1>10. \A i \in DOMAIN new : IsJump(new[i]) => new[i].target = 0 /\ Len(code) + i \in opened
  BY <1>4, <1>7, <1>9
<1>11. open \subseteq opened
  OBVIOUS
<1> HIDE DEF opened
<1>12. /\ code' \in Seq(Instructions) /\ Closed(code', opened)
       /\ \A l : IsLabel(code, l) => IsLabel(code', l)
  BY <1>1, <1>2, <1>3, <1>7, <1>10, <1>11, AppendClosed
<1> QED
  BY <1>1, <1>9, <1>12, TakesStep DEF opened, open

\* The end of a loop: back to its label, and the way out, if there is one.
LEMMA GenEndForStep == IInv /\ GenEndFor => IInv'
<1> SUFFICES ASSUME IInv, GenEndFor PROVE IInv'
  OBVIOUS
<1> DEFINE back == Jump(Top.label)
           open == Held(work) \ {Top.jump}
<1>1. Takes("end_for", <<>>)
  BY DEF GenEndFor
<1>2. /\ Top \in Tasks /\ code \in Seq(Instructions) /\ Here \in Nat /\ Here = Len(code)
      /\ Closed(code, Held(work)) /\ (Top.jump = 0 => Closed(code, open))
      /\ IsLabel(code, Top.label)
  BY <1>1, TopFits DEF Here
<1>3. Top.jump \in Nat /\ Top.label \in Nat \ {0}
  BY <1>2 DEF Tasks, IsLabel
<1>4. back \in Instructions /\ back.target = Top.label
  BY <1>3, EmittedJump
<1>5. ASSUME NEW new \in Seq(Instructions),
             \A i \in DOMAIN new : IsJump(new[i]) => new[i].target = Top.label
      PROVE  /\ \A i \in DOMAIN new : IsJump(new[i]) =>
                  new[i].target # 0 /\ IsLabel(code \o new, new[i].target)
  <2>1. IsLabel(code \o new, Top.label)
    BY <1>2 DEF IsLabel
  <2> QED
    BY <1>3, <1>5, <2>1
<1> HIDE DEF open
<1>6. CASE Top.jump = 0
  <2> DEFINE new == <<back>>
  <2>1. code' = code \o new
    <3>1. code' = Append(code, back)
      BY <1>6 DEF GenEndFor
    <3> HIDE DEF back
    <3> QED
      BY <1>2, <1>4, <3>1
  <2> HIDE DEF back
  <2>2. new \in Seq(Instructions) /\ \A i \in DOMAIN new : new[i].target = Top.label
    BY <1>4, One
  <2> HIDE DEF new
  <2>3. /\ code' \in Seq(Instructions) /\ Closed(code', open)
        /\ \A l : IsLabel(code, l) => IsLabel(code', l)
    BY <1>2, <1>5, <1>6, <2>1, <2>2, AppendClosed
  <2> QED
    BY <1>1, <2>3, NothingMore, TakesStep DEF open
<1>7. CASE Top.jump # 0
  <2> DEFINE new == <<back, Label>>
  <2>1. code' = SetTarget(code \o new, Top.jump, Here + 2)
    BY <1>7 DEF GenEndFor
  <2> HIDE DEF back
  <2>2. /\ new \in Seq(Instructions) /\ 2 \in 1 .. Len(new) /\ new[2].op = "label"
        /\ \A i \in DOMAIN new : IsJump(new[i]) => new[i].target = Top.label
    BY <1>4, EmittedLabel, Two
  <2> HIDE DEF new
  <2>3. IsLabel(code \o new, Here + 2) /\ Here + 2 \in Nat \ {0}
    BY <1>2, <2>2, AppendedLabel
  <2>4. /\ code' \in Seq(Instructions) /\ Closed(code', open)
        /\ \A l : IsLabel(code, l) => IsLabel(code', l)
    BY <1>2, <1>3, <1>5, <2>1, <2>2, <2>3, AppendAndSet DEF open
  <2> QED
    BY <1>1, <2>4, NothingMore, TakesStep DEF open
<1> QED
  BY <1>6, <1>7

\* The default return, when all jumps are closed; and a run changes no code.
LEMMA GenEndStep == IInv /\ GenEnd => IInv'
<1> SUFFICES ASSUME IInv, GenEnd PROVE IInv'
  OBVIOUS
<1> DEFINE new == <<Ins("ret", Default.id)>>
<1>1. code \in Seq(Instructions) /\ Closed(code, Held(work)) /\ work = <<>> /\ work' = work
        /\ body' = body /\ phase' = "run"
  BY DEF IInv, TypeInv, GenEnd
<1>2. new \in Seq(Instructions) /\ \A i \in DOMAIN new : ~IsJump(new[i])
  BY Named, Emitted, One
<1>3. code' = code \o new
  BY <1>1, <1>2 DEF GenEnd
<1> HIDE DEF new
<1>4. code' \in Seq(Instructions) /\ Closed(code', Held(work))
  BY <1>1, <1>2, <1>3, AppendClosed
<1>5. LabelsAreThere(code', work')
  BY <1>1, NothingMore
<1>6. Closed(code', Held(work'))
  BY <1>1, <1>4
<1> QED
  BY <1>1, <1>4, <1>5, <1>6 DEF IInv, TypeInv

\* The function runs in the code that was generated for it.
LEMMA QuietStep ==
  IInv /\ (Run \/ UNCHANGED vars) => IInv'
<1> SUFFICES ASSUME IInv, Run \/ UNCHANGED vars PROVE IInv'
  OBVIOUS
<1>1. /\ code' = code /\ work' = work /\ body' = body
      /\ phase' = phase \/ (phase = "run" /\ phase' = "returned")
  BY DEF Run, Runs, RunDo, RunReturn, RunEqi, RunJt, RunJ, RunLabel, vars, gen_vars
<1>2. TypeInv' /\ (phase' # "generate" => work' = <<>>)
  BY <1>1 DEF IInv, TypeInv
<1>3. Closed(code', Held(work')) /\ LabelsAreThere(code', work')
  BY <1>1 DEF IInv
<1> QED
  BY <1>2, <1>3 DEF IInv

-----------------------------------------------------------------------------
(* The functions of every program, however IF and FOR are nested in them,  *)
(* have no jump without a target once they are generated, and before that  *)
(* none that nobody is going to set; a target that is set is a label       *)
(* (WalkIfStatementChildren and WalkForStatementChildren).                 *)
THEOREM JumpsClose == Spec => []JumpsAreClosed
<1>1. IInv /\ [Next]_vars => IInv'
  BY GenDoStep, GenIfStep, GenElseStep, GenEndIfStep, GenForStep, GenLoopStep,
     GenEndForStep, GenEndStep, QuietStep DEF Next, Generate
<1>2. IInv => JumpsAreClosed
  BY DEF IInv, Closed, Held, IsLabel, JumpsAreClosed
<1> QED
  BY InitIInv, <1>1, <1>2, PTL DEF Spec

-----------------------------------------------------------------------------
(***************************************************************************)
(* Every step of the generated code is a step of the statements or none:   *)
(* whatever is nested in what, however the conditions come out.            *)
(*                                                                         *)
(* Each instruction knows which statements are left when execution is      *)
(* there.  The invariant says that these agree from one instruction to the *)
(* next and from a jump to its target; and, while the function is being    *)
(* generated, that they agree with what the activations still have to do,  *)
(* one after another: the last instruction with the innermost one, a jump  *)
(* without a target with the one that holds it.                            *)
(***************************************************************************)

-----------------------------------------------------------------------------
(***************************************************************************)
(* The statements left when the generator is at a task, when all tasks     *)
(* before "last" are done, and when each is done.                          *)
(***************************************************************************)
Point(task) ==
  CASE task.step \in {"do", "return", "if", "for"} -> Open(<<task.node>> \o task.rest)
    [] task.step \in {"else", "end_if"} -> Open(task.rest)
    [] task.step \in {"loop", "end_for"} -> <<Loop(task.node)>> \o task.rest

First(tasks, last) == IF tasks = <<>> THEN last ELSE Point(tasks[1])

Leads(tasks, last) ==
  \A k \in DOMAIN tasks :
    Open(tasks[k].rest) = IF k = Len(tasks) THEN last ELSE Point(tasks[k + 1])

(***************************************************************************)
(* An instruction does the first of the statements left, and leaves what   *)
(* is left at the next instruction; a condition is the exception, the jump *)
(* after it decides.                                                       *)
(***************************************************************************)
Flow(c, m, i, next) ==
  LET left == m[i].falls IN
  /\ c[i].op \in {"do", "ret", "eqi"} => left # <<>> /\ left[1].id = c[i].id
  /\ c[i].op = "do" => left[1].op = "do" /\ next = Open(Tail(left))
  /\ c[i].op = "ret" => left[1].op = "return"
  /\ c[i].op = "eqi" =>
       /\ left[1].op = "if" \/ (left[1].op = "loop" /\ left[1].tested)
       /\ i + 1 \in DOMAIN c
       /\ c[i + 1].op = "jt"
       /\ m[i + 1] = Fork(left[1], Tail(left))
  /\ c[i].op = "jt" => i - 1 \in DOMAIN c /\ c[i - 1].op = "eqi" /\ next = left
  /\ c[i].op = "label" =>
       \/ next = left
       \/ /\ left # <<>> /\ left[1].op = "loop" /\ ~left[1].tested
          /\ next = Chosen(left[1], "true", Tail(left))

Flowing(c, m, last) ==
  /\ Len(m) = Len(c)
  /\ \A i \in DOMAIN c : Flow(c, m, i, IF i = Len(c) THEN last ELSE m[i + 1].falls)

(***************************************************************************)
(* A jump leads to what is left if it is taken; one without a target will, *)
(* and the label of a loop leads back to the loop.                         *)
(***************************************************************************)
Landing(c, m) ==
  \A i \in DOMAIN c :
    /\ IsJump(c[i]) /\ c[i].target # 0 => m[c[i].target].falls = m[i].jumps
    /\ c[i].op = "j" => m[i].jumps = m[i].falls

Exit(task) == IF task.step = "else" THEN Open(task.node.else \o task.rest) ELSE Open(task.rest)

Promised(m, tasks) ==
  \A k \in DOMAIN tasks :
    /\ tasks[k].jump # 0 =>
         tasks[k].jump \in DOMAIN m /\ m[tasks[k].jump].jumps = Exit(tasks[k])
    /\ tasks[k].step = "end_for" =>
         m[tasks[k].label].falls = <<Loop(tasks[k].node)>> \o tasks[k].rest

Meanings == [falls : Seq(AnyStatement), jumps : Seq(AnyStatement)]

Ahead == First(work, <<Default>>)

RInv ==
  /\ IInv
  /\ means \in Seq(Meanings)
  /\ Leads(work, <<Default>>)
  /\ Flowing(code, means, Ahead)
  /\ (IF code = <<>> THEN Ahead ELSE means[1].falls) = Whole(body)
  /\ Landing(code, means)
  /\ Promised(means, work)
  /\ phase = "generate" => pc = 1 /\ effect = Nothing
  /\ phase = "run" => pc \in DOMAIN code /\ code[Len(code)].op = "ret"

-----------------------------------------------------------------------------
(***************************************************************************)
(* What is left, as sequences of statements.                               *)
(***************************************************************************)

\* A statement before others.
LEMMA FirstOf ==
  ASSUME NEW s \in AnyStatement, NEW rest \in Seq(AnyStatement)
  PROVE  /\ <<s>> \o rest \in Seq(AnyStatement) /\ <<s>> \o rest # <<>>
         /\ (<<s>> \o rest)[1] = s /\ Tail(<<s>> \o rest) = rest
<1> DEFINE all == <<s>> \o rest
<1>1. all \in Seq(AnyStatement) /\ Len(all) = 1 + Len(rest) /\ Len(rest) \in Nat
  OBVIOUS
<1>2. \A i \in 1 .. Len(rest) : all[i + 1] = rest[i]
  OBVIOUS
<1>3. all # <<>> /\ all[1] = s
  BY <1>1
<1> HIDE DEF all
<1>4. Tail(all) \in Seq(AnyStatement) /\ Len(Tail(all)) = Len(rest)
        /\ \A i \in 1 .. Len(rest) : Tail(all)[i] = all[i + 1]
  BY <1>1, <1>3
<1>5. Tail(all) = rest
  BY <1>1, <1>2, <1>4, SeqEqual
<1> QED
  BY <1>1, <1>3, <1>5 DEF all

\* Statements are any statements, and so is a loop.
LEMMA Kinds ==
  /\ Statement \subseteq AnyStatement
  /\ Default \in AnyStatement /\ Default.op = "return" /\ Default.id = "default"
  /\ \A s \in Statement : /\ Loop(s) \in AnyStatement
                          /\ Loop(s).op = "loop" /\ Loop(s).id = s.id
                          /\ Loop(s).tested = s.tested
                          /\ Loop(s).body = s.body /\ Loop(s).update = s.update
  /\ Seq(Statement) \subseteq Seq(AnyStatement)
<1>1. Statement \subseteq AnyStatement
  BY DEF AnyStatement
<1>2. Seq(Statement) \subseteq Seq(AnyStatement)
  BY <1>1, SeqMonotonic
<1> QED
  BY <1>1, <1>2 DEF AnyStatement, Default, Loop

\* Open looks at the first statement only.
LEMMA OpenIs ==
  ASSUME NEW left \in Seq(AnyStatement)
  PROVE  /\ Open(left) \in Seq(AnyStatement)
         /\ left = <<>> => Open(left) = left
         /\ left # <<>> /\ left[1].op # "for" => Open(left) = left
<1>1. CASE left # <<>> /\ left[1].op = "for"
  <2>1. left[1] \in AnyStatement /\ Tail(left) \in Seq(AnyStatement)
    BY <1>1
  <2>2. left[1] \in Statement
    BY <1>1, <2>1, BodiesAssumption DEF AnyStatement, Default, Loop
  <2>3. left[1].init \in Seq(AnyStatement) /\ <<Loop(left[1])>> \in Seq(AnyStatement)
    <3>1. left[1].init \in Seq(AnyStatement) /\ Loop(left[1]) \in AnyStatement
      BY <1>1, <2>2, BodiesAssumption, Kinds
    <3> QED
      BY <3>1
  <2>4. Open(left) = left[1].init \o <<Loop(left[1])>> \o Tail(left)
    BY <1>1 DEF Open
  <2> QED
    BY <1>1, <2>1, <2>3, <2>4
<1>2. CASE ~(left # <<>> /\ left[1].op = "for")
  BY <1>2 DEF Open
<1> QED
  BY <1>1, <1>2

\* What is left at a loop, at a FOR, and at another statement.
LEMMA OpenFirst ==
  ASSUME NEW s \in Statement, NEW rest \in Seq(AnyStatement)
  PROVE  /\ Open(<<Loop(s)>> \o rest) = <<Loop(s)>> \o rest
         /\ s.op # "for" => Open(<<s>> \o rest) = <<s>> \o rest
         /\ s.op = "for" => Open(<<s>> \o rest) = Open(s.init \o (<<Loop(s)>> \o rest))
<1>1. /\ <<Loop(s)>> \o rest \in Seq(AnyStatement) /\ <<Loop(s)>> \o rest # <<>>
      /\ (<<Loop(s)>> \o rest)[1].op = "loop"
  BY Kinds, FirstOf
<1>2. /\ <<s>> \o rest \in Seq(AnyStatement) /\ <<s>> \o rest # <<>>
      /\ (<<s>> \o rest)[1] = s /\ Tail(<<s>> \o rest) = rest
  BY Kinds, FirstOf
<1>3. Open(<<Loop(s)>> \o rest) = <<Loop(s)>> \o rest
  BY <1>1, OpenIs
<1>4. s.op # "for" => Open(<<s>> \o rest) = <<s>> \o rest
  BY <1>2, OpenIs
<1>5. ASSUME s.op = "for"
      PROVE  Open(<<s>> \o rest) = Open(s.init \o (<<Loop(s)>> \o rest))
  <2> DEFINE again == <<Loop(s)>> \o rest
             left == s.init \o again
  <2>1. s.init \in Seq(AnyStatement) /\ \A i \in DOMAIN s.init : s.init[i].op = "do"
    BY <1>5, BodiesAssumption, Kinds
  <2>2. Open(<<s>> \o rest) = (s.init \o <<Loop(s)>>) \o rest
    BY <1>2, <1>5 DEF Open
  <2>3. <<Loop(s)>> \in Seq(AnyStatement)
    BY Kinds
  <2>4. Open(<<s>> \o rest) = left
    <3> DEFINE one == <<Loop(s)>>
               clause == s.init
    <3>1. one \in Seq(AnyStatement) /\ clause \in Seq(AnyStatement)
      BY <2>1, <2>3
    <3> HIDE DEF one, clause
    <3>2. (clause \o one) \o rest = clause \o (one \o rest)
      BY <3>1, ConcatAssociative
    <3> QED
      BY <2>2, <3>2 DEF one, clause
  <2> HIDE DEF again
  <2>5. left \in Seq(AnyStatement) /\ left # <<>> /\ left[1].op # "for"
    <3>1. again \in Seq(AnyStatement) /\ again # <<>> /\ again[1].op = "loop"
      BY <1>1 DEF again
    <3>2. CASE s.init = <<>>
      <4>1. left = again
        BY <3>1, <3>2, ConcatEmptySeq
      <4> QED
        BY <3>1, <4>1
    <3>3. CASE s.init # <<>>
      BY <2>1, <3>1, <3>3
    <3> QED
      BY <3>2, <3>3
  <2>6. Open(left) = left
    BY <2>5, OpenIs
  <2> QED
    BY <2>4, <2>6 DEF again
<1> QED
  BY <1>3, <1>4, <1>5

-----------------------------------------------------------------------------
(***************************************************************************)
(* Tasks that lead from one to the next.                                   *)
(***************************************************************************)

\* Tasks before others.
LEMMA LeadsOn ==
  ASSUME NEW a \in Seq(Tasks), NEW b \in Seq(Tasks), NEW last,
         Leads(a, First(b, last)), Leads(b, last)
  PROVE  /\ Leads(a \o b, last)
         /\ First(a \o b, last) = First(a, First(b, last))
<1> DEFINE all == a \o b
<1>1. all \in Seq(Tasks) /\ Len(all) = Len(a) + Len(b) /\ Len(a) \in Nat /\ Len(b) \in Nat
  OBVIOUS
<1>2. \A k \in DOMAIN a : k \in DOMAIN all /\ all[k] = a[k]
  OBVIOUS
<1>3. \A k \in DOMAIN b : Len(a) + k \in DOMAIN all /\ all[Len(a) + k] = b[k]
  OBVIOUS
<1>4. a = <<>> => all = b
  BY ConcatEmptySeq
<1> HIDE DEF all
<1>5. ASSUME NEW k \in DOMAIN all
      PROVE  Open(all[k].rest) = IF k = Len(all) THEN last ELSE Point(all[k + 1])
  <2>1. CASE k < Len(a)
    <3>1. k \in DOMAIN a /\ k + 1 \in DOMAIN a /\ k # Len(a) /\ k # Len(all)
      BY <1>1, <2>1
    <3> QED
      BY <3>1, <1>2 DEF Leads
  <2>2. CASE k = Len(a)
    <3>1. k \in DOMAIN a /\ Open(a[k].rest) = First(b, last) /\ all[k] = a[k]
      BY <1>1, <1>2, <2>2 DEF Leads
    <3>2. CASE b = <<>>
      <4>1. k = Len(all)
        BY <1>1, <2>2, <3>2
      <4> QED
        BY <3>1, <3>2, <4>1 DEF First
    <3>3. CASE b # <<>>
      <4>1. k # Len(all) /\ 1 \in DOMAIN b /\ all[k + 1] = b[1]
        BY <1>1, <1>3, <2>2, <3>3
      <4> QED
        BY <3>1, <3>3, <4>1 DEF First
    <3> QED
      BY <3>2, <3>3
  <2>3. CASE k > Len(a)
    <3> DEFINE j == k - Len(a)
    <3>1. j \in DOMAIN b /\ k = Len(a) + j /\ (k = Len(all) <=> j = Len(b)) /\ j \in Nat
      BY <1>1, <2>3
    <3>2. Open(b[j].rest) = IF j = Len(b) THEN last ELSE Point(b[j + 1])
      BY <3>1 DEF Leads
    <3>3. all[k] = b[j]
      BY <1>3, <3>1
    <3>4. j # Len(b) => j + 1 \in DOMAIN b /\ all[k + 1] = b[j + 1]
      <4> SUFFICES ASSUME j # Len(b) PROVE j + 1 \in DOMAIN b /\ all[k + 1] = b[j + 1]
        OBVIOUS
      <4>1. j + 1 \in DOMAIN b /\ Len(a) + (j + 1) = k + 1
        BY <1>1, <3>1
      <4> HIDE DEF j
      <4> QED
        BY <1>3, <4>1
    <3> HIDE DEF j
    <3> QED
      BY <3>1, <3>2, <3>3, <3>4
  <2> QED
    BY <1>1, <2>1, <2>2, <2>3
<1>6. Leads(all, last)
  BY <1>5 DEF Leads
<1>7. First(all, last) = First(a, First(b, last))
  <2>1. CASE a = <<>>
    BY <1>4, <2>1 DEF First
  <2>2. CASE a # <<>>
    <3>1. 1 \in DOMAIN a /\ all[1] = a[1] /\ all # <<>>
      BY <1>1, <1>2, <2>2
    <3> QED
      BY <2>2, <3>1 DEF First
  <2> QED
    BY <2>1, <2>2
<1> QED
  BY <1>6, <1>7 DEF all

\* When the first is done.
LEMMA LeadsAfter ==
  ASSUME NEW tasks \in Seq(Tasks), NEW last, tasks # <<>>, Leads(tasks, last)
  PROVE  /\ Tail(tasks) \in Seq(Tasks) /\ Leads(Tail(tasks), last)
         /\ First(Tail(tasks), last) = Open(tasks[1].rest)
<1> DEFINE t == Tail(tasks)
<1>1. /\ t \in Seq(Tasks) /\ Len(t) = Len(tasks) - 1 /\ Len(tasks) \in Nat /\ Len(tasks) >= 1
      /\ \A k \in DOMAIN t : k \in Nat /\ k + 1 \in DOMAIN tasks /\ t[k] = tasks[k + 1]
  OBVIOUS
<1>2. t = <<>> <=> 1 = Len(tasks)
  BY <1>1
<1> HIDE DEF t
<1>3. ASSUME NEW k \in DOMAIN t
      PROVE  Open(t[k].rest) = IF k = Len(t) THEN last ELSE Point(t[k + 1])
  <2>1. Open(tasks[k + 1].rest) = IF k + 1 = Len(tasks) THEN last ELSE Point(tasks[(k + 1) + 1])
    BY <1>1 DEF Leads
  <2>2. (k = Len(t) <=> k + 1 = Len(tasks)) /\ (k # Len(t) => k + 1 \in DOMAIN t)
    BY <1>1
  <2> QED
    BY <1>1, <2>1, <2>2
<1>4. First(t, last) = Open(tasks[1].rest)
  <2>1. Open(tasks[1].rest) = IF 1 = Len(tasks) THEN last ELSE Point(tasks[1 + 1])
    BY <1>1 DEF Leads
  <2>2. t # <<>> => 1 \in DOMAIN t /\ t[1] = tasks[1 + 1]
    BY <1>1
  <2> QED
    BY <1>2, <2>1, <2>2 DEF First
<1> QED
  BY <1>1, <1>3, <1>4 DEF Leads, t

\* One task, and no task.
LEMMA LeadsOne ==
  ASSUME NEW t \in Tasks, NEW last, Open(t.rest) = last
  PROVE  Leads(<<t>>, last) /\ First(<<t>>, last) = Point(t) /\ <<t>> \in Seq(Tasks)
BY DEF Leads, First
LEMMA LeadsNone ==
  ASSUME NEW last
  PROVE  Leads(<<>>, last) /\ First(<<>>, last) = last
BY DEF Leads, First

\* The walk of a block begins with what is left at the block, and leads to
\* what is left after it.
LEMMA WalkLeads ==
  ASSUME NEW block \in Seq(Statement), NEW rest \in Seq(AnyStatement)
  PROVE  /\ Leads(Walk(block, rest), Open(rest))
         /\ First(Walk(block, rest), Open(rest)) = Open(block \o rest)
<1> DEFINE n == Len(block)
           left(k) == SubSeq(block, k, n) \o rest
           w == Walk(block, rest)
<1>1. /\ DOMAIN w = 1 .. n /\ n \in Nat /\ block \in Seq(AnyStatement) /\ Len(w) = n
      /\ \A k \in 1 .. n : block[k] \in Statement
  <2>1. w \in Seq(Tasks) /\ DOMAIN w = 1 .. n
    BY WalkTasks DEF Walk
  <2> QED
    BY <2>1, Kinds
<1>2. \A k \in 1 .. n : w[k].rest = left(k + 1) /\ Point(w[k]) = Open(left(k))
  <2> TAKE k \in 1 .. n
  <2>1. w[k] = Task(block[k].op, block[k], 0, 0, left(k + 1))
    BY DEF Walk
  <2>2. block[k].op \in {"do", "return", "if", "for"}
    BY <1>1, BodiesAssumption
  <2>3. left(k) = <<block[k]>> \o left(k + 1)
    <3>1. SubSeq(block, k, n) = <<block[k]>> \o SubSeq(block, k + 1, n)
      BY <1>1, SubSeqRecursiveFirst
    <3> DEFINE one == <<block[k]>>
               others == SubSeq(block, k + 1, n)
    <3>2. others \in Seq(AnyStatement) /\ one \in Seq(AnyStatement)
      BY <1>1, Kinds
    <3> HIDE DEF one, others
    <3>3. (one \o others) \o rest = one \o (others \o rest)
      BY <3>2, ConcatAssociative
    <3> QED
      BY <3>1, <3>3 DEF one, others
  <2> HIDE DEF w, left
  <2>4. /\ w[k].step = block[k].op /\ w[k].node = block[k] /\ w[k].rest = left(k + 1)
    BY <2>1 DEF Task
  <2> QED
    BY <2>2, <2>3, <2>4 DEF Point
<1>3. left(n + 1) = rest /\ left(1) = block \o rest
  <2>1. SubSeq(block, n + 1, n) = <<>> /\ SubSeq(block, 1, n) = block
    BY <1>1, SubSeqEmpty, SubSeqFull
  <2> QED
    BY <2>1, ConcatEmptySeq
<1> HIDE DEF left, w
<1>4. Leads(w, Open(rest))
  <2> SUFFICES ASSUME NEW k \in 1 .. n
               PROVE  Open(w[k].rest) = IF k = n THEN Open(rest) ELSE Point(w[k + 1])
    BY <1>1 DEF Leads
  <2> HIDE DEF n
  <2>1. k # n => k + 1 \in 1 .. n
    BY <1>1
  <2> QED
    BY <1>2, <1>3, <2>1
<1>5. First(w, Open(rest)) = Open(block \o rest)
  <2>1. CASE n = 0
    <3>1. w = <<>> /\ n + 1 = 1
      <4>1. w \in Seq(Tasks)
        BY WalkTasks DEF w
      <4> QED
        BY <1>1, <2>1, <4>1
    <3> QED
      BY <1>3, <3>1 DEF First
  <2>2. CASE n # 0
    <3>1. 1 \in 1 .. n /\ w # <<>>
      BY <1>1, <2>2
    <3> HIDE DEF n
    <3> QED
      BY <1>2, <1>3, <3>1 DEF First
  <2> QED
    BY <2>1, <2>2
<1> QED
  BY <1>4, <1>5 DEF w

-----------------------------------------------------------------------------
(***************************************************************************)
(* Code that is appended, and a target that is set.                        *)
(***************************************************************************)

\* What is appended begins with what is left after the code there is.
LEMMA FlowOn ==
  ASSUME NEW c \in Seq(Instructions), NEW m \in Seq(Meanings),
         NEW new \in Seq(Instructions), NEW added \in Seq(Meanings), NEW last,
         new # <<>>, Flowing(c, m, added[1].falls), Flowing(new, added, last)
  PROVE  Flowing(c \o new, m \o added, last)
<1> DEFINE d == c \o new
           e == m \o added
           n == Len(c)
<1>0. Len(m) = n /\ Len(added) = Len(new)
  BY DEF Flowing
<1>1. /\ n \in Nat /\ Len(new) \in Nat /\ Len(new) >= 1 /\ Len(m) = n /\ Len(added) = Len(new)
      /\ Len(d) = n + Len(new) /\ Len(e) = n + Len(new)
      /\ DOMAIN d = 1 .. n + Len(new) /\ DOMAIN c = 1 .. n /\ DOMAIN new = 1 .. Len(new)
  <2>1. /\ n \in Nat /\ Len(new) \in Nat /\ Len(new) >= 1
        /\ DOMAIN c = 1 .. n /\ DOMAIN new = 1 .. Len(new)
    OBVIOUS
  <2>2. Len(d) = n + Len(new) /\ d \in Seq(Instructions)
    BY ConcatProperties
  <2>3. Len(e) = n + Len(new)
    <3>1. Len(e) = Len(m) + Len(added)
      BY Zenon, ConcatProperties
    <3> QED
      BY <1>0, <3>1
  <2>4. DOMAIN d = 1 .. n + Len(new)
    BY <2>2
  <2> QED
    BY <1>0, <2>1, <2>2, <2>3, <2>4
<1>2. \A i \in 1 .. n : d[i] = c[i] /\ e[i] = m[i]
  BY <1>1
<1>3. \A i \in 1 .. Len(new) : d[n + i] = new[i] /\ e[n + i] = added[i]
  BY <1>1
<1> HIDE DEF d, e
<1>4. ASSUME NEW i \in DOMAIN d
      PROVE  Flow(d, e, i, IF i = Len(d) THEN last ELSE e[i + 1].falls)
  <2>1. CASE i <= n
    <3>1. i \in 1 .. n /\ i # Len(d)
      BY <1>1, <2>1
    <3>2. Flow(c, m, i, IF i = n THEN added[1].falls ELSE m[i + 1].falls)
      BY <1>1, <3>1 DEF Flowing
    <3>3. e[i + 1].falls = IF i = n THEN added[1].falls ELSE m[i + 1].falls
      <4>1. i = n => e[i + 1] = added[1]
        BY <1>1, <1>3
      <4>2. i # n => i + 1 \in 1 .. n
        BY <1>1, <3>1
      <4> QED
        BY <4>1, <4>2, <1>2
    <3>4. Flow(c, m, i, e[i + 1].falls)
      BY <3>2, <3>3
    <3>5. c[i].op = "eqi" => i + 1 \in 1 .. n /\ i + 1 \in DOMAIN d
      BY <1>1, <3>1, <3>4 DEF Flow
    <3>6. c[i].op = "jt" => i - 1 \in 1 .. n /\ i - 1 \in DOMAIN d
      BY <1>1, <3>1, <3>4 DEF Flow
    <3>7. Flow(d, e, i, e[i + 1].falls)
      BY <1>2, <3>1, <3>4, <3>5, <3>6 DEF Flow
    <3> QED
      BY <3>1, <3>7
  <2>2. CASE i > n
    <3> DEFINE j == i - n
    <3>1. j \in 1 .. Len(new) /\ i = n + j /\ (i = Len(d) <=> j = Len(new))
      BY <1>1, <2>2
    <3>2. Flow(new, added, j, IF j = Len(new) THEN last ELSE added[j + 1].falls)
      BY <1>1, <3>1 DEF Flowing
    <3>3. d[i] = new[j] /\ e[i] = added[j]
      BY <1>3, <3>1
    <3>4. j + 1 \in 1 .. Len(new) =>
            i + 1 \in DOMAIN d /\ d[i + 1] = new[j + 1] /\ e[i + 1] = added[j + 1]
      <4>1. n + (j + 1) = i + 1
        BY <1>1, <3>1
      <4> QED
        BY <1>1, <1>3, <4>1
    <3>5. j - 1 \in 1 .. Len(new) => i - 1 \in DOMAIN d /\ d[i - 1] = new[j - 1]
      <4> SUFFICES ASSUME j - 1 \in 1 .. Len(new)
                   PROVE  i - 1 \in DOMAIN d /\ d[i - 1] = new[j - 1]
        OBVIOUS
      <4>1. n + (j - 1) = i - 1 /\ i - 1 \in DOMAIN d
        BY <1>1, <3>1
      <4> HIDE DEF j
      <4> QED
        BY <1>3, <4>1
    <3>6. j # Len(new) => j + 1 \in 1 .. Len(new)
      BY <1>1, <3>1
    <3> HIDE DEF j
    <3> DEFINE next == IF j = Len(new) THEN last ELSE added[j + 1].falls
    <3>7. next = IF i = Len(d) THEN last ELSE e[i + 1].falls
      BY <3>1, <3>4, <3>6
    <3>8. Flow(new, added, j, next)
      BY <3>2
    <3> HIDE DEF next
    <3>9. Flow(d, e, i, next)
      BY <1>1, <3>3, <3>4, <3>5, <3>8 DEF Flow
    <3> QED
      BY <3>7, <3>9
  <2> QED
    BY <1>1, <2>1, <2>2
<1> QED
  BY <1>1, <1>4 DEF Flowing, d, e

\* Setting a target changes no more than it.
LEMMA SetIs ==
  ASSUME NEW c \in Seq(Instructions), NEW jump \in Nat, NEW l \in Nat
  PROVE  /\ DOMAIN SetTarget(c, jump, l) = DOMAIN c
         /\ Len(SetTarget(c, jump, l)) = Len(c)
         /\ \A i \in DOMAIN c :
              /\ SetTarget(c, jump, l)[i].op = c[i].op
              /\ SetTarget(c, jump, l)[i].id = c[i].id
              /\ SetTarget(c, jump, l)[i].target = IF i = jump THEN l ELSE c[i].target
<1> DEFINE d == SetTarget(c, jump, l)
<1>1. DOMAIN d = DOMAIN c /\ DOMAIN c = 1 .. Len(c) /\ Len(c) \in Nat
  BY DEF SetTarget
<1>2. \A i \in DOMAIN c : /\ c[i] \in Instructions
                          /\ i # jump => d[i] = c[i]
                          /\ i = jump => d[i] = [c[i] EXCEPT !.target = l]
  BY DEF SetTarget
<1>3. Len(d) = Len(c)
  BY <1>1 DEF SetTarget
<1> HIDE DEF d
<1>4. \A i \in DOMAIN c : /\ d[i].op = c[i].op /\ d[i].id = c[i].id
                          /\ d[i].target = IF i = jump THEN l ELSE c[i].target
  BY <1>2 DEF Instructions
<1> QED
  BY <1>1, <1>3, <1>4 DEF d

LEMMA FlowSet ==
  ASSUME NEW c \in Seq(Instructions), NEW m, NEW last, NEW jump \in Nat, NEW l \in Nat,
         Flowing(c, m, last)
  PROVE  Flowing(SetTarget(c, jump, l), m, last)
<1> DEFINE d == SetTarget(c, jump, l)
<1>1. /\ DOMAIN d = DOMAIN c /\ Len(d) = Len(c)
      /\ \A i \in DOMAIN c : d[i].op = c[i].op /\ d[i].id = c[i].id
  BY SetIs
<1> HIDE DEF d
<1>2. ASSUME NEW i \in DOMAIN c, NEW next, Flow(c, m, i, next)
      PROVE  Flow(d, m, i, next)
  BY <1>1, <1>2 DEF Flow
<1> QED
  BY <1>1, <1>2 DEF Flowing, d

\* Jumps land where they did when code is appended, if those that are new do,
\* or have no target.
LEMMA LandOn ==
  ASSUME NEW c \in Seq(Instructions), NEW m \in Seq(Meanings),
         NEW new \in Seq(Instructions), NEW added \in Seq(Meanings),
         Len(m) = Len(c), Len(added) = Len(new), NEW open, Closed(c, open), Landing(c, m),
         \A i \in DOMAIN new :
           /\ IsJump(new[i]) /\ new[i].target # 0 =>
                new[i].target \in DOMAIN m /\ m[new[i].target].falls = added[i].jumps
           /\ new[i].op = "j" => added[i].jumps = added[i].falls
  PROVE  Landing(c \o new, m \o added)
<1> DEFINE d == c \o new
           e == m \o added
           n == Len(c)
<1>1. /\ n \in Nat /\ Len(new) \in Nat /\ DOMAIN d = 1 .. n + Len(new)
      /\ DOMAIN c = 1 .. n /\ DOMAIN m = 1 .. n /\ DOMAIN new = 1 .. Len(new)
  OBVIOUS
<1>2. \A i \in 1 .. n : d[i] = c[i] /\ e[i] = m[i]
  OBVIOUS
<1>3. \A i \in 1 .. Len(new) : d[n + i] = new[i] /\ e[n + i] = added[i]
  OBVIOUS
<1> HIDE DEF d, e
<1>4. ASSUME NEW i \in DOMAIN d
      PROVE  /\ IsJump(d[i]) /\ d[i].target # 0 => e[d[i].target].falls = e[i].jumps
             /\ d[i].op = "j" => e[i].jumps = e[i].falls
  <2>1. CASE i <= n
    <3>1. i \in 1 .. n /\ d[i] = c[i] /\ e[i] = m[i]
      BY <1>1, <1>2, <2>1
    <3>2. IsJump(c[i]) /\ c[i].target # 0 => c[i].target \in 1 .. n
      BY <1>1, <3>1 DEF Closed, IsLabel
    <3> QED
      BY <1>1, <1>2, <3>1, <3>2 DEF Landing
  <2>2. CASE i > n
    <3>1. i - n \in 1 .. Len(new) /\ n + (i - n) = i
      BY <1>1, <2>2
    <3>2. d[i] = new[i - n] /\ e[i] = added[i - n]
      BY <1>3, <3>1
    <3> QED
      BY <1>1, <1>2, <3>1, <3>2
  <2> QED
    BY <1>1, <2>1, <2>2
<1> QED
  BY <1>4 DEF Landing, d, e

LEMMA LandSet ==
  ASSUME NEW c \in Seq(Instructions), NEW m, NEW jump \in Nat, NEW l \in Nat,
         Landing(c, m), jump \in DOMAIN c => m[l].falls = m[jump].jumps
  PROVE  Landing(SetTarget(c, jump, l), m)
<1> DEFINE d == SetTarget(c, jump, l)
<1>1. /\ DOMAIN d = DOMAIN c
      /\ \A i \in DOMAIN c : /\ d[i].op = c[i].op
                             /\ d[i].target = IF i = jump THEN l ELSE c[i].target
  BY SetIs
<1> HIDE DEF d
<1> QED
  BY <1>1 DEF Landing, IsJump, d

\* What was promised still is when code is appended.
LEMMA PromiseOn ==
  ASSUME NEW c \in Seq(Instructions), NEW m \in Seq(Meanings), NEW added \in Seq(Meanings),
         NEW tasks \in Seq(Tasks), Len(m) = Len(c), LabelsAreThere(c, tasks), Promised(m, tasks)
  PROVE  Promised(m \o added, tasks)
<1> DEFINE e == m \o added
<1>1. \A i \in DOMAIN m : i \in DOMAIN e /\ e[i] = m[i]
  OBVIOUS
<1>2. \A l : IsLabel(c, l) => l \in DOMAIN m
  BY DEF IsLabel
<1> HIDE DEF e
<1> QED
  BY <1>1, <1>2 DEF Promised, LabelsAreThere, e

\* And what an activation promises goes on with what it goes on with.
LEMMA PromiseNext ==
  ASSUME NEW m, NEW next \in Seq(Tasks), NEW tasks \in Seq(Tasks), tasks # <<>>,
         Promised(m, next), Promised(m, tasks)
  PROVE  Promised(m, next \o Tail(tasks))
<1> DEFINE all == next \o Tail(tasks)
<1>1. Tail(tasks) \in Seq(Tasks) /\ Len(Tail(tasks)) = Len(tasks) - 1 /\ Len(tasks) >= 1
  OBVIOUS
<1>2. all \in Seq(Tasks) /\ Len(all) = Len(next) + Len(tasks) - 1
  BY <1>1
<1>3. \A k \in DOMAIN all :
        \/ k \in DOMAIN next /\ all[k] = next[k]
        \/ (k - Len(next)) + 1 \in DOMAIN tasks /\ all[k] = tasks[(k - Len(next)) + 1]
  BY <1>1, <1>2
<1> HIDE DEF all
<1> QED
  BY <1>3 DEF Promised, all

-----------------------------------------------------------------------------
(***************************************************************************)
(* What the generator emits, as pieces of code that flow.                  *)
(***************************************************************************)

\* Four sequences in a row.
LEMMA Regroup ==
  ASSUME NEW S, NEW a \in Seq(S), NEW b \in Seq(S), NEW c \in Seq(S), NEW d \in Seq(S)
  PROVE  /\ ((a \o b) \o c) \o d = a \o (b \o (c \o d))
         /\ b \o (c \o d) \in Seq(S)
         /\ a \o (b \o (c \o d)) \in Seq(S)
<1> DEFINE ab == a \o b
           cd == c \o d
<1>1. ab \in Seq(S) /\ cd \in Seq(S)
  OBVIOUS
<1>2. b \o cd \in Seq(S)
  BY <1>1
<1>3. a \o (b \o cd) \in Seq(S)
  BY <1>2
<1> HIDE DEF ab, cd
<1>4. (ab \o c) \o d = ab \o (c \o d)
  BY <1>1, ConcatAssociative
<1>5. (a \o b) \o cd = a \o (b \o cd)
  BY <1>1, ConcatAssociative
<1> QED
  BY <1>2, <1>3, <1>4, <1>5 DEF ab, cd

\* What is left after a choice.
LEMMA ChosenIs ==
  ASSUME NEW s \in Statement, NEW rest \in Seq(AnyStatement)
  PROVE  /\ s.op = "if" =>
              /\ Chosen(s, "true", rest) = Open(s.then \o rest)
              /\ Chosen(s, "false", rest) = Open(s.else \o rest)
              /\ s.then \o rest \in Seq(AnyStatement)
              /\ s.else \o rest \in Seq(AnyStatement)
         /\ s.op = "for" =>
              /\ Chosen(Loop(s), "true", rest)
                   = Open(s.body \o (s.update \o (<<Loop(s)>> \o rest)))
              /\ Chosen(Loop(s), "false", rest) = Open(rest)
              /\ s.update \o (<<Loop(s)>> \o rest) \in Seq(AnyStatement)
              /\ s.body \o (s.update \o (<<Loop(s)>> \o rest)) \in Seq(AnyStatement)
<1>1. ASSUME s.op = "if"
      PROVE  /\ Chosen(s, "true", rest) = Open(s.then \o rest)
             /\ Chosen(s, "false", rest) = Open(s.else \o rest)
             /\ s.then \o rest \in Seq(AnyStatement)
             /\ s.else \o rest \in Seq(AnyStatement)
  <2>1. s.then \in Seq(AnyStatement) /\ s.else \in Seq(AnyStatement)
    BY <1>1, BodiesAssumption, Kinds
  <2>2. Chosen(s, "true", rest) = Open(s.then \o rest)
    BY <1>1 DEF Chosen
  <2>3. Chosen(s, "false", rest) = Open(s.else \o rest)
    BY <1>1 DEF Chosen
  <2> QED
    BY <2>1, <2>2, <2>3
<1>2. ASSUME s.op = "for"
      PROVE  /\ Chosen(Loop(s), "true", rest)
                  = Open(s.body \o (s.update \o (<<Loop(s)>> \o rest)))
             /\ Chosen(Loop(s), "false", rest) = Open(rest)
             /\ s.update \o (<<Loop(s)>> \o rest) \in Seq(AnyStatement)
             /\ s.body \o (s.update \o (<<Loop(s)>> \o rest)) \in Seq(AnyStatement)
  <2> DEFINE block == s.body
             clause == s.update
             one == <<Loop(s)>>
  <2>1. block \in Seq(AnyStatement) /\ clause \in Seq(AnyStatement) /\ one \in Seq(AnyStatement)
    <3>1. s.body \in Seq(Statement) /\ s.update \in Seq(Statement)
      BY <1>2, BodiesAssumption
    <3> QED
      BY <3>1, Kinds
  <2>2. Loop(s).op = "loop" /\ Loop(s).body = block /\ Loop(s).update = clause
    BY Kinds
  <2>3. Chosen(Loop(s), "true", rest) = Open(((block \o clause) \o one) \o rest)
    BY <2>2 DEF Chosen
  <2>4. Chosen(Loop(s), "false", rest) = Open(rest)
    BY <2>2 DEF Chosen
  <2> HIDE DEF block, clause, one
  <2>5. /\ ((block \o clause) \o one) \o rest = block \o (clause \o (one \o rest))
        /\ clause \o (one \o rest) \in Seq(AnyStatement)
        /\ block \o (clause \o (one \o rest)) \in Seq(AnyStatement)
    BY <2>1, Regroup
  <2> QED
    BY <2>3, <2>4, <2>5 DEF block, clause, one
<1> QED
  BY <1>1, <1>2

\* The meanings of one instruction and of a conditional jump.
LEMMA MeaningOf ==
  /\ \A left \in Seq(AnyStatement) :
       At(left) \in Meanings /\ At(left).falls = left /\ At(left).jumps = left
  /\ \A s, rest : Fork(s, rest).falls = Chosen(s, "true", rest)
                    /\ Fork(s, rest).jumps = Chosen(s, "false", rest)
BY DEF At, Fork, Meanings

\* One instruction flows if it does what it does, which nothing has to be
\* known of if it is a jump.
LEMMA OneFlows ==
  ASSUME NEW x \in Instructions, NEW p \in Meanings, NEW last, x.op \notin {"eqi", "jt"},
         x.op \in {"do", "ret"} => p.falls # <<>> /\ p.falls[1].id = x.id,
         x.op = "do" => p.falls[1].op = "do" /\ last = Open(Tail(p.falls)),
         x.op = "ret" => p.falls[1].op = "return",
         x.op = "label" =>
           \/ last = p.falls
           \/ /\ p.falls # <<>> /\ p.falls[1].op = "loop" /\ ~p.falls[1].tested
              /\ last = Chosen(p.falls[1], "true", Tail(p.falls))
  PROVE  /\ Flowing(<<x>>, <<p>>, last)
         /\ <<x>> \in Seq(Instructions) /\ <<p>> \in Seq(Meanings)
<1>1. /\ DOMAIN <<x>> = {1} /\ Len(<<x>>) = 1 /\ Len(<<p>>) = 1
      /\ <<x>>[1] = x /\ <<p>>[1] = p
  OBVIOUS
<1> DEFINE c == <<x>>
           m == <<p>>
<1> HIDE DEF c, m
<1>2. Flow(c, m, 1, last)
  BY <1>1 DEF Flow, c, m
<1>3. Flowing(c, m, last)
  BY <1>1, <1>2 DEF Flowing, c, m
<1>4. <<x>> \in Seq(Instructions) /\ <<p>> \in Seq(Meanings)
  OBVIOUS
<1> QED
  BY <1>3, <1>4 DEF c, m

\* A condition and the jump after it.
LEMMA TestFlows ==
  ASSUME NEW x \in Instructions, NEW y \in Instructions, NEW p \in Meanings, NEW q \in Meanings,
         x.op = "eqi", y.op = "jt", p.falls # <<>>, p.falls[1].id = x.id,
         p.falls[1].op = "if" \/ (p.falls[1].op = "loop" /\ p.falls[1].tested),
         q = Fork(p.falls[1], Tail(p.falls))
  PROVE  /\ Flowing(<<x, y>>, <<p, q>>, q.falls)
         /\ <<x, y>> \in Seq(Instructions) /\ <<p, q>> \in Seq(Meanings)
<1> DEFINE c == <<x, y>>
           m == <<p, q>>
<1>1. /\ DOMAIN c = {1, 2} /\ Len(c) = 2 /\ Len(m) = 2
      /\ c[1] = x /\ c[2] = y /\ m[1] = p /\ m[2] = q
  OBVIOUS
<1>2. c \in Seq(Instructions) /\ m \in Seq(Meanings)
  OBVIOUS
<1> HIDE DEF c, m
<1>3. 1 + 1 = 2 /\ 2 - 1 = 1 /\ 1 \in DOMAIN c /\ 2 \in DOMAIN c
  BY <1>1
<1>4. Flow(c, m, 1, m[2].falls)
  BY <1>1, <1>3 DEF Flow
<1>5. Flow(c, m, 2, q.falls)
  BY <1>1, <1>3 DEF Flow
<1>6. Flowing(c, m, q.falls)
  BY <1>1, <1>3, <1>4, <1>5 DEF Flowing
<1> QED
  BY <1>2, <1>6 DEF c, m

\* A jump and the label after it.
LEMMA JumpFlows ==
  ASSUME NEW l \in Nat, NEW p \in Meanings, NEW q \in Meanings
  PROVE  /\ Flowing(<<Jump(l), Label>>, <<p, q>>, q.falls)
         /\ <<Jump(l), Label>> \in Seq(Instructions) /\ <<p, q>> \in Seq(Meanings)
<1> DEFINE x == Jump(l)
           y == Label
           c == <<x, y>>
           m == <<p, q>>
<1>0. x \in Instructions /\ x.op = "j" /\ y \in Instructions /\ y.op = "label"
  BY EmittedJump, EmittedLabel
<1> HIDE DEF x, y
<1>1. /\ DOMAIN c = {1, 2} /\ Len(c) = 2 /\ Len(m) = 2
      /\ c[1] = x /\ c[2] = y /\ m[1] = p /\ m[2] = q
  OBVIOUS
<1>2. c \in Seq(Instructions) /\ m \in Seq(Meanings)
  BY <1>0
<1> HIDE DEF c, m
<1>3. Flow(c, m, 1, m[1 + 1].falls)
  BY <1>0, <1>1 DEF Flow
<1>4. Flow(c, m, 2, q.falls)
  BY <1>0, <1>1 DEF Flow
<1>5. Flowing(c, m, q.falls)
  BY <1>1, <1>3, <1>4 DEF Flowing
<1> QED
  BY <1>2, <1>5 DEF c, m, x, y

-----------------------------------------------------------------------------
(***************************************************************************)
(* The generator's steps.                                                  *)
(***************************************************************************)

\* New instructions whose jumps have no target, or one in the code there is.
Lands(new, added) ==
  \A i \in DOMAIN new :
    /\ IsJump(new[i]) /\ new[i].target # 0 =>
         new[i].target \in DOMAIN means /\ means[new[i].target].falls = added[i].jumps
    /\ new[i].op = "j" => added[i].jumps = added[i].falls

\* They are appended, and the target of a jump may be set to one of them.
Grown(code2, new, added) ==
  \/ code2 = code \o new
  \/ \E jump \in Nat : \E j \in DOMAIN new :
       /\ code2 = SetTarget(code \o new, jump, Len(code) + j)
       /\ jump # 0 => jump \in DOMAIN means /\ means[jump].jumps = added[j].falls

\* Code that flows, after the code there is.
LEMMA CodeGrows ==
  ASSUME RInv,
         NEW new \in Seq(Instructions), NEW added \in Seq(Meanings), NEW last,
         new # <<>>, Flowing(new, added, last), added[1].falls = Ahead,
         Lands(new, added), NEW code2, Grown(code2, new, added)
  PROVE  /\ means \o added \in Seq(Meanings) /\ code2 # <<>>
         /\ Flowing(code2, means \o added, last)
         /\ (means \o added)[1].falls = Whole(body)
         /\ Landing(code2, means \o added)
         /\ Promised(means \o added, work)
<1> DEFINE d == code \o new
           e == means \o added
<1>1. /\ code \in Seq(Instructions) /\ means \in Seq(Meanings) /\ work \in Seq(Tasks)
      /\ Closed(code, Held(work)) /\ LabelsAreThere(code, work)
      /\ Flowing(code, means, Ahead) /\ Landing(code, means) /\ Promised(means, work)
      /\ (IF code = <<>> THEN Ahead ELSE means[1].falls) = Whole(body)
  BY DEF RInv, IInv, TypeInv
<1>2. Len(means) = Len(code) /\ Len(added) = Len(new)
  BY <1>1 DEF Flowing
<1>3. d \in Seq(Instructions) /\ Len(d) = Len(code) + Len(new) /\ d # <<>>
  BY <1>1
<1>4. e \in Seq(Meanings) /\ \A i \in DOMAIN means : e[i] = means[i]
  BY <1>1
<1>5. \A j \in DOMAIN new : Len(code) + j \in Nat /\ e[Len(code) + j] = added[j]
  BY <1>1, <1>2
<1>6. e[1].falls = Whole(body)
  <2>1. CASE code = <<>>
    <3>1. 1 \in DOMAIN new /\ Len(code) + 1 = 1
      BY <1>2, <2>1
    <3> QED
      BY <1>1, <1>5, <2>1, <3>1
  <2>2. CASE code # <<>>
    <3>1. 1 \in DOMAIN means
      BY <1>1, <1>2, <2>2
    <3> HIDE DEF e
    <3> QED
      BY <1>1, <1>4, <2>2, <3>1
  <2> QED
    BY <2>1, <2>2
<1>7. Flowing(d, e, last)
  BY <1>1, FlowOn
<1>8. Landing(d, e)
  BY <1>1, <1>2, LandOn DEF Lands
<1>9. Promised(e, work)
  BY <1>1, <1>2, PromiseOn
<1> HIDE DEF d, e
<1>10. CASE code2 = d
  BY <1>3, <1>4, <1>6, <1>7, <1>8, <1>9, <1>10 DEF e
<1>11. ASSUME NEW jump \in Nat, NEW j \in DOMAIN new,
              code2 = SetTarget(d, jump, Len(code) + j),
              jump # 0 => jump \in DOMAIN means /\ means[jump].jumps = added[j].falls
       PROVE  code2 # <<>> /\ Flowing(code2, e, last) /\ Landing(code2, e)
  <2> DEFINE l == Len(code) + j
  <2>1. l \in Nat /\ e[l] = added[j]
    BY <1>5
  <2> HIDE DEF l
  <2>2. code2 = SetTarget(d, jump, l)
    BY <1>11 DEF l
  <2>3. jump \in DOMAIN d => e[l].falls = e[jump].jumps
    <3>1. 0 \notin DOMAIN d
      BY <1>3
    <3> QED
      BY <1>4, <1>11, <2>1, <3>1
  <2>4. DOMAIN code2 = DOMAIN d
    BY <1>3, <2>1, <2>2, SetIs
  <2>5. code2 # <<>>
    BY <1>3, <2>4
  <2>6. Flowing(code2, e, last)
    BY <1>3, <1>7, <2>1, <2>2, FlowSet
  <2>7. Landing(code2, e)
    BY <1>3, <1>8, <2>1, <2>2, <2>3, LandSet
  <2> QED
    BY <2>5, <2>6, <2>7
<1> QED
  BY <1>4, <1>6, <1>9, <1>10, <1>11 DEF d, e, Grown

\* A step that goes on with tasks that lead where its own led.
LEMMA TakesLeads ==
  ASSUME RInv, NEW step, NEW next \in Seq(Tasks), Takes(step, next),
         Leads(next, Open(Top.rest))
  PROVE  /\ work \in Seq(Tasks) /\ work # <<>> /\ Top = work[1] /\ Ahead = Point(Top)
         /\ Promised(means, work) /\ phase = "generate" /\ pc = 1 /\ effect = Nothing
         /\ work' = next \o Tail(work)
         /\ body' = body /\ phase' = phase /\ pc' = pc /\ effect' = effect
         /\ Leads(work', <<Default>>)
         /\ First(work', <<Default>>) = First(next, Open(Top.rest))
<1>1. /\ work # <<>> /\ phase = "generate" /\ work' = next \o Tail(work)
      /\ body' = body /\ phase' = phase /\ pc' = pc /\ effect' = effect
  BY DEF Takes, run_vars
<1>2. /\ work \in Seq(Tasks) /\ Leads(work, <<Default>>) /\ Top = work[1]
      /\ Promised(means, work) /\ pc = 1 /\ effect = Nothing
  <2>1. work \in Seq(Tasks)
    BY DEF RInv, IInv, TypeInv
  <2>2. Leads(work, <<Default>>) /\ Promised(means, work) /\ pc = 1 /\ effect = Nothing
    BY <1>1 DEF RInv
  <2> QED
    BY <2>1, <2>2 DEF Top
<1>3. Ahead = Point(Top)
  BY <1>1, <1>2 DEF Ahead, First
<1>4. /\ Leads(work', <<Default>>)
      /\ First(work', <<Default>>) = First(next, Open(Top.rest))
  <2> DEFINE tail == Tail(work)
             end == <<Default>>
  <2>1. tail \in Seq(Tasks) /\ Leads(tail, end) /\ First(tail, end) = Open(Top.rest)
    BY <1>1, <1>2, LeadsAfter
  <2>2. work' = next \o tail
    BY <1>1
  <2> HIDE DEF tail, end
  <2>3. Leads(next, First(tail, end))
    BY <2>1
  <2>4. Leads(next \o tail, end) /\ First(next \o tail, end) = First(next, First(tail, end))
    BY <2>1, <2>3, LeadsOn
  <2> QED
    BY <2>1, <2>2, <2>4 DEF end
<1> QED
  BY <1>1, <1>2, <1>3, <1>4

\* A step that emits code and goes on with tasks that lead where its own led.
LEMMA TakesFlow ==
  ASSUME RInv, IInv', NEW step, NEW next \in Seq(Tasks), Takes(step, next),
         NEW new \in Seq(Instructions), NEW added \in Seq(Meanings),
         new # <<>>, Leads(next, Open(Top.rest)),
         Flowing(new, added, First(next, Open(Top.rest))), added[1].falls = Point(Top),
         Lands(new, added), Promised(means \o added, next), means' = means \o added,
         \/ code' = code \o new
         \/ \E j \in DOMAIN new :
              /\ code' = SetTarget(code \o new, Top.jump, Len(code) + j)
              /\ added[j].falls = Exit(Top)
  PROVE  RInv'
<1>1. /\ work \in Seq(Tasks) /\ work # <<>> /\ Top = work[1]
      /\ Promised(means, work) /\ phase = "generate" /\ pc = 1 /\ effect = Nothing
      /\ work' = next \o Tail(work)
      /\ body' = body /\ phase' = phase /\ pc' = pc /\ effect' = effect
  BY TakesLeads
<1>2. Ahead = Point(Top)
  BY TakesLeads
<1>4. /\ Leads(work', <<Default>>)
      /\ First(work', <<Default>>) = First(next, Open(Top.rest))
  BY TakesLeads
<1>5. 1 \in DOMAIN work /\ Top \in Tasks /\ Top.jump \in Nat
  <2>1. 1 \in DOMAIN work /\ Top \in Tasks
    BY <1>1
  <2> QED
    BY <2>1 DEF Tasks
<1>6. Top.jump # 0 => Top.jump \in DOMAIN means /\ means[Top.jump].jumps = Exit(Top)
  BY <1>1, <1>5 DEF Promised
<1> DEFINE last == First(next, Open(Top.rest))
<1>7. Grown(code', new, added)
  <2>1. code' = code \o new => Grown(code', new, added)
    BY DEF Grown
  <2>2. ASSUME NEW j \in DOMAIN new, code' = SetTarget(code \o new, Top.jump, Len(code) + j),
               added[j].falls = Exit(Top)
        PROVE  \E jump \in Nat : \E i \in DOMAIN new :
                 /\ code' = SetTarget(code \o new, jump, Len(code) + i)
                 /\ jump # 0 => jump \in DOMAIN means /\ means[jump].jumps = added[i].falls
    <3> USE <1>5
    <3> WITNESS Top.jump \in Nat
    <3> WITNESS j \in DOMAIN new
    <3> QED
      BY <1>6, <2>2
  <2> QED
    BY <2>1, <2>2 DEF Grown
<1>8. Flowing(new, added, last) /\ added[1].falls = Ahead
  BY <1>2
<1> HIDE DEF last
<1>9. /\ means' \in Seq(Meanings) /\ code' # <<>>
      /\ Flowing(code', means', last)
      /\ means'[1].falls = Whole(body)
      /\ Landing(code', means')
      /\ Promised(means', work)
  <2> DEFINE code2 == code'
  <2>1. Grown(code2, new, added)
    BY <1>7
  <2> HIDE DEF code2
  <2>2. /\ means \o added \in Seq(Meanings) /\ code2 # <<>>
        /\ Flowing(code2, means \o added, last)
        /\ (means \o added)[1].falls = Whole(body)
        /\ Landing(code2, means \o added)
        /\ Promised(means \o added, work)
    BY <1>8, <2>1, CodeGrows
  <2> QED
    BY <2>2 DEF code2
<1>10. Promised(means', work')
  BY <1>1, <1>9, PromiseNext
<1>11. Flowing(code', means', Ahead')
  BY <1>4, <1>9 DEF Ahead, last
<1> QED
  BY <1>1, <1>4, <1>9, <1>10, <1>11 DEF RInv

\* The tasks of a block promise nothing.
LEMMA WalkPromises ==
  ASSUME NEW block \in Seq(Statement), NEW rest \in Seq(AnyStatement), NEW m
  PROVE  Promised(m, Walk(block, rest))
<1>1. \A k \in DOMAIN Walk(block, rest) :
        Walk(block, rest)[k].step # "end_for" /\ Walk(block, rest)[k].jump = 0
  <2>1. \A k \in DOMAIN Walk(block, rest) : Walk(block, rest)[k].step # "end_for"
    BY WalkTasks
  <2>2. \A k \in DOMAIN Walk(block, rest) : Walk(block, rest)[k].jump = 0
    BY DEF Walk, Task
  <2> QED
    BY <2>1, <2>2
<1> QED
  BY <1>1 DEF Promised

\* Two blocks.
LEMMA PromiseBoth ==
  ASSUME NEW v \in Seq(Tasks), NEW w \in Seq(Tasks), NEW m, Promised(m, v), Promised(m, w)
  PROVE  Promised(m, v \o w)
<1> DEFINE n == v \o w
<1>1. \A k \in DOMAIN n : \/ k \in DOMAIN v /\ n[k] = v[k]
                          \/ k - Len(v) \in DOMAIN w /\ n[k] = w[k - Len(v)]
  OBVIOUS
<1> HIDE DEF n
<1> QED
  BY <1>1 DEF Promised, n

\* Blocks, and then a task.
LEMMA PromiseThen ==
  ASSUME NEW w \in Seq(Tasks), NEW t \in Tasks, NEW m, Promised(m, w),
         t.jump # 0 => t.jump \in DOMAIN m /\ m[t.jump].jumps = Exit(t),
         t.step = "end_for" => m[t.label].falls = <<Loop(t.node)>> \o t.rest
  PROVE  Promised(m, w \o <<t>>)
<1> DEFINE n == w \o <<t>>
<1>1. \A k \in DOMAIN n : (k \in DOMAIN w /\ n[k] = w[k]) \/ n[k] = t
  OBVIOUS
<1> HIDE DEF n
<1> QED
  BY <1>1 DEF Promised, n

\* What the activation that takes a step is about to do.
LEMMA TopIs ==
  ASSUME RInv, NEW step, NEW next, Takes(step, next)
  PROVE  /\ Top \in Tasks /\ Top.step = step /\ StepFits(Top) /\ Top.jump \in Nat
         /\ Top.node \in Statement /\ Top.rest \in Seq(AnyStatement)
         /\ code \in Seq(Instructions) /\ means \in Seq(Meanings)
         /\ Len(means) = Len(code) /\ Here = Len(code) /\ Here \in Nat
         /\ step \in {"else", "end_if"} => Point(Top) = Open(Top.rest)
         /\ step \in {"loop", "end_for"} => Point(Top) = <<Loop(Top.node)>> \o Top.rest
         /\ step \in {"do", "return", "if"} => Point(Top) = <<Top.node>> \o Top.rest
         /\ step = "for" => Point(Top) = Open(Top.node.init \o (<<Loop(Top.node)>> \o Top.rest))
<1>1. /\ Top \in Tasks /\ Top.step = step /\ StepFits(Top)
      /\ code \in Seq(Instructions) /\ Here \in Nat
  BY TopFits DEF RInv
<1>2. means \in Seq(Meanings) /\ Len(means) = Len(code)
  BY DEF RInv, Flowing
<1>3. Top.node \in Statement /\ Top.rest \in Seq(AnyStatement) /\ Top.jump \in Nat
  BY <1>1 DEF Tasks
<1>4. step \in {"else", "end_if"} => Point(Top) = Open(Top.rest)
  BY <1>1 DEF Point
<1>5. step \in {"loop", "end_for"} => Point(Top) = <<Loop(Top.node)>> \o Top.rest
  BY <1>1 DEF Point
<1>6. step \in {"do", "return", "if"} => Point(Top) = <<Top.node>> \o Top.rest
  <2> SUFFICES ASSUME step \in {"do", "return", "if"}
               PROVE  Point(Top) = <<Top.node>> \o Top.rest
    OBVIOUS
  <2>1. Point(Top) = Open(<<Top.node>> \o Top.rest) /\ Top.node.op # "for"
    BY <1>1 DEF Point, StepFits
  <2> QED
    BY <1>3, <2>1, OpenFirst
<1>7. step = "for" => Point(Top) = Open(Top.node.init \o (<<Loop(Top.node)>> \o Top.rest))
  <2> SUFFICES ASSUME step = "for"
               PROVE  Point(Top) = Open(Top.node.init \o (<<Loop(Top.node)>> \o Top.rest))
    OBVIOUS
  <2>1. Point(Top) = Open(<<Top.node>> \o Top.rest) /\ Top.node.op = "for"
    BY <1>1 DEF Point, StepFits
  <2> QED
    BY <1>3, <2>1, OpenFirst
<1> QED
  BY <1>1, <1>2, <1>3, <1>4, <1>5, <1>6, <1>7 DEF Here

\* New instructions without targets.
LEMMA LandsWithout ==
  ASSUME NEW new \in Seq(Instructions), NEW added,
         \A i \in DOMAIN new :
           IsJump(new[i]) =>
             new[i].target = 0 /\ (added[i].jumps = added[i].falls \/ new[i].op = "jt")
  PROVE  Lands(new, added)
BY DEF Lands, IsJump

\* What is added is there.
LEMMA AddedAt ==
  ASSUME NEW m \in Seq(Meanings), NEW added \in Seq(Meanings)
  PROVE  \A j \in 1 .. Len(added) :
           Len(m) + j \in DOMAIN (m \o added) /\ (m \o added)[Len(m) + j] = added[j]
<1> TAKE j \in 1 .. Len(added)
<1>1. Len(m) \in Nat /\ Len(added) \in Nat
  OBVIOUS
<1> QED
  BY <1>1, ConcatProperties

\* Blocks that lead to a task that leads on.
LEMMA LeadsThen ==
  ASSUME NEW w \in Seq(Tasks), NEW t \in Tasks, NEW last,
         Leads(w, Point(t)), Open(t.rest) = last
  PROVE  /\ w \o <<t>> \in Seq(Tasks)
         /\ Leads(w \o <<t>>, last) /\ First(w \o <<t>>, last) = First(w, Point(t))
<1> DEFINE one == <<t>>
<1>1. Leads(one, last) /\ First(one, last) = Point(t) /\ one \in Seq(Tasks)
  BY LeadsOne
<1> HIDE DEF one
<1>2. Leads(w, First(one, last))
  BY <1>1
<1>3. Leads(w \o one, last) /\ First(w \o one, last) = First(w, First(one, last))
  BY <1>1, <1>2, LeadsOn
<1>4. w \o one \in Seq(Tasks)
  BY <1>1
<1> QED
  BY <1>1, <1>3, <1>4 DEF one

\* A call, an assignment, a return.
LEMMA GenDoFlow == RInv /\ IInv' /\ (GenDo \/ GenReturn) => RInv'
<1> SUFFICES ASSUME RInv, IInv', NEW step, NEW op, Takes(step, <<>>),
                    (step = "do" /\ op = "do") \/ (step = "return" /\ op = "ret"),
                    code' = Append(code, Ins(op, Top.node.id)),
                    means' = Append(means, At(<<Top.node>> \o Top.rest))
             PROVE  RInv'
  BY DEF GenDo, GenReturn
<1> DEFINE left == <<Top.node>> \o Top.rest
           x == Ins(op, Top.node.id)
           p == At(left)
           last == First(<<>>, Open(Top.rest))
<1>1. /\ Top.node \in Statement /\ Top.rest \in Seq(AnyStatement) /\ Point(Top) = left
      /\ code \in Seq(Instructions) /\ means \in Seq(Meanings)
      /\ Top.step = step /\ StepFits(Top)
  BY TopIs
<1>2. left \in Seq(AnyStatement) /\ left # <<>> /\ left[1] = Top.node /\ Tail(left) = Top.rest
  BY <1>1, Kinds, FirstOf
<1>3. x \in Instructions /\ x.op = op /\ x.id = Top.node.id /\ ~IsJump(x)
  <2>1. Top.node.id \in Ids
    BY <1>1, Named
  <2>2. x \in Instructions /\ x.op = op /\ ~IsJump(x)
    BY <2>1, Emitted
  <2> QED
    BY <2>2 DEF Ins
<1>4. p \in Meanings /\ p.falls = left
  BY <1>2, MeaningOf
<1>5. Top.node.op = step
  BY <1>1 DEF StepFits
<1>6. last = Open(Top.rest) /\ Leads(<<>>, Open(Top.rest))
  BY LeadsNone
<1>7. code' = Append(code, x) /\ means' = Append(means, p)
  OBVIOUS
<1> HIDE DEF left, x, p, last
<1>8. Flowing(<<x>>, <<p>>, last) /\ <<x>> \in Seq(Instructions) /\ <<p>> \in Seq(Meanings)
  BY <1>2, <1>3, <1>4, <1>5, <1>6, OneFlows
<1> DEFINE new == <<x>>
           added == <<p>>
<1>9. /\ code' = code \o new /\ means' = means \o added /\ new # <<>>
      /\ added[1] = p /\ \A i \in DOMAIN new : ~IsJump(new[i])
  <2>1. code' = code \o new /\ means' = means \o added
    BY <1>1, <1>3, <1>4, <1>7, AppendIsConcat
  <2>2. \A i \in DOMAIN new : new[i] = x
    OBVIOUS
  <2>3. new # <<>> /\ added[1] = p
    OBVIOUS
  <2> HIDE DEF new, added
  <2> QED
    BY <1>3, <2>1, <2>2, <2>3
<1>10. new \in Seq(Instructions) /\ added \in Seq(Meanings) /\ Flowing(new, added, last)
  BY <1>8
<1> HIDE DEF new, added
<1>11. Lands(new, added)
  BY <1>9, <1>10, LandsWithout
<1>12. Promised(means \o added, <<>>) /\ <<>> \in Seq(Tasks)
  BY DEF Promised
<1>13. Flowing(new, added, First(<<>>, Open(Top.rest)))
  BY <1>10 DEF last
<1>14. added[1].falls = Point(Top)
  BY <1>1, <1>4, <1>9
<1> QED
  BY <1>6, <1>9, <1>10, <1>11, <1>12, <1>13, <1>14, TakesFlow

\* The condition of an IF.
LEMMA GenIfFlow == RInv /\ IInv' /\ GenIf => RInv'
<1> SUFFICES ASSUME RInv, IInv', GenIf PROVE RInv'
  OBVIOUS
<1> DEFINE s == Top.node
           rest == Top.rest
           left == <<s>> \o rest
           w == Walk(s.then, rest)
           t == Task("else", s, Here + 2, 0, rest)
           next == w \o <<t>>
           x == Ins("eqi", s.id)
           y == Ins("jt", "")
           p == At(left)
           q == Fork(s, rest)
           new == <<x, y>>
           added == <<p, q>>
<1>1. Takes("if", next) /\ code' = code \o new /\ means' = means \o added
  BY DEF GenIf
<1>2. /\ s \in Statement /\ rest \in Seq(AnyStatement) /\ Point(Top) = left
      /\ code \in Seq(Instructions) /\ means \in Seq(Meanings)
      /\ Top.step = "if" /\ StepFits(Top) /\ Len(means) = Len(code) /\ Here = Len(code)
      /\ Here \in Nat
  BY <1>1, TopIs
<1>3. /\ s.op = "if" /\ s.then \in Seq(Statement) /\ s.else \in Seq(Statement) /\ s.id \in Ids
  BY <1>2, BodiesAssumption, Named DEF StepFits
<1>4. left \in Seq(AnyStatement) /\ left # <<>> /\ left[1] = s /\ Tail(left) = rest
  BY <1>2, Kinds, FirstOf
<1>5. /\ Chosen(s, "true", rest) = Open(s.then \o rest)
      /\ Chosen(s, "false", rest) = Open(s.else \o rest)
      /\ Open(s.then \o rest) \in Seq(AnyStatement) /\ Open(s.else \o rest) \in Seq(AnyStatement)
  BY <1>2, <1>3, ChosenIs, OpenIs
<1>6. /\ x \in Instructions /\ x.op = "eqi" /\ x.id = s.id /\ ~IsJump(x)
      /\ y \in Instructions /\ y.op = "jt" /\ y.target = 0
  <2>1. x \in Instructions /\ x.op = "eqi" /\ ~IsJump(x)
    BY <1>3, Emitted
  <2>2. y \in Instructions /\ y.op = "jt" /\ y.target = 0
    BY Named, Emitted
  <2> QED
    BY <2>1, <2>2 DEF Ins
<1>7. /\ p \in Meanings /\ p.falls = left
      /\ q \in Meanings /\ q.falls = Open(s.then \o rest) /\ q.jumps = Open(s.else \o rest)
  <2>1. p \in Meanings /\ p.falls = left
    BY <1>4, MeaningOf
  <2>2. q.falls = Open(s.then \o rest) /\ q.jumps = Open(s.else \o rest)
    BY <1>5, MeaningOf
  <2>3. q \in Meanings
    BY <1>5 DEF Fork, Meanings
  <2> QED
    BY <2>1, <2>2, <2>3
<1>8. /\ t \in Tasks /\ t.step = "else" /\ t.jump = Here + 2 /\ t.rest = rest /\ t.node = s
      /\ Point(t) = Open(rest) /\ Exit(t) = Open(s.else \o rest)
  <2>1. t \in Tasks /\ t.step = "else" /\ t.jump = Here + 2 /\ t.rest = rest /\ t.node = s
    BY <1>2 DEF Task, Tasks, Steps
  <2> QED
    BY <2>1 DEF Point, Exit
<1>9. /\ w \in Seq(Tasks) /\ Leads(w, Open(rest)) /\ First(w, Open(rest)) = Open(s.then \o rest)
      /\ \A m : Promised(m, w)
  BY <1>2, <1>3, WalkTasks, WalkLeads, WalkPromises
<1>10. q = Fork(left[1], Tail(left))
  BY <1>4
<1> HIDE DEF w, t, x, y, p, q, left
<1>11. Flowing(new, added, q.falls) /\ new \in Seq(Instructions) /\ added \in Seq(Meanings)
  BY <1>3, <1>4, <1>6, <1>7, <1>10, TestFlows
<1>12. /\ next \in Seq(Tasks) /\ Leads(next, Open(rest)) /\ First(next, Open(rest)) = q.falls
  BY <1>7, <1>8, <1>9, LeadsThen
<1>13. /\ new # <<>> /\ added[1] = p /\ added[2] = q /\ Len(added) = 2 /\ Len(new) = 2
       /\ \A i \in DOMAIN new : IsJump(new[i]) => new[i].op = "jt" /\ new[i].target = 0
  <2>1. \A i \in DOMAIN new : new[i] = x \/ new[i] = y
    BY <1>6, Two
  <2>2. new # <<>> /\ added[1] = p /\ added[2] = q /\ Len(added) = 2 /\ Len(new) = 2
    OBVIOUS
  <2> HIDE DEF new
  <2> QED
    BY <1>6, <2>1, <2>2
<1> HIDE DEF new, added
<1>14. Lands(new, added)
  BY <1>11, <1>13, LandsWithout
<1>15. Here + 2 \in DOMAIN (means \o added) /\ (means \o added)[Here + 2] = q
  <2>1. 2 \in 1 .. Len(added) /\ Len(means) + 2 = Here + 2
    BY <1>2, <1>13
  <2>2. Len(means) + 2 \in DOMAIN (means \o added) /\ (means \o added)[Len(means) + 2] = added[2]
    BY <1>2, <1>11, <2>1, AddedAt
  <2> QED
    BY <1>13, <2>1, <2>2
<1>16. Promised(means \o added, next)
  BY <1>7, <1>8, <1>9, <1>15, PromiseThen
<1> HIDE DEF next
<1>17. added[1].falls = Point(Top)
  BY <1>2, <1>7, <1>13
<1> QED
  BY <1>1, <1>11, <1>12, <1>13, <1>14, <1>16, <1>17, TakesFlow

\* Between the blocks of an IF.
LEMMA GenElseFlow == RInv /\ IInv' /\ GenElse => RInv'
<1> SUFFICES ASSUME RInv, IInv', GenElse PROVE RInv'
  OBVIOUS
<1> DEFINE s == Top.node
           rest == Top.rest
           w == Walk(s.else, rest)
           t == Task("end_if", s, Here + 1, 0, rest)
           next == w \o <<t>>
           left == Open(s.else \o rest)
           p == At(Open(rest))
           q == At(left)
           x == Jump(0)
           new == <<x, Label>>
           added == <<p, q>>
<1>1. /\ Takes("else", next) /\ means' = means \o added
      /\ code' = SetTarget(code \o new, Top.jump, Here + 2)
  BY DEF GenElse
<1>2. /\ s \in Statement /\ rest \in Seq(AnyStatement) /\ Point(Top) = Open(rest)
      /\ code \in Seq(Instructions) /\ means \in Seq(Meanings)
      /\ Top.step = "else" /\ StepFits(Top) /\ Len(means) = Len(code) /\ Here = Len(code)
      /\ Here \in Nat
  BY <1>1, TopIs
<1>3. s.op = "if" /\ s.else \in Seq(Statement) /\ Exit(Top) = left
  BY <1>2, BodiesAssumption DEF StepFits, Exit
<1>4. left \in Seq(AnyStatement) /\ Open(rest) \in Seq(AnyStatement)
  BY <1>2, <1>3, ChosenIs, OpenIs
<1>5. /\ p \in Meanings /\ p.falls = Open(rest) /\ p.jumps = Open(rest)
      /\ q \in Meanings /\ q.falls = left
  BY <1>4, MeaningOf
<1>6. /\ t \in Tasks /\ t.step = "end_if" /\ t.jump = Here + 1 /\ t.rest = rest
      /\ Point(t) = Open(rest) /\ Exit(t) = Open(rest)
  <2>1. t \in Tasks /\ t.step = "end_if" /\ t.jump = Here + 1 /\ t.rest = rest
    BY <1>2 DEF Task, Tasks, Steps
  <2> QED
    BY <2>1 DEF Point, Exit
<1>7. /\ w \in Seq(Tasks) /\ Leads(w, Open(rest)) /\ First(w, Open(rest)) = left
      /\ \A m : Promised(m, w)
  BY <1>2, <1>3, WalkTasks, WalkLeads, WalkPromises
<1>8. /\ x.target = 0 /\ Flowing(new, added, q.falls)
      /\ new \in Seq(Instructions) /\ added \in Seq(Meanings)
  BY <1>5, EmittedJump, JumpFlows
<1> HIDE DEF w, t, x, p, q, left
<1>9. /\ next \in Seq(Tasks) /\ Leads(next, Open(rest)) /\ First(next, Open(rest)) = q.falls
  BY <1>5, <1>6, <1>7, LeadsThen
<1>10. /\ new # <<>> /\ added[1] = p /\ added[2] = q /\ Len(added) = 2 /\ 2 \in DOMAIN new
       /\ new[1] = x /\ new[2] = Label /\ DOMAIN new = {1, 2}
  OBVIOUS
<1> HIDE DEF new, added
<1>11. Lands(new, added)
  BY <1>5, <1>8, <1>10, EmittedLabel, LandsWithout
<1>12. Here + 1 \in DOMAIN (means \o added) /\ (means \o added)[Here + 1] = p
  <2>1. 1 \in 1 .. Len(added) /\ Len(means) + 1 = Here + 1
    BY <1>2, <1>10
  <2>2. Len(means) + 1 \in DOMAIN (means \o added) /\ (means \o added)[Len(means) + 1] = added[1]
    BY <1>2, <1>8, <2>1, AddedAt
  <2> QED
    BY <1>10, <2>1, <2>2
<1>13. Promised(means \o added, next)
  BY <1>5, <1>6, <1>7, <1>12, PromiseThen
<1> HIDE DEF next
<1>14. added[1].falls = Point(Top) /\ added[2].falls = Exit(Top)
  BY <1>2, <1>3, <1>5, <1>10
<1>15. /\ code' = SetTarget(code \o new, Top.jump, Len(code) + 2)
       /\ Flowing(new, added, First(next, Open(Top.rest)))
  BY <1>1, <1>2, <1>8, <1>9
<1> QED
  BY <1>1, <1>8, <1>9, <1>10, <1>11, <1>13, <1>14, <1>15, TakesFlow

\* A label flows on to what is left at it.
LEMMA LabelFlows ==
  ASSUME NEW left \in Seq(AnyStatement)
  PROVE  /\ Flowing(<<Label>>, <<At(left)>>, left)
         /\ <<Label>> \in Seq(Instructions) /\ <<At(left)>> \in Seq(Meanings)
<1> DEFINE p == At(left)
           y == Label
<1>1. p \in Meanings /\ p.falls = left /\ y \in Instructions /\ y.op = "label"
  BY MeaningOf, EmittedLabel
<1> HIDE DEF p, y
<1>2. /\ Flowing(<<y>>, <<p>>, left)
      /\ <<y>> \in Seq(Instructions) /\ <<p>> \in Seq(Meanings)
  BY <1>1, OneFlows
<1> QED
  BY <1>2 DEF p, y

\* The end of an IF.
LEMMA GenEndIfFlow == RInv /\ IInv' /\ GenEndIf => RInv'
<1> SUFFICES ASSUME RInv, IInv', GenEndIf PROVE RInv'
  OBVIOUS
<1> DEFINE left == Open(Top.rest)
           p == At(left)
           y == Label
           new == <<y>>
           added == <<p>>
<1>1. /\ Takes("end_if", <<>>) /\ means' = Append(means, p)
      /\ code' = SetTarget(Append(code, y), Top.jump, Here + 1)
  BY DEF GenEndIf
<1>2. /\ Top.rest \in Seq(AnyStatement) /\ Point(Top) = left
      /\ code \in Seq(Instructions) /\ means \in Seq(Meanings)
      /\ Top.step = "end_if" /\ Here = Len(code)
  BY <1>1, TopIs
<1>3. left \in Seq(AnyStatement) /\ Exit(Top) = left
  BY <1>2, OpenIs DEF Exit
<1>4. p \in Meanings /\ p.falls = left /\ y \in Instructions /\ y.op = "label" /\ ~IsJump(y)
  BY <1>3, MeaningOf, EmittedLabel
<1>5. /\ Flowing(new, added, left)
      /\ new \in Seq(Instructions) /\ added \in Seq(Meanings)
  BY <1>3, LabelFlows
<1> HIDE DEF p, y, left
<1>6. means' = means \o added /\ code' = SetTarget(code \o new, Top.jump, Here + 1)
  BY <1>1, <1>2, <1>4, AppendIsConcat
<1>7. new # <<>> /\ added[1] = p /\ DOMAIN new = {1} /\ new[1] = y
  OBVIOUS
<1> HIDE DEF new, added
<1>8. Lands(new, added)
  BY <1>4, <1>5, <1>7, LandsWithout
<1>9. Promised(means \o added, <<>>) /\ <<>> \in Seq(Tasks)
  BY DEF Promised
<1>10. Leads(<<>>, Open(Top.rest)) /\ First(<<>>, Open(Top.rest)) = left
  BY LeadsNone DEF left
<1>11. added[1].falls = Point(Top) /\ added[1].falls = Exit(Top)
  BY <1>2, <1>3, <1>4, <1>7
<1>12. /\ code' = SetTarget(code \o new, Top.jump, Len(code) + 1)
       /\ Flowing(new, added, First(<<>>, Open(Top.rest)))
  BY <1>2, <1>5, <1>6, <1>10
<1> QED
  BY <1>1, <1>5, <1>6, <1>7, <1>8, <1>9, <1>10, <1>11, <1>12, TakesFlow

\* The init of a FOR: no instruction yet.
LEMMA GenForFlow == RInv /\ IInv' /\ GenFor => RInv'
<1> SUFFICES ASSUME RInv, IInv', GenFor PROVE RInv'
  OBVIOUS
<1> DEFINE s == Top.node
           rest == Top.rest
           again == <<Loop(s)>> \o rest
           w == Walk(s.init, again)
           t == Task("loop", s, 0, 0, rest)
           next == w \o <<t>>
<1>1. Takes("for", next) /\ code' = code /\ means' = means
  BY DEF GenFor
<1>2. /\ s \in Statement /\ rest \in Seq(AnyStatement)
      /\ Point(Top) = Open(s.init \o again) /\ Top.step = "for" /\ StepFits(Top)
  BY <1>1, TopIs
<1>3. s.op = "for" /\ s.init \in Seq(Statement)
  BY <1>2, BodiesAssumption DEF StepFits
<1>4. again \in Seq(AnyStatement) /\ Open(again) = again
  BY <1>2, LoopAgain, OpenFirst
<1>5. /\ t \in Tasks /\ t.step = "loop" /\ t.jump = 0 /\ t.rest = rest /\ Point(t) = again
  <2>1. t \in Tasks /\ t.step = "loop" /\ t.jump = 0 /\ t.rest = rest /\ t.node = s
    BY <1>2 DEF Task, Tasks, Steps
  <2> QED
    BY <2>1 DEF Point
<1>6. /\ w \in Seq(Tasks) /\ Leads(w, again) /\ First(w, again) = Point(Top)
      /\ \A m : Promised(m, w)
  BY <1>2, <1>3, <1>4, WalkTasks, WalkLeads, WalkPromises
<1> HIDE DEF w, t, again
<1>7. /\ next \in Seq(Tasks) /\ Leads(next, Open(rest)) /\ First(next, Open(rest)) = Point(Top)
  BY <1>5, <1>6, LeadsThen
<1>8. Promised(means, next)
  BY <1>5, <1>6, PromiseThen
<1> HIDE DEF next
<1>9. /\ work \in Seq(Tasks) /\ work # <<>> /\ Ahead = Point(Top)
      /\ Promised(means, work) /\ phase = "generate" /\ pc = 1 /\ effect = Nothing
      /\ work' = next \o Tail(work)
      /\ body' = body /\ phase' = phase /\ pc' = pc /\ effect' = effect
      /\ Leads(work', <<Default>>)
      /\ First(work', <<Default>>) = Point(Top)
  BY <1>1, <1>7, TakesLeads
<1>10. Ahead' = Ahead
  BY <1>9 DEF Ahead
<1>11. Promised(means', work')
  BY <1>1, <1>7, <1>8, <1>9, PromiseNext
<1>12. /\ means \in Seq(Meanings) /\ Flowing(code, means, Ahead) /\ Landing(code, means)
       /\ (IF code = <<>> THEN Ahead ELSE means[1].falls) = Whole(body)
  BY DEF RInv
<1>13. /\ Flowing(code', means', Ahead') /\ Landing(code', means')
       /\ (IF code' = <<>> THEN Ahead' ELSE means'[1].falls) = Whole(body')
       /\ means' \in Seq(Meanings)
  BY <1>1, <1>9, <1>10, <1>12
<1> HIDE DEF Ahead
<1> QED
  BY <1>9, <1>11, <1>13 DEF RInv

\* The default return, at the end.
LEMMA GenEndFlow == RInv /\ IInv' /\ GenEnd => RInv'
<1> SUFFICES ASSUME RInv, IInv', GenEnd PROVE RInv'
  OBVIOUS
<1> DEFINE left == <<Default>>
           x == Ins("ret", Default.id)
           p == At(left)
           new == <<x>>
           added == <<p>>
<1>1. /\ work = <<>> /\ work' = work /\ body' = body /\ phase' = "run" /\ pc' = pc
      /\ pc = 1 /\ means' = Append(means, p) /\ code' = Append(code, x)
  BY DEF GenEnd, run_vars, RInv
<1>2. left \in Seq(AnyStatement) /\ left # <<>> /\ left[1] = Default
  BY Kinds
<1>3. /\ p \in Meanings /\ p.falls = left /\ x \in Instructions /\ x.op = "ret"
      /\ x.id = Default.id /\ ~IsJump(x)
  <2>1. p \in Meanings /\ p.falls = left /\ x \in Instructions /\ x.op = "ret" /\ ~IsJump(x)
    BY <1>2, MeaningOf, Named, Emitted
  <2> QED
    BY <2>1 DEF Ins
<1>4. code \in Seq(Instructions) /\ means \in Seq(Meanings)
  BY DEF RInv, IInv, TypeInv
<1>5. Ahead = left /\ Ahead' = left
  BY <1>1 DEF Ahead, First
<1> HIDE DEF x, p, left
<1>6. means' = means \o added /\ code' = code \o new
  BY <1>1, <1>3, <1>4, AppendIsConcat
<1>7. /\ Flowing(new, added, left)
      /\ new \in Seq(Instructions) /\ added \in Seq(Meanings)
  BY <1>2, <1>3, Kinds, OneFlows
<1>8. new # <<>> /\ added[1] = p /\ DOMAIN new = {1} /\ new[1] = x /\ Len(new) = 1
  OBVIOUS
<1> HIDE DEF new, added
<1>9. Lands(new, added)
  BY <1>3, <1>7, <1>8, LandsWithout
<1>10. Grown(code', new, added)
  BY <1>6 DEF Grown
<1>11. added[1].falls = Ahead
  BY <1>3, <1>5, <1>8
<1>12. /\ means' \in Seq(Meanings) /\ code' # <<>>
       /\ Flowing(code', means', left)
       /\ means'[1].falls = Whole(body)
       /\ Landing(code', means')
       /\ Promised(means', work)
  <2> DEFINE code2 == code'
  <2>1. Grown(code2, new, added)
    BY <1>10
  <2> HIDE DEF code2
  <2>2. /\ means \o added \in Seq(Meanings) /\ code2 # <<>>
        /\ Flowing(code2, means \o added, left)
        /\ (means \o added)[1].falls = Whole(body)
        /\ Landing(code2, means \o added)
        /\ Promised(means \o added, work)
    BY <1>7, <1>8, <1>9, <1>11, <2>1, CodeGrows
  <2> QED
    BY <1>6, <2>2 DEF code2
<1>13. code'[Len(code')] = x /\ pc' \in DOMAIN code'
  BY <1>1, <1>3, <1>4
<1>14. Leads(work', <<Default>>)
  BY <1>1, LeadsNone
<1>15. Flowing(code', means', Ahead') /\ Promised(means', work')
  BY <1>1, <1>5, <1>12
<1> HIDE DEF Ahead
<1> QED
  BY <1>1, <1>3, <1>12, <1>13, <1>14, <1>15 DEF RInv

\* One before two.
LEMMA OneAndTwo ==
  ASSUME NEW S, NEW x \in S, NEW y \in S, NEW z \in S
  PROVE  <<x>> \o <<y, z>> = <<x, y, z>>
<1>1. /\ <<x>> \o <<y, z>> \in Seq(S) /\ Len(<<x>> \o <<y, z>>) = 3
      /\ <<x, y, z>> \in Seq(S) /\ Len(<<x, y, z>>) = 3
  OBVIOUS
<1>2. \A i \in 1 .. 3 : (<<x>> \o <<y, z>>)[i] = <<x, y, z>>[i]
  OBVIOUS
<1> QED
  BY <1>1, <1>2, SeqEqual

\* The top of a loop.
LEMMA GenLoopFlow == RInv /\ IInv' /\ GenLoop => RInv'
<1> SUFFICES ASSUME RInv, IInv', GenLoop PROVE RInv'
  OBVIOUS
<1> DEFINE s == Top.node
           rest == Top.rest
           again == <<Loop(s)>> \o rest
           first == Walk(s.body, s.update \o again)
           second == Walk(s.update, again)
           w == first \o second
           t == Task("end_for", s, IF s.tested THEN Here + 3 ELSE 0, Here + 1, rest)
           next == w \o <<t>>
           round == Open(s.body \o (s.update \o again))
           x == Ins("eqi", s.id)
           y == Ins("jt", "")
           p == At(again)
           q == Fork(Loop(s), rest)
           new == IF s.tested THEN <<Label, x, y>> ELSE <<Label>>
           added == IF s.tested THEN <<p, p, q>> ELSE <<p>>
<1>1. Takes("loop", next) /\ code' = code \o new /\ means' = means \o added
  BY DEF GenLoop
<1>2. /\ s \in Statement /\ rest \in Seq(AnyStatement) /\ Point(Top) = again
      /\ code \in Seq(Instructions) /\ means \in Seq(Meanings)
      /\ Top.step = "loop" /\ StepFits(Top) /\ Len(means) = Len(code) /\ Here = Len(code)
      /\ Here \in Nat
  BY <1>1, TopIs
<1>3. /\ s.op = "for" /\ s.body \in Seq(Statement) /\ s.update \in Seq(Statement)
      /\ s.tested \in BOOLEAN /\ s.id \in Ids
  BY <1>2, BodiesAssumption, Named DEF StepFits
<1>4. /\ again \in Seq(AnyStatement) /\ Open(again) = again /\ again # <<>>
      /\ again[1] = Loop(s) /\ Tail(again) = rest
  BY <1>2, Kinds, FirstOf, OpenFirst
<1>5. /\ Chosen(Loop(s), "true", rest) = round /\ Chosen(Loop(s), "false", rest) = Open(rest)
      /\ s.update \o again \in Seq(AnyStatement)
      /\ round \in Seq(AnyStatement) /\ Open(rest) \in Seq(AnyStatement)
  BY <1>2, <1>3, ChosenIs, OpenIs
<1>6. /\ x \in Instructions /\ x.op = "eqi" /\ x.id = s.id /\ ~IsJump(x)
      /\ y \in Instructions /\ y.op = "jt" /\ y.target = 0
  <2>1. x \in Instructions /\ x.op = "eqi" /\ ~IsJump(x)
    BY <1>3, Emitted
  <2>2. y \in Instructions /\ y.op = "jt" /\ y.target = 0
    BY Named, Emitted
  <2> QED
    BY <2>1, <2>2 DEF Ins
<1>7. /\ p \in Meanings /\ p.falls = again
      /\ q \in Meanings /\ q.falls = round /\ q.jumps = Open(rest)
  <2>1. p \in Meanings /\ p.falls = again
    BY <1>4, MeaningOf
  <2>2. q.falls = round /\ q.jumps = Open(rest)
    BY <1>5, MeaningOf
  <2>3. q \in Meanings
    BY <1>5 DEF Fork, Meanings
  <2> QED
    BY <2>1, <2>2, <2>3
<1>8. /\ t \in Tasks /\ t.step = "end_for" /\ t.rest = rest /\ t.node = s
      /\ t.label = Here + 1 /\ t.jump = IF s.tested THEN Here + 3 ELSE 0
      /\ Point(t) = again /\ Exit(t) = Open(rest)
  <2>1. /\ t \in Tasks /\ t.step = "end_for" /\ t.rest = rest /\ t.node = s
        /\ t.label = Here + 1 /\ t.jump = IF s.tested THEN Here + 3 ELSE 0
    BY <1>2, <1>3 DEF Task, Tasks, Steps
  <2> QED
    BY <2>1 DEF Point, Exit
<1>9. /\ w \in Seq(Tasks) /\ Leads(w, again) /\ First(w, again) = round
      /\ \A m : Promised(m, w)
  <2>1. /\ first \in Seq(Tasks) /\ second \in Seq(Tasks)
    BY <1>3, <1>4, <1>5, WalkTasks
  <2>2. /\ Leads(second, again) /\ First(second, again) = Open(s.update \o again)
    BY <1>3, <1>4, WalkLeads
  <2>3. /\ Leads(first, Open(s.update \o again))
        /\ First(first, Open(s.update \o again)) = round
    BY <1>3, <1>5, WalkLeads
  <2>4. \A m : Promised(m, first) /\ Promised(m, second)
    BY <1>3, <1>4, <1>5, WalkPromises
  <2> HIDE DEF first, second, round, again
  <2>5. Leads(w, again) /\ First(w, again) = round
    BY <2>1, <2>2, <2>3, LeadsOn
  <2>6. \A m : Promised(m, w)
    BY <2>1, <2>4, PromiseBoth
  <2>7. w \in Seq(Tasks)
    BY <2>1
  <2> QED
    BY <2>5, <2>6, <2>7
<1>10. s.tested => q = Fork(again[1], Tail(again)) /\ again[1].op = "loop" /\ again[1].tested
                     /\ again[1].id = x.id
  BY <1>2, <1>4, <1>6, Kinds
<1>11. ~s.tested => again[1].op = "loop" /\ ~again[1].tested
                      /\ round = Chosen(again[1], "true", Tail(again))
  BY <1>2, <1>4, <1>5, Kinds
<1>12. Flowing(<<Label>>, <<p>>, again)
  BY <1>4, LabelFlows
<1> DEFINE z == Label
<1>13. z \in Instructions /\ z.op = "label" /\ ~IsJump(z)
  BY EmittedLabel
<1>14. Flowing(<<z>>, <<p>>, again)
  BY <1>12
<1> HIDE DEF w, t, x, y, z, p, q, again, round
<1>15. /\ new \in Seq(Instructions) /\ added \in Seq(Meanings) /\ Flowing(new, added, round)
       /\ new # <<>> /\ added[1] = p /\ Len(added) = Len(new) /\ Len(new) \in Nat \ {0}
       /\ s.tested => added[3] = q /\ Len(new) = 3
       /\ \A i \in DOMAIN new : IsJump(new[i]) => new[i].op = "jt" /\ new[i].target = 0
  <2>1. CASE s.tested
    <3> DEFINE a == <<z>>
               b == <<x, y>>
               ma == <<p>>
               mb == <<p, q>>
    <3>1. new = <<z, x, y>> /\ added = <<p, p, q>>
      BY <2>1 DEF z
    <3>2. a \o b = <<z, x, y>> /\ ma \o mb = <<p, p, q>>
      BY <1>6, <1>7, <1>13, OneAndTwo
    <3>3. /\ a \in Seq(Instructions) /\ b \in Seq(Instructions)
          /\ ma \in Seq(Meanings) /\ mb \in Seq(Meanings) /\ b # <<>> /\ mb[1] = p
      BY <1>6, <1>7, <1>13
    <3>4. Flowing(b, mb, q.falls)
      BY <1>4, <1>6, <1>7, <1>10, <2>1, TestFlows
    <3>5. Flowing(a, ma, mb[1].falls)
      BY <1>7, <1>14, <3>3
    <3>6. /\ Len(<<z, x, y>>) = 3 /\ Len(<<p, p, q>>) = 3
          /\ <<p, p, q>>[1] = p /\ <<p, p, q>>[3] = q
      OBVIOUS
    <3>7. \A i \in DOMAIN <<z, x, y>> : <<z, x, y>>[i] \in {z, x, y}
      BY <1>6, <1>13, Three
    <3> HIDE DEF a, b, ma, mb, new, added
    <3>8. Flowing(a \o b, ma \o mb, q.falls)
      BY <3>3, <3>4, <3>5, FlowOn
    <3>9. new \in Seq(Instructions) /\ added \in Seq(Meanings)
      <4>1. a \o b \in Seq(Instructions) /\ ma \o mb \in Seq(Meanings)
        BY <3>3
      <4> QED
        BY <3>1, <3>2, <4>1
    <3> QED
      BY <1>6, <1>7, <1>13, <3>1, <3>2, <3>6, <3>7, <3>8, <3>9
  <2>2. CASE ~s.tested
    <3>1. new = <<z>> /\ added = <<p>>
      BY <2>2 DEF z
    <3>2. /\ Flowing(<<z>>, <<p>>, round)
          /\ <<z>> \in Seq(Instructions) /\ <<p>> \in Seq(Meanings)
      BY <1>4, <1>7, <1>11, <1>13, <2>2, OneFlows
    <3>3. /\ Len(<<z>>) = 1 /\ Len(<<p>>) = 1 /\ <<p>>[1] = p /\ <<z>> # <<>>
      OBVIOUS
    <3>4. \A i \in DOMAIN <<z>> : <<z>>[i] = z
      OBVIOUS
    <3> HIDE DEF new, added
    <3> QED
      BY <1>13, <2>2, <3>1, <3>2, <3>3, <3>4
  <2> QED
    BY <2>1, <2>2
<1> HIDE DEF new, added
<1>16. /\ next \in Seq(Tasks) /\ Leads(next, Open(rest)) /\ First(next, Open(rest)) = round
  BY <1>8, <1>9, LeadsThen
<1>17. Lands(new, added)
  BY <1>15, LandsWithout
<1>18. /\ \A j \in 1 .. Len(added) :
            Here + j \in DOMAIN (means \o added) /\ (means \o added)[Here + j] = added[j]
  BY <1>2, <1>15, AddedAt
<1>19. (means \o added)[Here + 1] = p
  <2>1. 1 \in 1 .. Len(added)
    BY <1>15
  <2> QED
    BY <1>15, <1>18, <2>1
<1>20. s.tested => Here + 3 \in DOMAIN (means \o added) /\ (means \o added)[Here + 3] = q
  <2>1. s.tested => 3 \in 1 .. Len(added)
    BY <1>15
  <2> QED
    BY <1>15, <1>18, <2>1
<1>21. Promised(means \o added, next)
  <2>1. t.jump # 0 => s.tested /\ t.jump = Here + 3
    BY <1>8
  <2>2. <<Loop(t.node)>> \o t.rest = again
    BY <1>8 DEF again
  <2> QED
    BY <1>7, <1>8, <1>9, <1>19, <1>20, <2>1, <2>2, PromiseThen
<1> HIDE DEF next
<1>22. added[1].falls = Point(Top)
  BY <1>2, <1>7, <1>15
<1>23. Flowing(new, added, First(next, Open(Top.rest)))
  BY <1>15, <1>16
<1> QED
  BY <1>1, <1>15, <1>16, <1>17, <1>21, <1>22, <1>23, TakesFlow

\* The end of a loop.
LEMMA GenEndForFlow == RInv /\ IInv' /\ GenEndFor => RInv'
<1> SUFFICES ASSUME RInv, IInv', GenEndFor PROVE RInv'
  OBVIOUS
<1> DEFINE rest == Top.rest
           again == <<Loop(Top.node)>> \o rest
           p == At(again)
           q == At(Open(rest))
           x == Jump(Top.label)
<1>1. Takes("end_for", <<>>)
  BY DEF GenEndFor
<1>2. /\ Top.node \in Statement /\ rest \in Seq(AnyStatement) /\ Point(Top) = again
      /\ code \in Seq(Instructions) /\ means \in Seq(Meanings) /\ Top.step = "end_for"
      /\ Len(means) = Len(code) /\ Here = Len(code)
  BY <1>1, TopIs
<1>3. Top.label \in Nat \ {0} /\ Top.label \in DOMAIN means /\ means[Top.label].falls = again
  <2>1. IsLabel(code, Top.label)
    BY <1>1, TopFits DEF RInv
  <2>2. Promised(means, work) /\ Top = work[1] /\ 1 \in DOMAIN work
    <3>1. work \in Seq(Tasks) /\ work # <<>> /\ Promised(means, work)
      BY <1>1 DEF RInv, IInv, TypeInv, Takes
    <3> QED
      BY <3>1 DEF Top
  <2>3. means[Top.label].falls = again
    BY <1>2, <2>2 DEF Promised
  <2> HIDE DEF again
  <2> QED
    BY <1>2, <2>1, <2>3 DEF IsLabel
<1>4. again \in Seq(AnyStatement) /\ Open(rest) \in Seq(AnyStatement) /\ Exit(Top) = Open(rest)
  BY <1>2, LoopAgain, OpenIs DEF Exit
<1>5. /\ p \in Meanings /\ p.falls = again /\ p.jumps = again
      /\ q \in Meanings /\ q.falls = Open(rest) /\ q.jumps = Open(rest)
  BY <1>4, MeaningOf
<1>6. x \in Instructions /\ x.op = "j" /\ x.target = Top.label
  BY <1>3, EmittedJump
<1>7. Leads(<<>>, Open(rest)) /\ First(<<>>, Open(rest)) = q.falls
  BY <1>5, LeadsNone
<1>8. <<>> \in Seq(Tasks) /\ \A m : Promised(m, <<>>)
  BY DEF Promised
<1>9. CASE Top.jump = 0
  <2> DEFINE new == <<x>>
             added == <<p>>
  <2>1. code' = Append(code, x) /\ means' = Append(means, p)
    BY <1>9 DEF GenEndFor
  <2> HIDE DEF x, p, q, again
  <2>2. code' = code \o new /\ means' = means \o added
    BY <1>2, <1>5, <1>6, <2>1, AppendIsConcat
  <2>3. /\ Flowing(new, added, q.falls)
        /\ new \in Seq(Instructions) /\ added \in Seq(Meanings)
    BY <1>5, <1>6, OneFlows
  <2>4. new # <<>> /\ added[1] = p /\ DOMAIN new = {1} /\ new[1] = x
    OBVIOUS
  <2> HIDE DEF new, added
  <2>5. Lands(new, added)
    BY <1>3, <1>5, <1>6, <2>4 DEF Lands
  <2>6. added[1].falls = Point(Top)
    BY <1>2, <1>5, <2>4
  <2>7. Flowing(new, added, First(<<>>, Open(Top.rest)))
    BY <1>7, <2>3
  <2> QED
    BY <1>1, <1>7, <1>8, <2>2, <2>3, <2>4, <2>5, <2>6, <2>7, TakesFlow
<1>10. CASE Top.jump # 0
  <2> DEFINE new == <<x, Label>>
             added == <<p, q>>
  <2>1. code' = SetTarget(code \o new, Top.jump, Here + 2) /\ means' = means \o added
    BY <1>10 DEF GenEndFor
  <2>2. /\ Flowing(new, added, q.falls)
        /\ new \in Seq(Instructions) /\ added \in Seq(Meanings)
    BY <1>3, <1>5, JumpFlows
  <2> HIDE DEF x, p, q, again
  <2>3. /\ new # <<>> /\ added[1] = p /\ added[2] = q /\ DOMAIN new = {1, 2}
        /\ new[1] = x /\ new[2] = Label
    OBVIOUS
  <2> HIDE DEF new, added
  <2>4. Lands(new, added)
    BY <1>3, <1>5, <1>6, <2>3, EmittedLabel DEF Lands
  <2>5. added[1].falls = Point(Top) /\ added[2].falls = Exit(Top)
    BY <1>2, <1>4, <1>5, <2>3
  <2>6. /\ code' = SetTarget(code \o new, Top.jump, Len(code) + 2) /\ 2 \in DOMAIN new
        /\ Flowing(new, added, First(<<>>, Open(Top.rest)))
    BY <1>2, <1>7, <2>1, <2>2, <2>3
  <2> QED
    BY <1>1, <1>7, <1>8, <2>1, <2>2, <2>3, <2>4, <2>5, <2>6, TakesFlow
<1> QED
  BY <1>9, <1>10

\* At first the tasks are those of the function's block.
LEMMA InitFlow == Init => RInv
<1> SUFFICES ASSUME Init PROVE RInv
  OBVIOUS
<1> DEFINE end == <<Default>>
<1>1. IInv
  BY InitIInv
<1>2. body \in Seq(Statement) /\ work = Walk(body, end) /\ code = <<>> /\ means = <<>>
        /\ phase = "generate" /\ pc = 1 /\ effect = Nothing
  BY BodiesAssumption DEF Init
<1>3. end \in Seq(AnyStatement) /\ Open(end) = end
  <2>1. end \in Seq(AnyStatement) /\ end # <<>> /\ end[1].op # "for"
    BY Kinds
  <2> QED
    BY <2>1, OpenIs
<1>4. Whole(body) = Open(body \o end)
  BY DEF Whole
<1>5. end = <<Default>>
  OBVIOUS
<1> HIDE DEF end
<1>6. Leads(work, end) /\ First(work, end) = Whole(body) /\ Promised(means, work)
  BY <1>2, <1>3, <1>4, WalkLeads, WalkPromises
<1>7. Ahead = Whole(body)
  BY <1>5, <1>6 DEF Ahead
<1>8. means \in Seq(Meanings) /\ Len(means) = Len(code) /\ DOMAIN code = {}
  BY <1>2
<1>9. Flowing(code, means, Ahead) /\ Landing(code, means)
  BY <1>8 DEF Flowing, Landing
<1> QED
  BY <1>1, <1>2, <1>5, <1>6, <1>7, <1>8, <1>9 DEF RInv

-----------------------------------------------------------------------------
(***************************************************************************)
(* The function runs.                                                      *)
(***************************************************************************)

\* A run is inside the code, does not run off its end, and jumps to labels;
\* before a conditional jump there is a condition.
LEMMA RunsOn ==
  ASSUME RInv, phase = "run"
  PROVE  /\ pc \in DOMAIN code /\ pc \in Nat /\ DOMAIN code = 1 .. Len(code) /\ Len(code) \in Nat
         /\ code[pc].op \in {"do", "ret", "eqi", "jt", "j", "label"}
         /\ code[pc].op = "ret" =>
              \E next : Flow(code, means, pc, next)
         /\ code[pc].op # "ret" =>
              /\ pc + 1 \in DOMAIN code
              /\ Flow(code, means, pc, means[pc + 1].falls)
              /\ code[pc + 1].op = "jt" => code[pc].op = "eqi"
         /\ IsJump(code[pc]) =>
              /\ IsLabel(code, code[pc].target)
              /\ means[code[pc].target].falls = means[pc].jumps
         /\ code[pc].op = "j" => means[pc].jumps = means[pc].falls
<1>1. /\ pc \in DOMAIN code /\ code[Len(code)].op = "ret" /\ work = <<>>
      /\ code \in Seq(Instructions) /\ Closed(code, Held(work))
      /\ Flowing(code, means, Ahead) /\ Landing(code, means)
  BY DEF RInv, IInv, TypeInv
<1>2. pc \in Nat /\ DOMAIN code = 1 .. Len(code) /\ Len(code) \in Nat
  BY <1>1
<1>3. code[pc].op \in {"do", "ret", "eqi", "jt", "j", "label"}
  <2>1. code[pc] \in Instructions
    BY <1>1
  <2> QED
    BY <2>1 DEF Instructions
<1>4. \E next : Flow(code, means, pc, next)
  BY <1>1 DEF Flowing
<1>5. ASSUME code[pc].op # "ret"
      PROVE  /\ pc + 1 \in DOMAIN code
             /\ Flow(code, means, pc, means[pc + 1].falls)
             /\ code[pc + 1].op = "jt" => code[pc].op = "eqi"
  <2>1. pc # Len(code)
    BY <1>1, <1>5
  <2>2. pc + 1 \in DOMAIN code
    BY <1>1, <1>2, <2>1
  <2>3. Flow(code, means, pc, means[pc + 1].falls)
    BY <1>1, <2>1 DEF Flowing
  <2>4. \E next : Flow(code, means, pc + 1, next)
    BY <1>1, <2>2 DEF Flowing
  <2>5. (pc + 1) - 1 = pc
    BY <1>2
  <2>6. code[pc + 1].op = "jt" => code[pc].op = "eqi"
    BY <2>4, <2>5 DEF Flow
  <2> QED
    BY <2>2, <2>3, <2>6
<1>6. IsJump(code[pc]) =>
        /\ IsLabel(code, code[pc].target)
        /\ means[code[pc].target].falls = means[pc].jumps
  <2>1. Held(work) = {}
    BY <1>1 DEF Held
  <2>2. IsJump(code[pc]) => code[pc].target # 0 /\ IsLabel(code, code[pc].target)
    BY <1>1, <2>1 DEF Closed
  <2> QED
    BY <1>1, <2>2 DEF Landing
<1>7. code[pc].op = "j" => means[pc].jumps = means[pc].falls
  BY <1>1 DEF Landing
<1> QED
  BY <1>1, <1>2, <1>3, <1>4, <1>5, <1>6, <1>7

\* The run changes no code.
LEMMA RunFlow == RInv /\ (Run \/ UNCHANGED vars) => RInv'
<1> SUFFICES ASSUME RInv, Run \/ UNCHANGED vars PROVE RInv'
  OBVIOUS
<1>1. IInv'
  BY QuietStep DEF RInv
<1>2. code' = code /\ means' = means /\ work' = work /\ body' = body
  BY DEF Run, Runs, RunDo, RunReturn, RunEqi, RunJt, RunJ, RunLabel, vars, gen_vars
<1>3. /\ phase' = "generate" => pc' = 1 /\ effect' = Nothing
      /\ phase' = "run" => pc' \in DOMAIN code' /\ code'[Len(code')].op = "ret"
  <2>1. CASE UNCHANGED vars
    BY <2>1 DEF RInv, vars, run_vars, gen_vars
  <2>2. CASE Run
    <3>1. phase = "run" /\ phase' \in {"run", "returned"}
      BY <2>2 DEF Run, Runs, RunDo, RunReturn, RunEqi, RunJt, RunJ, RunLabel
    <3>2. code[Len(code)].op = "ret"
      BY <3>1 DEF RInv
    <3>3. pc' \in DOMAIN code
      <4>1. RunReturn => pc' = pc
        BY DEF RunReturn
      <4>2. (RunDo \/ RunEqi \/ RunLabel) => pc' = pc + 1 /\ code[pc].op # "ret"
        BY DEF RunDo, RunEqi, RunLabel, Runs
      <4>3. (RunJt \/ RunJ) => IsJump(code[pc]) /\ code[pc].op # "ret"
                                  /\ pc' \in {pc + 1, code[pc].target}
        BY DEF RunJt, RunJ, Runs, IsJump
      <4>4. IsJump(code[pc]) => code[pc].target \in DOMAIN code
        BY <3>1, RunsOn DEF IsLabel
      <4>5. pc \in DOMAIN code /\ (code[pc].op # "ret" => pc + 1 \in DOMAIN code)
        BY <3>1, RunsOn
      <4> QED
        BY <2>2, <4>1, <4>2, <4>3, <4>4, <4>5 DEF Run
    <3> QED
      BY <1>2, <3>1, <3>2, <3>3
  <2> QED
    BY <2>1, <2>2
<1>4. Ahead' = Ahead
  BY <1>2 DEF Ahead
<1>5. /\ means \in Seq(Meanings) /\ Leads(work, <<Default>>)
      /\ Flowing(code, means, Ahead) /\ Landing(code, means) /\ Promised(means, work)
      /\ (IF code = <<>> THEN Ahead ELSE means[1].falls) = Whole(body)
  BY DEF RInv
<1>6. /\ means' \in Seq(Meanings) /\ Leads(work', <<Default>>)
      /\ Flowing(code', means', Ahead') /\ Landing(code', means') /\ Promised(means', work')
      /\ (IF code' = <<>> THEN Ahead' ELSE means'[1].falls) = Whole(body')
  BY <1>2, <1>4, <1>5
<1> HIDE DEF Ahead
<1> QED
  BY <1>1, <1>3, <1>6 DEF RInv

-----------------------------------------------------------------------------
(***************************************************************************)
(* Steps of the code as steps of the statements.                           *)
(***************************************************************************)

\* Both modules say it with the words of Statements.
LEMMA SameWords ==
  /\ \A e, id, out : Meaning!After(e, id, out) = After(e, id, out)
  /\ Meaning!Nothing = Nothing
  /\ \A left : Meaning!Open(left) = Open(left)
  /\ \A block : Meaning!Whole(block) = Whole(block)
  /\ \A s, out, rest : Meaning!Chosen(s, out, rest) = Chosen(s, out, rest)
<1>1. \A left : Meaning!Open(left) = Open(left)
  BY DEF Meaning!Open, Open, Meaning!Loop, Loop
<1>2. \A block : Meaning!Whole(block) = Whole(block)
  BY <1>1 DEF Meaning!Whole, Whole, Meaning!Default, Default
<1>3. \A s, out, rest : Meaning!Chosen(s, out, rest) = Chosen(s, out, rest)
  BY <1>1 DEF Meaning!Chosen, Chosen
<1>4. \A e, id, out : Meaning!After(e, id, out) = After(e, id, out)
  BY DEF Meaning!After, After
<1>5. Meaning!Nothing = Nothing
  BY DEF Meaning!Nothing, Nothing
<1> QED
  BY <1>1, <1>2, <1>3, <1>4, <1>5

\* What is left while the function runs.
LEMMA LeftIs ==
  ASSUME phase = "run"
  PROVE  /\ code[pc].op # "jt" => Left = means[pc].falls
         /\ code[pc].op = "jt" =>
              Left = IF is_zero THEN means[pc].jumps ELSE means[pc].falls
BY DEF Left

LEMMA LeftNext ==
  ASSUME phase' = "run", code' = code, means' = means
  PROVE  /\ code[pc'].op # "jt" => Left' = means[pc'].falls
         /\ code[pc'].op = "jt" =>
              Left' = IF is_zero' THEN means[pc'].jumps ELSE means[pc'].falls
BY DEF Left

\* A call, an assignment; a return.
LEMMA DoMeans == RInv /\ RunDo => Meaning!Next
<1> SUFFICES ASSUME RInv, RunDo PROVE Meaning!Next
  OBVIOUS
<1>1. /\ phase = "run" /\ phase' = "run" /\ code[pc].op = "do" /\ pc' = pc + 1
      /\ code' = code /\ means' = means /\ body' = body
      /\ effect' = After(effect, code[pc].id, "done")
  BY DEF RunDo, Runs, gen_vars
<1>2. /\ Flow(code, means, pc, means[pc + 1].falls) /\ code[pc + 1].op # "jt"
  BY <1>1, RunsOn
<1>3. Left = means[pc].falls /\ Left' = means[pc + 1].falls
  BY <1>1, <1>2, LeftIs, LeftNext
<1>4. /\ Left # <<>> /\ Left[1].op = "do" /\ Left[1].id = code[pc].id
      /\ Left' = Open(Tail(Left))
  BY <1>1, <1>2, <1>3 DEF Flow
<1> QED
  BY <1>1, <1>4, SameWords DEF Meaning!Next, Meaning!Do, Meaning!Next1

LEMMA ReturnMeans == RInv /\ RunReturn => Meaning!Next
<1> SUFFICES ASSUME RInv, RunReturn PROVE Meaning!Next
  OBVIOUS
<1>1. /\ phase = "run" /\ phase' = "returned" /\ code[pc].op = "ret" /\ body' = body
      /\ effect' = After(effect, code[pc].id, "return")
  BY DEF RunReturn, Runs
<1>2. \E next : Flow(code, means, pc, next)
  BY <1>1, RunsOn
<1>3. Left = means[pc].falls
  BY <1>1, LeftIs
<1>4. Left # <<>> /\ Left[1].op = "return" /\ Left[1].id = code[pc].id
  BY <1>1, <1>2, <1>3 DEF Flow
<1>5. Left' = <<>>
  BY <1>1 DEF Left
<1> QED
  BY <1>1, <1>4, <1>5, SameWords DEF Meaning!Next, Meaning!Return, Meaning!Next1

\* A condition: the choice is made, and the jump after it only follows.
LEMMA ChooseMeans == RInv /\ RunEqi => Meaning!Next
<1> SUFFICES ASSUME RInv, RunEqi PROVE Meaning!Next
  OBVIOUS
<1>1. /\ phase = "run" /\ phase' = "run" /\ code[pc].op = "eqi" /\ pc' = pc + 1
      /\ code' = code /\ means' = means /\ body' = body
  BY DEF RunEqi, Runs, gen_vars
<1>2. PICK out \in {"true", "false"} :
        effect' = After(effect, code[pc].id, out) /\ is_zero' = (out = "false")
  BY DEF RunEqi
<1>3. Flow(code, means, pc, means[pc + 1].falls)
  BY <1>1, RunsOn
<1>4. Left = means[pc].falls
  BY <1>1, LeftIs
<1>5. /\ Left # <<>> /\ Left[1].id = code[pc].id
      /\ Left[1].op = "if" \/ (Left[1].op = "loop" /\ Left[1].tested)
      /\ code[pc + 1].op = "jt"
      /\ means[pc + 1] = Fork(Left[1], Tail(Left))
  BY <1>1, <1>3, <1>4 DEF Flow
<1>6. Left' = IF is_zero' THEN means[pc + 1].jumps ELSE means[pc + 1].falls
  BY <1>1, <1>5, LeftNext
<1>7. Left' = Chosen(Left[1], out, Tail(Left))
  <2>1. /\ means[pc + 1].falls = Chosen(Left[1], "true", Tail(Left))
        /\ means[pc + 1].jumps = Chosen(Left[1], "false", Tail(Left))
    BY <1>5 DEF Fork
  <2>2. CASE out = "true"
    BY <1>2, <1>6, <2>1, <2>2
  <2>3. CASE out = "false"
    BY <1>2, <1>6, <2>1, <2>3
  <2> QED
    BY <2>2, <2>3
<1>8. Meaning!Choose
  BY <1>2, <1>5, <1>7, SameWords DEF Meaning!Choose, Meaning!Next1
<1> QED
  BY <1>1, <1>5, <1>8 DEF Meaning!Next

LEMMA JtMeans == RInv /\ RunJt => UNCHANGED Meaning!vars
<1> SUFFICES ASSUME RInv, RunJt PROVE UNCHANGED Meaning!vars
  OBVIOUS
<1>1. /\ phase = "run" /\ phase' = "run" /\ code[pc].op = "jt"
      /\ code' = code /\ means' = means /\ body' = body /\ effect' = effect
      /\ pc' = IF is_zero THEN code[pc].target ELSE pc + 1
  BY DEF RunJt, Runs, gen_vars
<1>2. /\ Flow(code, means, pc, means[pc + 1].falls) /\ code[pc + 1].op # "jt"
      /\ IsLabel(code, code[pc].target) /\ means[code[pc].target].falls = means[pc].jumps
  BY <1>1, RunsOn DEF IsJump
<1>3. means[pc + 1].falls = means[pc].falls /\ code[code[pc].target].op # "jt"
  BY <1>1, <1>2 DEF Flow, IsLabel
<1>4. Left' = means[pc'].falls /\ Left = IF is_zero THEN means[pc].jumps ELSE means[pc].falls
  BY <1>1, <1>2, <1>3, LeftIs, LeftNext
<1> QED
  BY <1>1, <1>2, <1>3, <1>4 DEF Meaning!vars

\* A jump leaves what it found, and so does a label, or it goes round a loop.
LEMMA JMeans == RInv /\ RunJ => UNCHANGED Meaning!vars
<1> SUFFICES ASSUME RInv, RunJ PROVE UNCHANGED Meaning!vars
  OBVIOUS
<1>1. /\ phase = "run" /\ phase' = "run" /\ code[pc].op = "j" /\ pc' = code[pc].target
      /\ code' = code /\ means' = means /\ body' = body /\ effect' = effect
  BY DEF RunJ, Runs, gen_vars
<1>2. /\ IsLabel(code, code[pc].target) /\ means[code[pc].target].falls = means[pc].jumps
      /\ means[pc].jumps = means[pc].falls
  BY <1>1, RunsOn DEF IsJump
<1>3. Left' = means[pc'].falls /\ Left = means[pc].falls
  BY <1>1, <1>2, LeftIs, LeftNext DEF IsLabel
<1> QED
  BY <1>1, <1>2, <1>3 DEF Meaning!vars

LEMMA LabelMeans == RInv /\ RunLabel => [Meaning!Next]_(Meaning!vars)
<1> SUFFICES ASSUME RInv, RunLabel PROVE [Meaning!Next]_(Meaning!vars)
  OBVIOUS
<1>1. /\ phase = "run" /\ phase' = "run" /\ code[pc].op = "label" /\ pc' = pc + 1
      /\ code' = code /\ means' = means /\ body' = body /\ effect' = effect
  BY DEF RunLabel, Runs, gen_vars
<1>2. /\ Flow(code, means, pc, means[pc + 1].falls) /\ code[pc + 1].op # "jt"
  BY <1>1, RunsOn
<1>3. Left = means[pc].falls /\ Left' = means[pc + 1].falls
  BY <1>1, <1>2, LeftIs, LeftNext
<1>4. \/ Left' = Left
      \/ /\ Left # <<>> /\ Left[1].op = "loop" /\ ~Left[1].tested
         /\ Left' = Chosen(Left[1], "true", Tail(Left))
  BY <1>1, <1>2, <1>3 DEF Flow
<1> QED
  BY <1>1, <1>4, SameWords DEF Meaning!Next, Meaning!GoRound, Meaning!Next1, Meaning!vars

\* Before it runs, a function has done nothing, and all of it is left.
LEMMA GenerateMeans == RInv /\ RInv' /\ Generate => UNCHANGED Meaning!vars
<1> SUFFICES ASSUME RInv, RInv', Generate PROVE UNCHANGED Meaning!vars
  OBVIOUS
<1>1. /\ phase = "generate" /\ body' = body /\ effect' = effect
      /\ phase' = "generate" \/ GenEnd
  BY DEF Generate, GenDo, GenReturn, GenIf, GenElse, GenEndIf, GenFor, GenLoop,
         GenEndFor, GenEnd, Takes, run_vars
<1>2. Left = Whole(body)
  BY <1>1 DEF Left
<1>3. CASE phase' = "generate"
  BY <1>1, <1>2, <1>3 DEF Left, Meaning!vars
<1>4. CASE GenEnd
  <2>1. phase' = "run" /\ pc' = 1 /\ code' # <<>> /\ code' \in Seq(Instructions)
    <3>1. phase' = "run" /\ pc' = pc /\ pc = 1
      BY <1>1, <1>4 DEF GenEnd, run_vars, RInv
    <3>2. pc' \in DOMAIN code' /\ code' \in Seq(Instructions)
      BY <3>1 DEF RInv, IInv, TypeInv
    <3> QED
      BY <3>1, <3>2
  <2>2. means'[1].falls = Whole(body')
    BY <2>1 DEF RInv
  <2>3. code'[1].op # "jt"
    <3>1. Flowing(code', means', Ahead')
      BY DEF RInv
    <3>2. 1 \in DOMAIN code' /\ 0 \notin DOMAIN code' /\ 1 - 1 = 0
      BY <2>1
    <3>3. \E next : Flow(code', means', 1, next)
      BY <3>1, <3>2 DEF Flowing
    <3> QED
      BY <3>2, <3>3 DEF Flow
  <2>4. Left' = means'[1].falls
    BY <2>1, <2>3 DEF Left
  <2> QED
    BY <1>1, <1>2, <2>2, <2>4 DEF Meaning!vars
<1> QED
  BY <1>1, <1>3, <1>4

\* Every statement of a function, however IF and FOR are nested in it and
\* whatever the conditions come to, is executed as written: the code that the
\* generator emits, with the targets that it sets later, does the same calls,
\* assignments, conditions and returns in the same order and no other
\* (WalkIfStatementChildren, WalkForStatementChildren, WalkFunctionChildren).
THEOREM StatementsAreExecuted == Spec => Meaning!SafeSpec
<1>1. IInv /\ [Next]_vars => IInv'
  BY GenDoStep, GenIfStep, GenElseStep, GenEndIfStep, GenForStep, GenLoopStep,
     GenEndForStep, GenEndStep, QuietStep DEF Next, Generate
<1>2. RInv /\ [Next]_vars => RInv'
  <2>1. RInv => IInv
    BY DEF RInv
  <2> QED
    BY <1>1, <2>1, GenDoFlow, GenIfFlow, GenElseFlow, GenEndIfFlow, GenForFlow, GenLoopFlow,
       GenEndForFlow, GenEndFlow, RunFlow DEF Next, Generate
<1>3. Init => Meaning!Init
  BY SameWords DEF Init, Left, Meaning!Init
<1>4. RInv /\ RInv' /\ [Next]_vars => [Meaning!Next]_(Meaning!vars)
  <2>1. UNCHANGED vars => UNCHANGED Meaning!vars
    BY DEF vars, gen_vars, run_vars, Left, Meaning!vars
  <2> QED
    BY <2>1, DoMeans, ReturnMeans, ChooseMeans, JtMeans, JMeans, LabelMeans, GenerateMeans
    DEF Next, Run
<1> QED
  BY InitFlow, <1>2, <1>3, <1>4, PTL DEF Spec, Meaning!SafeSpec
=============================================================================
