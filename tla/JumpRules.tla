----------------------------- MODULE JumpRules -----------------------------
(***************************************************************************)
(* What a jump types into a terminal, computed from what it is given: the  *)
(* bytes of a connection (src/jump.rs, `encode_into`, `escape_into` and    *)
(* the relay of the last hop) and the answers to the questions of the hops *)
(* (`open`, `account`, `wait_ready`).                                      *)
(*                                                                         *)
(* A byte is a number below 256.  A hop is the sequence of the questions   *)
(* its terminal asks, each [text, right]: the line shown and the answer it *)
(* takes.  A terminal asks again what was answered wrong, `Tries` times.   *)
(***************************************************************************)
EXTENDS Naturals, Sequences

CONSTANT Tries      \* wrong answers a terminal takes before it hangs up

(* One slip is let go. *)
ASSUME TriesAssumption == Tries \in Nat /\ Tries >= 2

(* What becomes of `acc` from one element of a sequence to the next. *)
Along(step(_, _), acc, seq) ==
    LET at[i \in 0..Len(seq)] == IF i = 0 THEN acc ELSE step(at[i - 1], seq[i])
    IN  at[Len(seq)]

ESC == 33
Tilde == 126
LineEnds == {10, 13}

Announced(b) == b < 32 \/ b = ESC \/ b = Tilde \/ b = 127

(* The control bytes, the escape character of ssh and the announcing byte   *)
(* are announced and shifted.                                              *)
Encoded(out, b) == out \o (IF Announced(b) THEN <<ESC, (b + 64) % 256>> ELSE <<b>>)
EncodeInto(data) == Along(Encoded, << >>, data)

(* The relay of the last hop: what one read adds, and the announcing byte   *)
(* that may end it.                                                        *)
Relayed(a, c) ==
    IF a.pending THEN [pending |-> FALSE, plain |-> Append(a.plain, (c + 192) % 256)]
    ELSE IF c = ESC THEN [a EXCEPT !.pending = TRUE]
    ELSE [a EXCEPT !.plain = Append(@, c)]
RelayRead(acc, data) == Along(Relayed, acc, data)

(* An escape character at the start of a line is doubled; `escape` is that  *)
(* character, or nothing, and then nobody looks where a line starts.  Where *)
(* it starts outlives the read.                                            *)
LineStarts(a, b, escape) == IF escape = {} THEN a.lineStart ELSE b \in LineEnds
Escaped(a, b, escape) ==
    [lineStart |-> LineStarts(a, b, escape),
     out |-> a.out \o (IF a.lineStart /\ {b} = escape THEN <<b, b>> ELSE <<b>>)]

(* Mutant of EscapeInto: each read begins as if the line did. *)
EscapeIntoAfresh(acc, data, escape) ==
    Along(LAMBDA a, b : Escaped(a, b, escape), [acc EXCEPT !.lineStart = TRUE], data)

EscapeInto(acc, data, escape) == Along(LAMBDA a, b : Escaped(a, b, escape), acc, data)

(* What ssh forwards of what is typed: doubled, its escape character stands *)
(* for itself; alone at the start of a line it is a command to ssh.        *)
Forward(a, b, escape) ==
    IF a.pending THEN [a EXCEPT !.pending = FALSE, !.lineStart = FALSE,
                                !.killed = @ \/ {b} # escape, !.plain = Append(@, b)]
    ELSE IF a.lineStart /\ {b} = escape THEN [a EXCEPT !.pending = TRUE]
    ELSE [a EXCEPT !.lineStart = LineStarts(a, b, escape), !.plain = Append(@, b)]
Forwarded(typed, escape) ==
    Along(LAMBDA a, b : Forward(a, b, escape),
          [pending |-> FALSE, lineStart |-> TRUE, killed |-> FALSE, plain |-> << >>], typed)

-----------------------------------------------------------------------------
(* The questions *)

(* An opening under way: the answers known (a function of the texts), the   *)
(* texts answered during this step, and whether it goes on.                *)
Begun(answers) == [answers |-> answers, answered |-> {}, ok |-> TRUE]

Forget(answers, text) == [t \in DOMAIN answers \ {text} |-> answers[t]]
Remember(answers, text, typed) ==
    [t \in DOMAIN answers \cup {text} |-> IF t = text THEN typed ELSE answers[t]]

(* The answer to a question: the one remembered, unless it was just given   *)
(* and is asked for again; else the person's, who may not be there.        *)
FromMemory(o, q) == q.text \in DOMAIN o.answers /\ q.text \notin o.answered

Answered(o, q, typed) ==
    IF FromMemory(o, q) THEN [o EXCEPT !.answered = @ \cup {q.text}]
    ELSE IF typed = "nobody" THEN [o EXCEPT !.ok = FALSE, !.answers = Forget(@, q.text)]
    ELSE [o EXCEPT !.answered = @ \cup {q.text}, !.answers = Remember(@, q.text, typed)]

(* What the person types the `n`th time a question is put: nothing without  *)
(* a window or when they give up, a slip at first if they make one.        *)
Typed(person, q, n) ==
    CASE person = "nobody" -> "nobody"
      [] person = "slips" /\ n = 1 -> "slip"
      [] OTHER -> q.right

Right(o, q) == o.answers[q.text] = q.right

(* One question, put until it is answered right or the terminal hangs up. *)
Settle(o, q, person) ==
    LET put(acc, n) == IF ~acc.ok \/ (n > 1 /\ Right(acc, q)) THEN acc
                       ELSE Answered(acc, q, Typed(person, q, n))
        last == Along(put, o, [n \in 1..Tries |-> n])
    IN  [last EXCEPT !.ok = @ /\ Right(last, q)]

(* One step, up to the prompt of a shell: the answers given are new to it. *)
WaitReady(o, hop, person) ==
    Along(LAMBDA acc, q : IF acc.ok THEN Settle(acc, q, person) ELSE acc,
          [o EXCEPT !.answered = {}], hop)

(* The account the next hops are typed with, asked for once. *)
Account(user, person, needed) ==
    IF ~needed \/ user = "known" THEN [ok |-> TRUE, user |-> user]
    ELSE IF person = "nobody" THEN [ok |-> FALSE, user |-> user]
    ELSE [ok |-> TRUE, user |-> "known"]

(* A session opened to its last prompt, or not: the account, then the hops.*)
Open(memory, hops, person, needed) ==
    LET account == Account(memory.user, person, needed)
        reached == Along(LAMBDA o, h : IF o.ok THEN WaitReady(o, h, person) ELSE o,
                         Begun(memory.answers), hops)
    IN  IF ~account.ok
        THEN [answers |-> memory.answers, user |-> account.user, opened |-> FALSE]
        ELSE [answers |-> reached.answers, user |-> account.user, opened |-> reached.ok]

(* The window's opening: failed or abandoned, the account is forgotten. *)
PrepareOpening(memory, hops, person, needed) ==
    LET o == Open(memory, hops, person, needed)
    IN  IF o.opened THEN o ELSE [o EXCEPT !.user = "unknown"]

=============================================================================
