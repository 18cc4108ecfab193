---------------------------- MODULE MCJumpRules ----------------------------
(***************************************************************************)
(* Cases for the bytes and the answers of a jump: what is typed comes out  *)
(* at the other end as it was, however the reads cut it, and a reserve can *)
(* be opened without anybody from what one attended opening was told.      *)
(***************************************************************************)
EXTENDS JumpRules, MCState, TLC

(* A newline, a NUL, the announcing byte, the escape character, a letter,   *)
(* DEL and what DEL is shifted to.                                         *)
Bytes == {10, 0, ESC, Tilde, 65, 127, 191}

BytesScenarios ==
    {[about |-> "bytes", data |-> data, cut |-> cut, escape |-> escape] :
        data \in UNION {[1..n -> Bytes] : n \in 1..3}, cut \in 0..2, escape \in {{}, {Tilde}}}

Asks == {[text |-> "password", right |-> "a"], [text |-> "password", right |-> "b"],
         [text |-> "code", right |-> "a"]}
Hops == UNION {[1..n -> Asks] : n \in 0..2}

AnswerScenarios ==
    {[about |-> "answers", hops |-> <<h1, h2>>, person |-> person, needed |-> needed,
      memory |-> [user |-> user, answers |-> answers]] :
        h1 \in Hops, h2 \in Hops, person \in {"right", "slips"}, needed \in BOOLEAN,
        user \in {"known", "unknown"},
        answers \in {<< >>, "password" :> "a", "password" :> "old", "code" :> "old"}}

(* Cases of any size: the theorem is about these.  An escape character ends *)
(* no line, and somebody is there.                                         *)
GoodBytes(case) ==
    /\ case.data \in Seq(0..255) /\ case.cut \in Nat
    /\ case.escape \in {{}} \cup {{e} : e \in (0..255) \ LineEnds}

GoodAnswers(case) ==
    /\ case.hops \in Seq({case.hops[h] : h \in DOMAIN case.hops})
    /\ \A h \in DOMAIN case.hops :
          /\ case.hops[h] \in Seq({case.hops[h][i] : i \in DOMAIN case.hops[h]})
          /\ \A i \in DOMAIN case.hops[h] : case.hops[h][i].right # "nobody"
    /\ case.person \in {"right", "slips"} /\ case.needed \in BOOLEAN
    /\ case.memory.answers = [t \in DOMAIN case.memory.answers |-> case.memory.answers[t]]

GoodJump(case) ==
    \/ case.about = "bytes" /\ GoodBytes(case)
    \/ case.about = "answers" /\ GoodAnswers(case)

ASSUME JumpsAreGood == \A case \in BytesScenarios \cup AnswerScenarios : GoodJump(case)

(* What is typed for two reads of a connection, either way. *)
TypedFor(case) ==
    LET cut    == IF case.cut < Len(case.data) THEN case.cut ELSE Len(case.data)
        first  == SubSeq(case.data, 1, cut)
        second == SubSeq(case.data, cut + 1, Len(case.data))
        start  == EscapeInto([lineStart |-> TRUE, out |-> << >>], first, case.escape)
    IN  [encoded |-> EncodeInto(first) \o EncodeInto(second),
         escaped |-> EscapeInto(start, second, case.escape).out]

(* The window's opening, and one for the reserve from what it was told. *)
OpeningsOf(case) ==
    LET attended == PrepareOpening(case.memory, case.hops, case.person, case.needed)
        memory   == [user |-> attended.user, answers |-> attended.answers]
    IN  [attended |-> attended,
         reserve  |-> Open(memory, case.hops, "nobody", case.needed)]

CollectBytes == About("bytes") /\ reasons' = TypedFor(cluster)
CollectAnswers == About("answers") /\ reasons' = OpeningsOf(cluster)

JumpSpec ==
    /\ GoodJump(cluster) /\ assessed = FALSE
    /\ [][/\ ~assessed /\ assessed' = TRUE /\ (CollectBytes \/ CollectAnswers)
          /\ UNCHANGED cluster]_<<cluster, reasons, assessed>>

-----------------------------------------------------------------------------
Nothing == [pending |-> FALSE, plain |-> << >>]

(* The relay of the last hop gives back the bytes that were sent, wherever  *)
(* its reads cut them, and no control byte nor escape character is typed   *)
(* on the way but the announcing one.                                      *)
RelayGetsWhatIsSent ==
    Judged("bytes") =>
        LET typed == reasons.encoded
        IN  /\ \A n \in 0..Len(typed) :
                  RelayRead(RelayRead(Nothing, SubSeq(typed, 1, n)), SubSeq(typed, n + 1, Len(typed)))
                    = [pending |-> FALSE, plain |-> cluster.data]
            /\ \A i \in DOMAIN typed : typed[i] = ESC \/ ~Announced(typed[i])

(* ssh forwards the bytes that were sent and takes none for a command, a    *)
(* line that starts at the end of one read included (`line_start`).        *)
SshForwardsWhatIsSent ==
    Judged("bytes") =>
        LET got == Forwarded(reasons.escaped, cluster.escape)
        IN  ~got.pending /\ ~got.killed /\ got.plain = cluster.data

(* An opening somebody attends comes through, whatever was remembered from  *)
(* before: an answer that was wrong is tried once, then asked for.         *)
AttendedComesThrough ==
    Judged("answers") => reasons.attended.opened

(* Which questions are put, by hop and by rank in the hop. *)
Askings == UNION {{<<h, i>> : i \in DOMAIN cluster.hops[h]} : h \in DOMAIN cluster.hops}
Asked(a) == cluster.hops[a[1]][a[2]]

(* The reserve opens without anybody exactly when the hops put no question  *)
(* twice in one step, and none of a text that takes another answer at      *)
(* another hop: a person is asked once for what can be remembered, and     *)
(* only for that (`answered` against `answers` in `wait_ready`).           *)
ReserveOpensAlone ==
    Judged("answers") =>
        (reasons.reserve.opened <=>
            \A a, b \in Askings :
                (a # b /\ Asked(a).text = Asked(b).text) =>
                    (a[1] # b[1] /\ Asked(a).right = Asked(b).right))

(* What is typed at the far end of a jump comes out of it unchanged, by    *)
(* either of its two ways out.                                             *)
RelayIsFaithful == RelayGetsWhatIsSent /\ SshForwardsWhatIsSent

(* The memory of the answers serves the reserve, and never stands in the   *)
(* way of a person who attends.                                            *)
AnswersAreKept == AttendedComesThrough /\ ReserveOpensAlone

(* What crosses a jump is what was sent, by the person and by kdt in the   *)
(* person's place.                                                         *)
JumpsAreFaithful == RelayIsFaithful /\ AnswersAreKept
=============================================================================
