---------------------------- MODULE Views_proofs ----------------------------
(***************************************************************************)
(* What the views of the terminal keep, for any instance: the shell        *)
(* (AppShell: the loops that run are those of the view on screen, and Esc  *)
(* leads home), the detail panels (DetailPanel: the text is that of the    *)
(* row), the Cassandra view (CassandraView: Jobs and restores are those    *)
(* that were asked for) and the analyses (Analysis: what is shown is what  *)
(* was asked last).  Then what is said of copies (MCMedusaRules, with the  *)
(* backups of Velero: the verdicts are those of the references).           *)
(***************************************************************************)
EXTENDS AppShell, DetailPanel, CassandraView, Analysis, MCMedusaRules, FiniteSetTheorems,
        WellFoundedInduction, TLAPS

-----------------------------------------------------------------------------
(***************************************************************************)
(* The shell                                                               *)
(***************************************************************************)

(* What has the keyboard, or has it back once the search prompt is gone.   *)
Top == IF mode = Search THEN searchRet ELSE mode

LogsFrom == {Table("flux"), Full("flux")}
Lit == {Selection, DetailFull, NodeUsage, Diagnostic}

(* The modes whose loops are their own.                                    *)
Plain == Tables \cup Fulls \cup Lit \cup {Extract, FluxLogs}

(* A slot that will be gone back to holds something that can be.           *)
Slots ==
  /\ mode = Command => cmdRet \in Palette
  /\ mode = Search => searchRet \in Prompts
  /\ Top = AiPanel => ret \in Tables \cup Fulls \cup Lit
  /\ Top = FluxLogs => ret \in LogsFrom
  /\ Top = Extract => ret = Selection

On == {h \in Running : loops[h] # None}
Wanted(m) == ViewsOf(m) \cup (IF m = FluxLogs THEN {"flux_logs"} ELSE {})

ShellInv ==
  /\ TypeOK
  /\ Slots
  /\ On = Wanted(Shown)
  /\ LoopReadsScope
  /\ orphans = {}

-----------------------------------------------------------------------------
(* Modes *)

LEMMA Kinds ==
  /\ \A v : Table(v)[1] = "table" /\ Table(v)[2] = v /\ Full(v)[1] = "full" /\ Full(v)[2] = v
  /\ Selection[1] = "selection" /\ DetailFull[1] = "detail" /\ AiPanel[1] = "ai"
  /\ Diagnostic[1] = "diagnostic" /\ Extract[1] = "extract" /\ NodeUsage[1] = "usage"
  /\ FluxLogs[1] = "flux_logs" /\ Command[1] = "command" /\ Search[1] = "search"
  BY DEF Table, Full, Selection, DetailFull, AiPanel, Diagnostic, Extract, NodeUsage, FluxLogs,
         Command, Search

LEMMA PlainFacts ==
  \A m \in Plain : m # AiPanel /\ m # Command /\ m # Search
<1> SUFFICES ASSUME NEW m \in Plain PROVE m # AiPanel /\ m # Command /\ m # Search
  OBVIOUS
<1>1. m[1] \in {"table", "full", "selection", "detail", "usage", "diagnostic", "extract", "flux_logs"}
  BY Kinds DEF Plain, Tables, Fulls, Lit
<1> QED BY <1>1, Kinds

LEMMA WantedFacts ==
  /\ \A v : Wanted(Table(v)) = {v} /\ Wanted(Full(v)) = {v}
  /\ Wanted(NodeUsage) = {"nodes"} /\ Wanted(FluxLogs) = {"flux", "flux_logs"}
  /\ Wanted(Selection) = {} /\ Wanted(DetailFull) = {} /\ Wanted(Diagnostic) = {}
  /\ Wanted(Extract) = {} /\ Wanted(AiPanel) = {}
<1>1. ASSUME NEW v PROVE Wanted(Table(v)) = {v} /\ Wanted(Full(v)) = {v}
  <2>1. Table(v) # FluxLogs /\ Full(v) # FluxLogs
    BY Kinds
  <2>2. ViewsOf(Table(v)) = {v} /\ ViewsOf(Full(v)) = {v}
    BY Kinds DEF ViewsOf
  <2> QED BY <2>1, <2>2 DEF Wanted
<1>2. Wanted(NodeUsage) = {"nodes"} /\ Wanted(FluxLogs) = {"flux", "flux_logs"}
  <2>1. NodeUsage # FluxLogs
    BY Kinds
  <2>2. ViewsOf(NodeUsage) = {"nodes"} /\ ViewsOf(FluxLogs) = {"flux"}
    BY Kinds DEF ViewsOf
  <2> QED BY <2>1, <2>2 DEF Wanted
<1>3. ASSUME NEW m \in {Selection, DetailFull, Diagnostic, Extract, AiPanel} PROVE Wanted(m) = {}
  <2>1. m # FluxLogs /\ m # NodeUsage /\ m[1] \notin {"table", "full"}
    BY Kinds
  <2>2. ViewsOf(m) = {}
    BY <2>1 DEF ViewsOf
  <2> QED BY <2>1, <2>2 DEF Wanted
<1> QED BY <1>1, <1>2, <1>3

LEMMA ModeTypes ==
  /\ Palette \subseteq Prompts /\ Prompts \subseteq Modes
  /\ Plain \subseteq Modes /\ Palette \subseteq Plain
  /\ LogsFrom \subseteq Palette /\ Table("flux") \in Palette /\ Table("nodes") \in Palette
  /\ \A v \in Used : Table(v) \in Palette
  /\ {AiPanel, Command, Search, Selection} \subseteq Modes
  /\ \A m \in Prompts : m \in Plain \/ m = AiPanel
<1>1. "flux" \in Used /\ "nodes" \in Used /\ "flux" # "namespaces"
  BY ShellAssumption
<1>2. \A v \in Used : Table(v) \in Tables
  BY DEF Tables
<1>3. Full("flux") \in Fulls
  BY <1>1 DEF Fulls
<1> QED BY <1>1, <1>2, <1>3 DEF Palette, Prompts, Modes, Plain, Lit, LogsFrom

LEMMA ShownNow == ASSUME mode \in Plain PROVE Shown = mode /\ Top = mode
  BY PlainFacts DEF Shown, Under, Top

LEMMA ShownThen == ASSUME mode' \in Plain PROVE Shown' = mode' /\ Top' = mode'
  BY PlainFacts DEF Shown, Under, Top

(* A plain mode needs little of the slots.                                 *)
LEMMA PlainSlots ==
  ASSUME mode' \in Plain, mode' = FluxLogs => ret' \in LogsFrom, mode' = Extract => ret' = Selection
  PROVE  Slots'
<1>1. Top' = mode' /\ mode' # Command /\ mode' # Search /\ mode' # AiPanel
  BY ShownThen, PlainFacts
<1> QED BY <1>1 DEF Slots

LEMMA PaletteFacts == \A m \in Palette : m # FluxLogs /\ m # Extract
<1> SUFFICES ASSUME NEW m \in Palette PROVE m # FluxLogs /\ m # Extract
  OBVIOUS
<1>1. m[1] \in {"table", "full", "selection"}
  BY Kinds DEF Palette, Tables, Fulls
<1> QED BY <1>1, Kinds

-----------------------------------------------------------------------------
(* Loops *)

LEMMA OnType == ASSUME TypeOK PROVE On \subseteq Running /\ scope \in Scopes
  BY DEF On, TypeOK

LEMMA GoLoops ==
  ASSUME TypeOK, LoopReadsScope, NEW m, NEW stops \in SUBSET Running, NEW starts \in SUBSET Running,
         NEW s \in Scopes, Go(m, stops, starts, s), s = scope \/ On \ stops \subseteq starts
  PROVE  /\ loops' \in [Running -> Loop \cup {None}]
         /\ On' = (On \ stops) \cup starts
         /\ LoopReadsScope'
         /\ shots' \in [Scoped \X Scopes -> 0..MaxShots]
         /\ shown' = shown /\ UNCHANGED life /\ mode' = m /\ scope' = s
<1>1. /\ loops' = [h \in Running |-> IF h \in starts THEN [phase |-> "idle", scope |-> s]
                                     ELSE IF h \in stops THEN None ELSE loops[h]]
      /\ mode' = m /\ scope' = s /\ shown' = shown /\ UNCHANGED life
      /\ \A f \in Scoped \X Scopes : shots'[f] <= MaxShots
  BY DEF Go, Restarted
<1> DEFINE x == [phase |-> "idle", scope |-> s]
<1>2. x \in Loop /\ x # None /\ x.scope = s
  BY ShellAssumption DEF Loop
<1> HIDE DEF x
<1>3. \A h \in Running : loops'[h] = IF h \in starts THEN x ELSE IF h \in stops THEN None ELSE loops[h]
  BY <1>1 DEF x
<1>4. loops' \in [Running -> Loop \cup {None}]
  BY <1>1, <1>2, <1>3 DEF TypeOK
<1>5. On' = (On \ stops) \cup starts
  <2>1. \A h \in Running : loops'[h] # None <=> (h \in starts \/ (loops[h] # None /\ h \notin stops))
    BY <1>2, <1>3
  <2> QED BY <2>1 DEF On
<1>6. LoopReadsScope'
  <2> SUFFICES ASSUME NEW v \in Scoped, loops'[v] # None PROVE loops'[v].scope = s
    BY <1>1 DEF LoopReadsScope
  <2>0. v \in Running
    BY DEF Scoped, Running
  <2>1. CASE v \in starts
    BY <1>2, <1>3, <2>0, <2>1
  <2>2. CASE v \notin starts
    <3>1. v \in On \ stops /\ loops'[v] = loops[v]
      BY <1>3, <2>0, <2>2 DEF On
    <3>2. s = scope
      BY <2>2, <3>1
    <3> QED BY <3>1, <3>2 DEF LoopReadsScope, On
  <2> QED BY <2>1, <2>2
<1>7. shots' \in [Scoped \X Scopes -> 0..MaxShots]
  <2>1. PICK late : shots' = [f \in Scoped \X Scopes |->
                        CountLate(late)[f] + IF f[1] \in starts /\ f[2] = s THEN 1 ELSE 0]
    BY DEF Go
  <2>2. ASSUME NEW f \in Scoped \X Scopes PROVE shots'[f] \in Nat
    <3>1. shots[f] \in Nat
      BY ShellAssumption DEF TypeOK
    <3>2. CountLate(late)[f] = shots[f] + IF f[1] \in late /\ loops[f[1]].scope = f[2] THEN 1 ELSE 0
      BY DEF CountLate
    <3>3. CountLate(late)[f] \in Nat
      BY <3>1, <3>2
    <3>4. shots'[f] = CountLate(late)[f] + IF f[1] \in starts /\ f[2] = s THEN 1 ELSE 0
      BY <2>1
    <3> QED BY <3>3, <3>4
  <2>3. \A f \in Scoped \X Scopes : shots'[f] \in 0..MaxShots
    BY <1>1, <2>2, ShellAssumption
  <2>4. DOMAIN shots' = Scoped \X Scopes /\ shots' = [f \in Scoped \X Scopes |-> shots'[f]]
    BY <2>1
  <2> QED BY <2>3, <2>4
<1> QED BY <1>1, <1>4, <1>5, <1>6, <1>7

(* A key that stops and starts loops.                                      *)
LEMMA GoStep ==
  ASSUME ShellInv, NEW m \in Modes, NEW stops \in SUBSET Running, NEW starts \in SUBSET Running,
         NEW s \in Scopes, Go(m, stops, starts, s), s = scope \/ On \ stops \subseteq starts,
         ret' \in Modes, cmdRet' \in Modes, searchRet' \in Modes, extracting' \in BOOLEAN, Slots',
         Wanted(Shown') = (On \ stops) \cup starts
  PROVE  ShellInv'
<1>1. /\ loops' \in [Running -> Loop \cup {None}]
      /\ On' = (On \ stops) \cup starts
      /\ LoopReadsScope'
      /\ shots' \in [Scoped \X Scopes -> 0..MaxShots]
      /\ shown' = shown /\ UNCHANGED life /\ mode' = m /\ scope' = s
  BY GoLoops DEF ShellInv
<1>2. pending' = pending /\ session' = session /\ orphans' = orphans
  BY <1>1 DEF life
<1>3. TypeOK'
  BY <1>1, <1>2 DEF ShellInv, TypeOK
<1> QED BY <1>1, <1>2, <1>3 DEF ShellInv

(* A key that leaves the loops alone, a fetch, an answer.                  *)
LEMMA KeepStep ==
  ASSUME ShellInv, TypeOK', Slots', On' = On, Wanted(Shown') = Wanted(Shown),
         LoopReadsScope', orphans' = orphans
  PROVE  ShellInv'
  BY DEF ShellInv

LEMMA TurnStep ==
  ASSUME ShellInv, NEW m \in Modes, Turn(m),
         ret' \in Modes, cmdRet' \in Modes, searchRet' \in Modes, extracting' \in BOOLEAN, Slots',
         Wanted(Shown') = Wanted(Shown)
  PROVE  ShellInv'
<1>1. /\ mode' = m /\ scope' = scope /\ loops' = loops /\ shots' = shots /\ shown' = shown
      /\ pending' = pending /\ session' = session /\ orphans' = orphans
  BY DEF Turn, life
<1>2. TypeOK'
  BY <1>1 DEF ShellInv, TypeOK
<1>3. On' = On /\ LoopReadsScope'
  BY <1>1 DEF ShellInv, On, LoopReadsScope
<1> QED BY <1>1, <1>2, <1>3, KeepStep

(* The modes and what lies under them stay.                                *)
LEMMA AsideSlots ==
  ASSUME Slots, UNCHANGED <<mode, slots>>
  PROVE  Slots' /\ Shown' = Shown
<1>1. ret' = ret /\ cmdRet' = cmdRet /\ searchRet' = searchRet /\ mode' = mode
  BY DEF slots
<1> QED BY <1>1 DEF Slots, Top, Shown, Under

-----------------------------------------------------------------------------
(* Where the modes lead *)

Easy == Palette \cup Lit

LEMMA EasyFacts ==
  /\ Easy \subseteq Plain /\ Easy \subseteq Modes /\ Easy = Tables \cup Fulls \cup Lit
  /\ \A m \in Easy : m # FluxLogs /\ m # Extract
<1>1. Easy \subseteq Plain /\ Easy = Tables \cup Fulls \cup Lit
  BY DEF Easy, Palette, Lit, Plain
<1>2. ASSUME NEW m \in Easy PROVE m # FluxLogs /\ m # Extract
  <2>1. m[1] \in {"table", "full", "selection", "detail", "usage", "diagnostic"}
    BY Kinds DEF Easy, Palette, Tables, Fulls, Lit
  <2> QED BY <2>1, Kinds
<1> QED BY <1>1, <1>2, ModeTypes

LEMMA ToEasy == ASSUME mode' \in Easy PROVE Slots' /\ Shown' = mode' /\ mode' \in Modes
<1>1. mode' \in Plain /\ mode' \in Modes /\ mode' # FluxLogs /\ mode' # Extract
  BY EasyFacts
<1> QED BY <1>1, PlainSlots, ShownThen

(* What is on screen under the overlays.                                   *)
LEMMA ShownUnder ==
  ASSUME Slots
  PROVE  /\ mode = Command => Shown = cmdRet /\ cmdRet \in Palette
         /\ mode = AiPanel => Shown = ret /\ ret \in Easy
         /\ mode = Search => \/ Shown = searchRet /\ searchRet \in Plain \ {Extract}
                             \/ searchRet = AiPanel /\ Shown = ret /\ ret \in Easy
<1>0. Command # Search /\ AiPanel # Search /\ AiPanel # Command
  BY Kinds
<1>1. mode = Command => Shown = cmdRet /\ cmdRet \in Palette
  BY <1>0 DEF Slots, Shown, Under
<1>2. mode = AiPanel => Shown = ret /\ ret \in Easy
  BY <1>0, EasyFacts DEF Slots, Shown, Under, Top
<1>3. ASSUME mode = Search, searchRet = AiPanel PROVE Shown = ret /\ ret \in Easy
  BY <1>0, <1>3, EasyFacts DEF Slots, Shown, Under, Top
<1>4. ASSUME mode = Search, searchRet # AiPanel
      PROVE  Shown = searchRet /\ searchRet \in Plain \ {Extract}
  <2>1. searchRet \in Prompts
    BY <1>4 DEF Slots
  <2>2. searchRet \in Plain
    BY <1>4, <2>1, ModeTypes
  <2>3. searchRet # Extract
    <3>1. searchRet[1] # "extract"
      BY <2>1, Kinds DEF Prompts, Palette, Tables, Fulls
    <3> QED BY <3>1, Kinds
  <2>4. Shown = searchRet
    BY <1>4, <2>2, PlainFacts DEF Shown, Under
  <2> QED BY <2>2, <2>3, <2>4
<1> QED BY <1>1, <1>2, <1>3, <1>4

LEMMA SlotTypes ==
  ASSUME ShellInv
  PROVE  /\ mode \in Modes /\ ret \in Modes /\ cmdRet \in Modes /\ searchRet \in Modes
         /\ extracting \in BOOLEAN /\ scope \in Scopes /\ On = Wanted(Shown) /\ Slots
         /\ TypeOK /\ On \subseteq Running
  BY OnType DEF ShellInv, TypeOK

-----------------------------------------------------------------------------
(* Further into a view, and over it *)

(* From a mode that shows itself to another that has the same loops.       *)
LEMMA Deeper ==
  ASSUME ShellInv, mode \in Easy, NEW m \in Easy, Turn(m), UNCHANGED <<slots, extracting>>,
         Wanted(m) = Wanted(mode)
  PROVE  ShellInv'
<1>1. mode' = m
  BY DEF Turn
<1>2. Slots' /\ Shown' = m /\ m \in Modes
  BY <1>1, ToEasy
<1>3. Shown = mode
  BY ShownNow, EasyFacts
<1>4. ret' \in Modes /\ cmdRet' \in Modes /\ searchRet' \in Modes /\ extracting' \in BOOLEAN
  BY SlotTypes DEF slots
<1> QED BY <1>2, <1>3, <1>4, TurnStep

LEMMA InvDeeper ==
  ASSUME ShellInv,
         \/ \E v \in Used : EnterFull(v)
         \/ OpenDetail \/ OpenUsage \/ OpenDiagnostic
  PROVE  ShellInv'
<1>1. ASSUME NEW v \in Used, EnterFull(v) PROVE ShellInv'
  <2>1. Table(v) \in Easy /\ Full(v) \in Easy
    BY <1>1 DEF EnterFull, Easy, Palette, Tables, Fulls
  <2>2. Wanted(Full(v)) = Wanted(Table(v))
    BY WantedFacts
  <2> QED BY <1>1, <2>1, <2>2, Deeper DEF EnterFull
<1>2. Selection \in Easy /\ DetailFull \in Easy /\ NodeUsage \in Easy /\ Diagnostic \in Easy
      /\ Table("nodes") \in Easy
  BY ModeTypes DEF Easy, Lit
<1>3. /\ Wanted(DetailFull) = Wanted(Selection) /\ Wanted(Diagnostic) = Wanted(Selection)
      /\ Wanted(NodeUsage) = Wanted(Table("nodes"))
  BY WantedFacts
<1>4. CASE OpenDetail
  BY <1>2, <1>3, <1>4, Deeper DEF OpenDetail
<1>5. CASE OpenUsage
  BY <1>2, <1>3, <1>5, Deeper DEF OpenUsage
<1>6. CASE OpenDiagnostic
  BY <1>2, <1>3, <1>6, Deeper DEF OpenDiagnostic
<1> QED BY <1>1, <1>4, <1>5, <1>6

LEMMA InvExtract == ASSUME ShellInv, OpenExtract \/ ExtractEnds PROVE ShellInv'
<1>1. CASE OpenExtract
  <2>1. /\ mode = Selection /\ ret' = Selection /\ extracting' \in BOOLEAN /\ Turn(Extract)
        /\ cmdRet' = cmdRet /\ searchRet' = searchRet /\ mode' = Extract
    BY <1>1 DEF OpenExtract, Turn
  <2>2. Extract \in Plain /\ Selection \in Plain /\ Extract \in Modes /\ Selection \in Modes
    BY ModeTypes DEF Plain, Lit
  <2>3. Extract # FluxLogs
    BY Kinds
  <2>4. Slots' /\ Shown' = Extract /\ Shown = Selection
    BY <2>1, <2>2, <2>3, PlainSlots, ShownThen, ShownNow
  <2>5. Wanted(Extract) = Wanted(Selection)
    BY WantedFacts
  <2>6. cmdRet \in Modes /\ searchRet \in Modes
    BY SlotTypes
  <2> QED BY <2>1, <2>2, <2>4, <2>5, <2>6, TurnStep
<1>2. CASE ExtractEnds
  <2>1. extracting' = FALSE /\ Turn(mode) /\ mode' = mode /\ UNCHANGED slots
    BY <1>2 DEF ExtractEnds, Turn
  <2>2. Slots' /\ Shown' = Shown
    BY <2>1, SlotTypes, AsideSlots
  <2>3. mode \in Modes /\ ret' \in Modes /\ cmdRet' \in Modes /\ searchRet' \in Modes
    BY <2>1, SlotTypes DEF slots
  <2> QED BY <2>1, <2>2, <2>3, TurnStep
<1> QED BY <1>1, <1>2

LEMMA InvAi == ASSUME ShellInv, OpenAi PROVE ShellInv'
<1>1. /\ mode \in Easy \/ mode = AiPanel
      /\ ret' = IF mode = AiPanel THEN ret ELSE mode
      /\ Turn(AiPanel) /\ mode' = AiPanel
      /\ UNCHANGED <<cmdRet, searchRet, extracting>>
  BY EasyFacts DEF OpenAi, Turn, Lit
<1>2. Shown = ret' /\ ret' \in Easy
  <2>1. CASE mode = AiPanel
    BY <1>1, <2>1, ShownUnder, SlotTypes
  <2>2. CASE mode # AiPanel
    BY <1>1, <2>2, ShownNow, EasyFacts
  <2> QED BY <2>1, <2>2
<1>3. AiPanel # Search /\ AiPanel # Command /\ AiPanel # FluxLogs /\ AiPanel # Extract
  BY Kinds
<1>4. Top' = AiPanel /\ Shown' = ret'
  BY <1>1, <1>3 DEF Top, Shown, Under
<1>5. Slots'
  BY <1>1, <1>2, <1>3, <1>4, EasyFacts DEF Slots
<1>6. AiPanel \in Modes /\ ret' \in Modes /\ cmdRet' \in Modes /\ searchRet' \in Modes
      /\ extracting' \in BOOLEAN
  BY <1>1, <1>2, SlotTypes, ModeTypes, EasyFacts
<1> QED BY <1>1, <1>2, <1>4, <1>5, <1>6, TurnStep

LEMMA InvCommand == ASSUME ShellInv, OpenCommand PROVE ShellInv'
<1>1. mode \in Palette /\ cmdRet' = mode /\ Turn(Command) /\ mode' = Command
      /\ UNCHANGED <<ret, searchRet, extracting>>
  BY DEF OpenCommand, Turn
<1>2. Command # Search /\ Command # AiPanel /\ Command # FluxLogs /\ Command # Extract
  BY Kinds
<1>3. Top' = Command /\ Shown' = mode
  BY <1>1, <1>2 DEF Top, Shown, Under
<1>4. Shown = mode
  BY <1>1, ShownNow, ModeTypes
<1>5. Slots'
  BY <1>1, <1>2, <1>3 DEF Slots
<1>6. Command \in Modes /\ ret' \in Modes /\ cmdRet' \in Modes /\ searchRet' \in Modes
      /\ extracting' \in BOOLEAN
  BY <1>1, SlotTypes, ModeTypes
<1> QED BY <1>1, <1>3, <1>4, <1>5, <1>6, TurnStep

LEMMA InvSearch == ASSUME ShellInv, OpenSearch PROVE ShellInv'
<1>1. mode \in Prompts /\ searchRet' = mode /\ Turn(Search) /\ mode' = Search
      /\ UNCHANGED <<ret, cmdRet, extracting>>
  BY DEF OpenSearch, Turn
<1>2. Search # Command /\ mode # Search /\ mode # Command
  <2>1. Search # Command /\ AiPanel # Search /\ AiPanel # Command
    BY Kinds
  <2> QED BY <1>1, <2>1, ModeTypes, PlainFacts
<1>3. Top' = mode /\ Top = mode
  BY <1>1, <1>2 DEF Top
<1>4. Shown' = Shown
  BY <1>1, <1>2 DEF Shown, Under
<1>5. Slots'
  BY <1>1, <1>2, <1>3, SlotTypes DEF Slots
<1>6. Search \in Modes /\ ret' \in Modes /\ cmdRet' \in Modes /\ searchRet' \in Modes
      /\ extracting' \in BOOLEAN
  BY <1>1, SlotTypes, ModeTypes
<1> QED BY <1>1, <1>4, <1>5, <1>6, TurnStep

-----------------------------------------------------------------------------
(* From one view to another *)

(* A step that leads to a mode that shows itself.                          *)
LEMMA GoEasy ==
  ASSUME ShellInv, NEW m \in Easy, NEW stops \in SUBSET Running, NEW starts \in SUBSET Running,
         NEW s \in Scopes, Go(m, stops, starts, s), s = scope \/ On \ stops \subseteq starts,
         ret' \in Modes, cmdRet' \in Modes, searchRet' \in Modes, extracting' \in BOOLEAN,
         Wanted(m) = (On \ stops) \cup starts
  PROVE  ShellInv'
<1>1. mode' = m
  BY DEF Go
<1>2. Slots' /\ Shown' = m /\ m \in Modes
  BY <1>1, ToEasy
<1> QED BY <1>2, GoStep

(* What leave_special_modes stops is all that runs.                        *)
LEMMA LeavesAll ==
  ASSUME ShellInv, mode = Command
  PROVE  On = LeaveSpecial(cmdRet) /\ cmdRet \in Palette /\ LeaveSpecial(cmdRet) \subseteq Running
<1>1. Shown = cmdRet /\ cmdRet \in Palette
  BY SlotTypes, ShownUnder
<1>2. cmdRet # FluxLogs
  BY <1>1, PaletteFacts
<1> QED BY <1>1, <1>2, SlotTypes DEF Wanted, LeaveSpecial

LEMMA InvRun ==
  ASSUME ShellInv, NEW s \in Scopes, RunEvents(s) \/ \E v \in Used : RunView(v, s)
  PROVE  ShellInv'
<1>1. ASSUME NEW v \in Used, RunView(v, s) PROVE ShellInv'
  <2>1. /\ mode = Command /\ Go(Table(v), LeaveSpecial(cmdRet), {v}, s) /\ cmdRet' = Selection
        /\ UNCHANGED <<ret, searchRet, extracting>>
    BY <1>1 DEF RunView
  <2>2. Table(v) \in Easy /\ {v} \in SUBSET Running /\ Wanted(Table(v)) = {v}
    BY ModeTypes, WantedFacts DEF Easy, Running
  <2>3. LeaveSpecial(cmdRet) \in SUBSET Running /\ On \ LeaveSpecial(cmdRet) = {}
    BY <2>1, LeavesAll
  <2>4. ret' \in Modes /\ cmdRet' \in Modes /\ searchRet' \in Modes /\ extracting' \in BOOLEAN
    BY <2>1, SlotTypes, ModeTypes
  <2> QED BY <2>1, <2>2, <2>3, <2>4, GoEasy
<1>2. CASE RunEvents(s)
  <2>1. /\ mode = Command /\ Go(Selection, LeaveSpecial(cmdRet), {}, s) /\ cmdRet' = Selection
        /\ UNCHANGED <<ret, searchRet, extracting>>
    BY <1>2 DEF RunEvents
  <2>2. Selection \in Easy /\ {} \in SUBSET Running /\ Wanted(Selection) = {}
    BY ModeTypes, WantedFacts DEF Easy, Lit
  <2>3. LeaveSpecial(cmdRet) \in SUBSET Running /\ On \ LeaveSpecial(cmdRet) = {}
    BY <2>1, LeavesAll
  <2>4. ret' \in Modes /\ cmdRet' \in Modes /\ searchRet' \in Modes /\ extracting' \in BOOLEAN
    BY <2>1, SlotTypes, ModeTypes
  <2> QED BY <2>1, <2>2, <2>3, <2>4, GoEasy
<1> QED BY <1>1, <1>2

LEMMA InvJump ==
  ASSUME ShellInv, NEW a \in Used, NEW b \in Used, Jump(a, b)
  PROVE  ShellInv'
<1>1. /\ mode = Table(a) \/ (a = "certs" /\ mode = Full(a))
      /\ Go(Table(b), {a}, {b}, scope) /\ UNCHANGED <<slots, extracting>>
  BY DEF Jump
<1>2. mode \in Easy
  <2>1. a = "certs" => a # "namespaces"
    OBVIOUS
  <2>2. a = "certs" => Full(a) \in Fulls
    BY <2>1 DEF Fulls
  <2> QED BY <1>1, <2>2, ModeTypes, EasyFacts DEF Easy
<1>3. Shown = mode /\ Wanted(mode) = {a}
  BY <1>1, <1>2, ShownNow, EasyFacts, WantedFacts
<1>4. On \ {a} = {}
  BY <1>3, SlotTypes
<1>5. Table(b) \in Easy /\ {b} \in SUBSET Running /\ {a} \in SUBSET Running /\ Wanted(Table(b)) = {b}
  BY ModeTypes, WantedFacts DEF Easy, Running
<1>6. /\ ret' \in Modes /\ cmdRet' \in Modes /\ searchRet' \in Modes /\ extracting' \in BOOLEAN
      /\ scope \in Scopes
  BY <1>1, SlotTypes DEF slots
<1> QED BY <1>1, <1>4, <1>5, <1>6, GoEasy

LEMMA InvNodes == ASSUME ShellInv, NodesOfEvent PROVE ShellInv'
<1>1. /\ mode \in {Selection, DetailFull} /\ Go(Table("nodes"), {}, {"nodes"}, scope)
      /\ UNCHANGED <<slots, extracting>>
  BY DEF NodesOfEvent
<1>2. mode \in Easy /\ Table("nodes") \in Easy
  BY <1>1, ModeTypes DEF Easy, Lit
<1>3. Shown = mode /\ Wanted(mode) = {} /\ Wanted(Table("nodes")) = {"nodes"}
  BY <1>1, <1>2, ShownNow, EasyFacts, WantedFacts
<1>4. On = {}
  BY <1>3, SlotTypes
<1>5. {} \in SUBSET Running /\ {"nodes"} \in SUBSET Running
  BY ShellAssumption DEF Running
<1>6. /\ ret' \in Modes /\ cmdRet' \in Modes /\ searchRet' \in Modes /\ extracting' \in BOOLEAN
      /\ scope \in Scopes
  BY <1>1, SlotTypes DEF slots
<1>7. Wanted(Table("nodes")) = (On \ {}) \cup {"nodes"}
  BY <1>3, <1>4
<1> QED BY <1>1, <1>2, <1>5, <1>6, <1>7, GoEasy

LEMMA InvPick == ASSUME ShellInv, NEW s \in Scopes, PickNamespace(s) PROVE ShellInv'
<1>1. /\ mode = Table("namespaces") /\ Go(Selection, {"namespaces"}, {}, s)
      /\ UNCHANGED <<slots, extracting>>
  BY DEF PickNamespace
<1>2. Selection \in Easy
  BY DEF Easy, Lit
<1>3. Shown = mode /\ Wanted(mode) = {"namespaces"}
  <2>1. mode # Search /\ mode # AiPanel /\ mode # Command
    BY <1>1, Kinds
  <2> QED BY <1>1, <2>1, WantedFacts DEF Shown, Under
<1>4. On = {"namespaces"}
  BY <1>3, SlotTypes
<1>5. {} \in SUBSET Running /\ {"namespaces"} \in SUBSET Running
  BY <1>4, SlotTypes
<1>6. /\ ret' \in Modes /\ cmdRet' \in Modes /\ searchRet' \in Modes /\ extracting' \in BOOLEAN
  BY <1>1, SlotTypes DEF slots
<1>7. On \ {"namespaces"} = {} /\ Wanted(Selection) = {}
  BY <1>4, WantedFacts
<1>8. Wanted(Selection) = (On \ {"namespaces"}) \cup {} /\ On \ {"namespaces"} \subseteq {}
  BY <1>7
<1> QED BY <1>1, <1>2, <1>5, <1>6, <1>8, GoEasy

LEMMA InvNarrow == ASSUME ShellInv, NEW s \in Scopes, Narrow(s) PROVE ShellInv'
<1>0. UNCHANGED <<slots, extracting>> /\ {} \in SUBSET Running /\ Selection \in Easy
  BY DEF Narrow, Easy, Lit
<1>1. /\ ret' \in Modes /\ cmdRet' \in Modes /\ searchRet' \in Modes /\ extracting' \in BOOLEAN
  BY <1>0, SlotTypes DEF slots
<1>2. CASE mode = Selection /\ Go(Selection, {}, {}, s)
  <2>1. Shown = Selection /\ Wanted(Selection) = {}
    BY <1>0, <1>2, ShownNow, EasyFacts, WantedFacts
  <2>2. On = {}
    BY <2>1, SlotTypes
  <2>3. Wanted(Selection) = (On \ {}) \cup {} /\ On \ {} \subseteq {}
    BY <2>1, <2>2
  <2> QED BY <1>0, <1>1, <1>2, <2>3, GoEasy
<1>3. ASSUME NEW v \in Narrowing, mode = Table(v), Go(Table(v), {}, {v}, s) PROVE ShellInv'
  <2>1. v \in Used /\ Table(v) \in Easy /\ {v} \in SUBSET Running /\ Wanted(Table(v)) = {v}
    BY ModeTypes, WantedFacts DEF Narrowing, Easy, Running
  <2>2. On = {v}
    BY <1>3, <2>1, ShownNow, EasyFacts, SlotTypes
  <2>3. Wanted(Table(v)) = (On \ {}) \cup {v} /\ On \ {} \subseteq {v}
    BY <2>1, <2>2
  <2> QED BY <1>0, <1>1, <1>3, <2>1, <2>3, GoEasy
<1>4. Narrowing \subseteq Reentered
  BY DEF Narrowing, Reentered
<1> QED BY <1>2, <1>3, <1>4 DEF Narrow

-----------------------------------------------------------------------------
(* The logs of Flux *)

(* A step that leads to them, with where they lead back to.                *)
LEMMA GoLogs ==
  ASSUME ShellInv, NEW stops \in SUBSET Running, NEW starts \in SUBSET Running,
         Go(FluxLogs, stops, starts, scope), ret' \in LogsFrom,
         cmdRet' \in Modes, searchRet' = searchRet, extracting' = extracting,
         (On \ stops) \cup starts = {"flux", "flux_logs"}
  PROVE  ShellInv'
<1>1. mode' = FluxLogs
  BY DEF Go
<1>2. FluxLogs \in Plain /\ FluxLogs \in Modes /\ FluxLogs # Extract
  BY ModeTypes, Kinds DEF Plain
<1>3. Slots' /\ Shown' = FluxLogs
  BY <1>1, <1>2, PlainSlots, ShownThen
<1>4. ret' \in Modes /\ searchRet' \in Modes /\ extracting' \in BOOLEAN /\ scope \in Scopes
  BY SlotTypes, ModeTypes
<1>5. Wanted(Shown') = (On \ stops) \cup starts
  BY <1>3, WantedFacts
<1> QED BY <1>2, <1>3, <1>4, <1>5, GoStep

LEMMA InvLogs == ASSUME ShellInv, OpenFluxLogs \/ RunFluxLogs PROVE ShellInv'
<1>0. {} \in SUBSET Running /\ {"flux_logs"} \in SUBSET Running /\ {"flux", "flux_logs"} \in SUBSET Running
  BY ShellAssumption DEF Running
<1>1. \A m \in LogsFrom : Wanted(m) = {"flux"} /\ m \in Easy
  BY WantedFacts, ModeTypes DEF LogsFrom, Easy
<1>2. CASE OpenFluxLogs
  <2>1. /\ mode \in LogsFrom /\ ret' = mode /\ Go(FluxLogs, {}, {"flux_logs"}, scope)
        /\ UNCHANGED <<cmdRet, searchRet, extracting>>
    BY <1>2 DEF OpenFluxLogs, LogsFrom
  <2>2. On = {"flux"}
    BY <1>1, <2>1, ShownNow, EasyFacts, SlotTypes
  <2>3. (On \ {}) \cup {"flux_logs"} = {"flux", "flux_logs"}
    BY <2>2
  <2>4. cmdRet' \in Modes
    BY <2>1, SlotTypes
  <2> QED BY <1>0, <2>1, <2>3, <2>4, GoLogs
<1>3. ASSUME RunFluxLogs, cmdRet \in LogsFrom PROVE ShellInv'
  <2>1. /\ mode = Command /\ ret' = cmdRet /\ cmdRet' = Selection
        /\ Go(FluxLogs, {}, {"flux_logs"}, scope) /\ UNCHANGED <<searchRet, extracting>>
    BY <1>3 DEF RunFluxLogs, LogsFrom
  <2>2. On = {"flux"}
    BY <1>1, <1>3, <2>1, ShownUnder, SlotTypes
  <2>3. (On \ {}) \cup {"flux_logs"} = {"flux", "flux_logs"}
    BY <2>2
  <2>4. cmdRet' \in Modes
    BY <2>1, ModeTypes
  <2> QED BY <1>0, <1>3, <2>1, <2>3, <2>4, GoLogs
<1>4. ASSUME RunFluxLogs, cmdRet \notin LogsFrom PROVE ShellInv'
  <2>1. /\ mode = Command /\ ret' = Table("flux") /\ cmdRet' = Selection
        /\ Go(FluxLogs, LeaveSpecial(cmdRet), {"flux", "flux_logs"}, scope)
        /\ UNCHANGED <<searchRet, extracting>>
    BY <1>4 DEF RunFluxLogs, LogsFrom
  <2>2. LeaveSpecial(cmdRet) \in SUBSET Running /\ On \ LeaveSpecial(cmdRet) = {}
    BY <2>1, LeavesAll
  <2>3. (On \ LeaveSpecial(cmdRet)) \cup {"flux", "flux_logs"} = {"flux", "flux_logs"}
    BY <2>2
  <2>4. cmdRet' \in Modes /\ ret' \in LogsFrom
    BY <2>1, ModeTypes DEF LogsFrom
  <2> QED BY <1>0, <2>1, <2>2, <2>3, <2>4, GoLogs
<1> QED BY <1>2, <1>3, <1>4

-----------------------------------------------------------------------------
(* Esc *)

LEMMA BackFacts ==
  ASSUME NEW r, NEW c, NEW s
  PROVE  /\ \A v : Back(Full(v), r, c, s) = Table(v) /\ Back(Table(v), r, c, s) = Selection
         /\ Back(NodeUsage, r, c, s) = Table("nodes")
         /\ Back(AiPanel, r, c, s) = r
         /\ r # Extract => Back(Extract, r, c, s) = r
         /\ r \in LogsFrom => Back(FluxLogs, r, c, s) = r
         /\ Back(Command, r, c, s) = c
         /\ Back(Search, r, c, s) = s
         /\ Back(Selection, r, c, s) = Selection
         /\ Back(DetailFull, r, c, s) = Selection
         /\ Back(Diagnostic, r, c, s) = Selection
<1>1. ASSUME NEW v PROVE Back(Full(v), r, c, s) = Table(v) /\ Back(Table(v), r, c, s) = Selection
  BY Kinds DEF Back
<1>2. Back(NodeUsage, r, c, s) = Table("nodes")
  <2>1. NodeUsage[1] # "full" /\ NodeUsage[1] # "table" /\ NodeUsage # AiPanel
        /\ NodeUsage # Extract /\ NodeUsage # FluxLogs /\ NodeUsage # Command
        /\ NodeUsage # Search
    BY Kinds
  <2> QED BY <2>1 DEF Back
<1>3. Back(AiPanel, r, c, s) = r
  <2>1. AiPanel[1] # "full" /\ AiPanel[1] # "table" /\ AiPanel # NodeUsage
        /\ AiPanel # Extract /\ AiPanel # FluxLogs /\ AiPanel # Command /\ AiPanel # Search
    BY Kinds
  <2> QED BY <2>1 DEF Back
<1>4. r # Extract => Back(Extract, r, c, s) = r
  <2>1. Extract[1] # "full" /\ Extract[1] # "table" /\ Extract # NodeUsage
        /\ Extract # AiPanel /\ Extract # FluxLogs /\ Extract # Command /\ Extract # Search
    BY Kinds
  <2> QED BY <2>1 DEF Back
<1>5. r \in LogsFrom => Back(FluxLogs, r, c, s) = r
  <2>1. FluxLogs[1] # "full" /\ FluxLogs[1] # "table" /\ FluxLogs # NodeUsage
        /\ FluxLogs # AiPanel /\ FluxLogs # Extract /\ FluxLogs # Command
        /\ FluxLogs # Search
    BY Kinds
  <2> QED BY <2>1 DEF Back, LogsFrom
<1>6. Back(Command, r, c, s) = c
  <2>1. Command[1] # "full" /\ Command[1] # "table" /\ Command # NodeUsage
        /\ Command # AiPanel /\ Command # Extract /\ Command # FluxLogs /\ Command # Search
    BY Kinds
  <2> QED BY <2>1 DEF Back
<1>7. Back(Search, r, c, s) = s
  <2>1. Search[1] # "full" /\ Search[1] # "table" /\ Search # NodeUsage
        /\ Search # AiPanel /\ Search # Extract /\ Search # FluxLogs /\ Search # Command
    BY Kinds
  <2> QED BY <2>1 DEF Back
<1>8. ASSUME NEW m \in {Selection, DetailFull, Diagnostic} PROVE Back(m, r, c, s) = Selection
  <2>1. m[1] # "full" /\ m[1] # "table" /\ m # NodeUsage /\ m # AiPanel
        /\ m # Extract /\ m # FluxLogs /\ m # Command /\ m # Search
    BY Kinds
  <2> QED BY <2>1 DEF Back
<1> QED BY <1>1, <1>2, <1>3, <1>4, <1>5, <1>6, <1>7, <1>8

(* Only the table and the logs of Flux end a loop.                         *)
LEMMA EndedFacts ==
  /\ \A v : EndedByEsc(Table(v)) = {v} /\ EndedByEsc(Full(v)) = {}
  /\ EndedByEsc(FluxLogs) = {"flux_logs"}
  /\ \A m \in {Selection, DetailFull, Diagnostic, NodeUsage, Extract, AiPanel, Command, Search} :
       EndedByEsc(m) = {}
<1>1. ASSUME NEW v PROVE EndedByEsc(Table(v)) = {v} /\ EndedByEsc(Full(v)) = {}
  <2>1. Full(v) # FluxLogs
    BY Kinds
  <2> QED BY <2>1, Kinds DEF EndedByEsc
<1>2. EndedByEsc(FluxLogs) = {"flux_logs"}
  BY Kinds DEF EndedByEsc
<1>3. ASSUME NEW m \in {Selection, DetailFull, Diagnostic, NodeUsage, Extract, AiPanel, Command, Search}
      PROVE  EndedByEsc(m) = {}
  <2>1. m[1] # "table" /\ m # FluxLogs
    BY Kinds
  <2> QED BY <2>1 DEF EndedByEsc
<1> QED BY <1>1, <1>2, <1>3

LEMMA InvEsc == ASSUME ShellInv, Esc PROVE ShellInv'
<1> DEFINE to == Back(mode, ret, cmdRet, searchRet)
<1>1. /\ Go(to, EndedByEsc(mode), {}, scope)
      /\ ret' = IF mode \in {AiPanel, Extract, FluxLogs} THEN Selection ELSE ret
      /\ cmdRet' = Kept(mode, Command, cmdRet)
      /\ searchRet' = Kept(mode, Search, searchRet)
      /\ extracting' = extracting
  BY DEF Esc
<1>t. mode' = to
  BY <1>1 DEF Go
<1>2. /\ ret' \in Modes /\ cmdRet' \in Modes /\ searchRet' \in Modes /\ extracting' \in BOOLEAN
      /\ scope \in Scopes /\ {} \in SUBSET Running
  BY <1>1, SlotTypes, ModeTypes DEF Kept
<1> HIDE DEF to
<1>3. ASSUME to \in Easy, EndedByEsc(mode) \in SUBSET Running, Wanted(to) = On \ EndedByEsc(mode)
      PROVE  ShellInv'
  <2>1. Wanted(to) = (On \ EndedByEsc(mode)) \cup {}
    BY <1>3
  <2> QED BY <1>1, <1>2, <1>3, <2>1, GoEasy
<1>4. ASSUME NEW v \in Used, mode = Table(v) PROVE ShellInv'
  <2>1. to = Selection /\ EndedByEsc(mode) = {v}
    BY <1>4, BackFacts, EndedFacts DEF to
  <2>2. On = {v} /\ {v} \in SUBSET Running
    BY <1>4, ShownNow, EasyFacts, SlotTypes, WantedFacts, ModeTypes DEF Easy, Running
  <2>3. Selection \in Easy /\ Wanted(Selection) = {}
    BY WantedFacts DEF Easy, Lit
  <2> QED BY <1>3, <2>1, <2>2, <2>3
<1>5. ASSUME NEW v \in Used \ {"namespaces"}, mode = Full(v) PROVE ShellInv'
  <2>1. to = Table(v) /\ EndedByEsc(mode) = {}
    BY <1>5, BackFacts, EndedFacts DEF to
  <2>2. mode \in Easy
    BY <1>5 DEF Easy, Palette, Fulls
  <2>3. On = {v}
    BY <1>5, <2>2, ShownNow, EasyFacts, SlotTypes, WantedFacts
  <2>4. Table(v) \in Easy /\ Wanted(Table(v)) = {v}
    BY WantedFacts, ModeTypes DEF Easy
  <2>5. Wanted(to) = On \ EndedByEsc(mode) /\ EndedByEsc(mode) \in SUBSET Running
    BY <2>1, <2>3, <2>4
  <2> QED BY <1>3, <2>1, <2>4, <2>5
<1>6. CASE mode \in Lit \ {NodeUsage}
  <2>1. to = Selection /\ EndedByEsc(mode) = {}
    BY <1>6, BackFacts, EndedFacts DEF to, Lit
  <2>2. mode \in Easy /\ Wanted(mode) = {}
    BY <1>6, WantedFacts DEF Easy, Lit
  <2>3. On = {}
    BY <2>2, ShownNow, EasyFacts, SlotTypes
  <2>4. Selection \in Easy /\ Wanted(Selection) = {}
    BY WantedFacts DEF Easy, Lit
  <2>5. Wanted(to) = On \ EndedByEsc(mode) /\ EndedByEsc(mode) \in SUBSET Running
    BY <2>1, <2>3, <2>4
  <2> QED BY <1>3, <2>1, <2>4, <2>5
<1>7. CASE mode = NodeUsage
  <2>1. to = Table("nodes") /\ EndedByEsc(mode) = {}
    BY <1>7, BackFacts, EndedFacts DEF to
  <2>2. mode \in Easy
    BY <1>7 DEF Easy, Lit
  <2>3. On = {"nodes"}
    BY <1>7, <2>2, ShownNow, EasyFacts, SlotTypes, WantedFacts
  <2>4. Table("nodes") \in Easy /\ Wanted(Table("nodes")) = {"nodes"}
    BY WantedFacts, ModeTypes DEF Easy
  <2>5. Wanted(to) = On \ EndedByEsc(mode) /\ EndedByEsc(mode) \in SUBSET Running
    BY <2>1, <2>3, <2>4
  <2> QED BY <1>3, <2>1, <2>4, <2>5
<1>8. CASE mode = Extract
  <2>0. Extract \in Plain /\ Selection # Extract
    BY Kinds DEF Plain
  <2>1. Top = Extract /\ Shown = Extract
    BY <1>8, <2>0, ShownNow
  <2>2. ret = Selection
    BY <2>1, SlotTypes DEF Slots
  <2>3. to = Selection /\ EndedByEsc(mode) = {}
    BY <1>8, <2>0, <2>2, BackFacts, EndedFacts DEF to
  <2>4. On = {}
    BY <2>1, SlotTypes, WantedFacts
  <2>5. Selection \in Easy /\ Wanted(Selection) = {}
    BY WantedFacts DEF Easy, Lit
  <2>6. Wanted(to) = On \ EndedByEsc(mode) /\ EndedByEsc(mode) \in SUBSET Running
    BY <2>3, <2>4, <2>5
  <2> QED BY <1>3, <2>3, <2>5, <2>6
<1>9. CASE mode = AiPanel
  <2>1. to = ret /\ EndedByEsc(mode) = {}
    BY <1>9, BackFacts, EndedFacts DEF to
  <2>2. Shown = ret /\ ret \in Easy
    BY <1>9, ShownUnder, SlotTypes
  <2>3. Wanted(to) = On \ EndedByEsc(mode) /\ EndedByEsc(mode) \in SUBSET Running
    BY <2>1, <2>2, SlotTypes
  <2> QED BY <1>3, <2>1, <2>2, <2>3
<1>10. CASE mode = FluxLogs
  <2>0. FluxLogs \in Plain
    BY DEF Plain
  <2>1. Top = FluxLogs /\ Shown = FluxLogs
    BY <1>10, <2>0, ShownNow
  <2>2. ret \in LogsFrom
    BY <2>1, SlotTypes DEF Slots
  <2>3. to = ret /\ EndedByEsc(mode) = {"flux_logs"}
    BY <1>10, <2>2, BackFacts, EndedFacts DEF to
  <2>4. On = {"flux", "flux_logs"} /\ "flux" # "flux_logs"
    BY <2>1, SlotTypes, WantedFacts
  <2>5. ret \in Easy /\ Wanted(ret) = {"flux"}
    BY <2>2, WantedFacts, ModeTypes DEF Easy, LogsFrom
  <2>6. Wanted(to) = On \ EndedByEsc(mode)
    BY <2>3, <2>4, <2>5
  <2>7. EndedByEsc(mode) \in SUBSET Running
    BY <2>3 DEF Running
  <2> QED BY <1>3, <2>3, <2>5, <2>6, <2>7
<1>11. CASE mode = Command
  <2>1. to = cmdRet /\ EndedByEsc(mode) = {}
    BY <1>11, BackFacts, EndedFacts DEF to
  <2>2. Shown = cmdRet /\ cmdRet \in Easy
    BY <1>11, ShownUnder, SlotTypes DEF Easy
  <2>3. Wanted(to) = On \ EndedByEsc(mode) /\ EndedByEsc(mode) \in SUBSET Running
    BY <2>1, <2>2, SlotTypes
  <2> QED BY <1>3, <2>1, <2>2, <2>3
<1>12. CASE mode = Search
  <2>1. to = searchRet /\ EndedByEsc(mode) = {}
    BY <1>12, BackFacts, EndedFacts DEF to
  <2>2. Search # AiPanel /\ Search # Extract /\ Search # FluxLogs
    BY Kinds
  <2>3. ret' = ret /\ mode' = searchRet
    BY <1>1, <1>t, <1>12, <2>1, <2>2
  <2>4. Top = searchRet /\ AiPanel # Search /\ AiPanel # Command /\ AiPanel # FluxLogs
        /\ AiPanel # Extract
    BY <1>12, Kinds DEF Top
  <2>5. Slots' /\ Shown' = Shown /\ searchRet \in Modes
    <3>1. CASE Shown = searchRet /\ searchRet \in Plain \ {Extract}
      <4>1. searchRet = FluxLogs => ret \in LogsFrom
        BY <2>4, SlotTypes DEF Slots
      <4>2. Slots' /\ Shown' = searchRet
        BY <2>3, <3>1, <4>1, PlainSlots, ShownThen
      <4> QED BY <3>1, <4>2, ModeTypes
    <3>2. CASE searchRet = AiPanel /\ Shown = ret /\ ret \in Easy
      <4>1. Top' = AiPanel /\ Shown' = ret
        BY <2>3, <2>4, <3>2 DEF Top, Shown, Under
      <4>2. Slots'
        BY <2>3, <2>4, <3>2, <4>1, EasyFacts DEF Slots
      <4> QED BY <3>2, <4>1, <4>2, ModeTypes
    <3> QED BY <1>12, <3>1, <3>2, ShownUnder, SlotTypes
  <2>6. Go(searchRet, {}, {}, scope) /\ Wanted(Shown') = (On \ {}) \cup {}
    BY <1>1, <2>1, <2>5, SlotTypes
  <2> QED BY <1>2, <2>5, <2>6, GoStep
<1>13. mode \in Tables \cup Fulls \cup Lit \cup {Extract, AiPanel, FluxLogs, Command, Search}
  BY SlotTypes DEF Modes, Prompts, Palette, Lit
<1> QED
  BY <1>4, <1>5, <1>6, <1>7, <1>8, <1>9, <1>10, <1>11, <1>12, <1>13 DEF Tables, Fulls

-----------------------------------------------------------------------------
(* Fetches, answers, sessions *)

(* A loop takes its turn, or is answered.                                  *)
LEMMA LoopStep ==
  ASSUME ShellInv, NEW v \in Scoped, loops[v] # None, NEW phase \in {"idle", "fetching"},
         loops' = [loops EXCEPT ![v].phase = phase],
         shown' \in [Scoped -> Scopes \cup {None}],
         UNCHANGED <<mode, slots, scope, shots, extracting, life>>
  PROVE  ShellInv'
<1> DEFINE x == [loops[v] EXCEPT !.phase = phase]
<1>0. loops \in [Running -> Loop \cup {None}] /\ v \in Running
  BY DEF ShellInv, TypeOK, Scoped, Running
<1>1. x \in Loop /\ x.scope = loops[v].scope
  BY <1>0 DEF Loop
<1>2. loops' = [loops EXCEPT ![v] = x]
  BY <1>0
<1>3. x # None
  BY <1>1, ShellAssumption DEF Loop
<1> HIDE DEF x
<1>4. /\ loops' \in [Running -> Loop \cup {None}] /\ loops'[v] = x
      /\ \A h \in Running \ {v} : loops'[h] = loops[h]
  BY <1>0, <1>1, <1>2
<1>5. /\ mode' = mode /\ scope' = scope /\ shots' = shots /\ extracting' = extracting
      /\ ret' = ret /\ cmdRet' = cmdRet /\ searchRet' = searchRet
      /\ pending' = pending /\ session' = session /\ orphans' = orphans
  BY DEF slots, life
<1>6. TypeOK'
  BY <1>4, <1>5 DEF ShellInv, TypeOK
<1>7. On' = On
  BY <1>3, <1>4 DEF On
<1>8. LoopReadsScope'
  <2> SUFFICES ASSUME NEW w \in Scoped, loops'[w] # None PROVE loops'[w].scope = scope
    BY <1>5 DEF LoopReadsScope
  <2>1. w \in Running
    BY DEF Scoped, Running
  <2> QED BY <1>1, <1>4, <2>1 DEF ShellInv, LoopReadsScope
<1>9. Slots' /\ Shown' = Shown
  BY <1>5, AsideSlots DEF ShellInv, slots
<1> QED BY <1>5, <1>6, <1>7, <1>8, <1>9, KeepStep

LEMMA InvLoops ==
  ASSUME ShellInv, NEW v \in Scoped, LoopTicks(v) \/ LoopAnswered(v) \/ LoopRefused(v)
  PROVE  ShellInv'
<1>1. shown \in [Scoped -> Scopes \cup {None}]
  BY DEF ShellInv, TypeOK
<1>2. CASE LoopTicks(v)
  BY <1>1, <1>2, LoopStep DEF LoopTicks
<1>3. CASE LoopRefused(v)
  BY <1>1, <1>3, LoopStep DEF LoopRefused, Fetching
<1>4. CASE LoopAnswered(v)
  <2>1. loops[v] # None /\ v \in Running
    BY <1>4 DEF LoopAnswered, Fetching, Scoped, Running
  <2>2. loops[v].scope \in Scopes
    BY <2>1 DEF ShellInv, TypeOK, Loop
  <2>3. shown' \in [Scoped -> Scopes \cup {None}]
    BY <1>1, <1>4, <2>2 DEF LoopAnswered
  <2> QED BY <1>4, <2>1, <2>3, LoopStep DEF LoopAnswered
<1> QED BY <1>2, <1>3, <1>4

(* A one-shot fetch starts or ends.                                        *)
LEMMA ShotStep ==
  ASSUME ShellInv, shots' \in [Scoped \X Scopes -> 0..MaxShots],
         shown' \in [Scoped -> Scopes \cup {None}],
         UNCHANGED <<mode, slots, scope, loops, extracting, life>>
  PROVE  ShellInv'
<1>1. /\ mode' = mode /\ scope' = scope /\ loops' = loops /\ extracting' = extracting
      /\ ret' = ret /\ cmdRet' = cmdRet /\ searchRet' = searchRet
      /\ pending' = pending /\ session' = session /\ orphans' = orphans
  BY DEF slots, life
<1>2. TypeOK'
  BY <1>1 DEF ShellInv, TypeOK
<1>3. On' = On /\ LoopReadsScope'
  BY <1>1 DEF ShellInv, On, LoopReadsScope
<1>4. Slots' /\ Shown' = Shown
  BY <1>1, AsideSlots DEF ShellInv, slots
<1> QED BY <1>1, <1>2, <1>3, <1>4, KeepStep

LEMMA InvShots ==
  ASSUME ShellInv, NEW v \in Scoped, Refresh(v) \/ \E s \in Scopes : ShotEnds(v, s)
  PROVE  ShellInv'
<1>1. shown \in [Scoped -> Scopes \cup {None}] /\ shots \in [Scoped \X Scopes -> 0..MaxShots]
      /\ scope \in Scopes
  BY DEF ShellInv, TypeOK
<1>2. CASE Refresh(v)
  <2>0. PICK f \in Scoped \X Scopes : f = <<v, scope>>
    BY <1>1
  <2>1. shots[f] < MaxShots /\ shots[f] \in 0..MaxShots
    BY <1>1, <1>2, <2>0 DEF Refresh
  <2>2. shots[f] + 1 \in 0..MaxShots
    BY <2>1, ShellAssumption
  <2>3. shots' = [shots EXCEPT ![f] = shots[f] + 1]
    BY <1>2, <2>0 DEF Refresh
  <2>4. shots' \in [Scoped \X Scopes -> 0..MaxShots]
    BY <1>1, <2>2, <2>3
  <2> QED BY <1>1, <1>2, <2>4, ShotStep DEF Refresh
<1>3. ASSUME NEW s \in Scopes, ShotEnds(v, s) PROVE ShellInv'
  <2>0. PICK f \in Scoped \X Scopes : f = <<v, s>>
    OBVIOUS
  <2>1. shots[f] > 0 /\ shots[f] \in 0..MaxShots
    BY <1>1, <1>3, <2>0 DEF ShotEnds
  <2>2. shots[f] - 1 \in 0..MaxShots
    BY <2>1, ShellAssumption
  <2>3. shots' = [shots EXCEPT ![f] = shots[f] - 1]
    BY <1>3, <2>0 DEF ShotEnds
  <2>4. shots' \in [Scoped \X Scopes -> 0..MaxShots]
    BY <1>1, <2>2, <2>3
  <2>5. shown' \in [Scoped -> Scopes \cup {None}]
    BY <1>1, <1>3 DEF ShotEnds
  <2> QED BY <1>3, <2>4, <2>5, ShotStep DEF ShotEnds
<1> QED BY <1>2, <1>3

LEMMA InvContext == ASSUME ShellInv, RunContext PROVE ShellInv'
<1>1. /\ mode = Command /\ mode' = cmdRet /\ cmdRet' = Selection /\ pending' = TRUE
      /\ UNCHANGED <<ret, searchRet, scope, loops, shots, shown, extracting, session, orphans>>
  BY DEF RunContext
<1>2. Shown = cmdRet /\ cmdRet \in Easy
  BY <1>1, SlotTypes, ShownUnder DEF Easy
<1>3. Slots' /\ Shown' = Shown /\ mode' \in Modes
  BY <1>1, <1>2, ToEasy
<1>4. TypeOK'
  BY <1>1, <1>3, ModeTypes DEF ShellInv, TypeOK
<1>5. On' = On /\ LoopReadsScope'
  BY <1>1 DEF ShellInv, On, LoopReadsScope
<1> QED BY <1>1, <1>3, <1>4, <1>5, KeepStep

LEMMA InvStay == ASSUME ShellInv, Stay \/ UNCHANGED vars PROVE ShellInv'
<1>1. /\ mode' = mode /\ scope' = scope /\ loops' = loops /\ extracting' = extracting
      /\ ret' = ret /\ cmdRet' = cmdRet /\ searchRet' = searchRet /\ shots' = shots
      /\ shown' = shown /\ pending' \in {pending, FALSE} /\ session' = session
      /\ orphans' = orphans
  BY DEF Stay, vars, slots
<1>2. TypeOK'
  BY <1>1 DEF ShellInv, TypeOK
<1>3. On' = On /\ LoopReadsScope'
  BY <1>1 DEF ShellInv, On, LoopReadsScope
<1>4. Slots' /\ Shown' = Shown
  BY <1>1, AsideSlots DEF ShellInv, slots
<1> QED BY <1>1, <1>2, <1>3, <1>4, KeepStep

(* With nothing running, at the list of events.                            *)
LEMMA AtHome ==
  /\ Wanted(Selection) = {} /\ Selection \in Modes /\ Selection \in Easy
  /\ Quiet \in [Running -> Loop \cup {None}]
  /\ NoShots \in [Scoped \X Scopes -> 0..MaxShots]
  /\ {h \in Running : Quiet[h] # None} = {}
<1>1. 0 \in 0..MaxShots
  BY ShellAssumption
<1> QED BY <1>1, WantedFacts, ModeTypes DEF Quiet, NoShots, Easy, Lit

(* `shutdown` knows every loop there can be.                               *)
LEMMA EveryHandle == Running \ Handles = {}
  BY ShellAssumption DEF Running, Handles, Views

LEMMA InvSwitch == ASSUME ShellInv, Switch PROVE ShellInv'
<1>1. /\ orphans' = orphans \cup {<<session, h>> : h \in {k \in Running \ Handles : loops[k] # None}}
      /\ session < MaxSessions /\ session' = session + 1 /\ pending' = FALSE
      /\ mode' = Selection /\ ret' = Selection /\ cmdRet' = Selection /\ searchRet' = Selection
      /\ scope' = AllNs /\ loops' = Quiet /\ shots' = NoShots
      /\ shown' = [v \in Scoped |-> None] /\ extracting' = FALSE
  BY DEF Switch
<1>2. orphans' = {}
  <2>1. {k \in Running \ Handles : loops[k] # None} = {}
    BY EveryHandle
  <2>2. orphans = {}
    BY DEF ShellInv
  <2> QED BY <1>1, <2>1, <2>2
<1>3. session' \in 1..MaxSessions
  <2>1. session \in 1..MaxSessions
    BY DEF ShellInv, TypeOK
  <2> QED BY <1>1, <2>1, ShellAssumption
<1>4. TypeOK'
  BY <1>1, <1>2, <1>3, AtHome, ShellAssumption DEF TypeOK
<1>5. Slots' /\ Shown' = Selection
  BY <1>1, AtHome, ToEasy
<1>6. On' = {} /\ LoopReadsScope'
  <2>1. \A h \in Running : loops'[h] = None
    BY <1>1 DEF Quiet
  <2>2. Scoped \subseteq Running
    BY DEF Scoped, Running
  <2> QED BY <2>1, <2>2 DEF On, LoopReadsScope
<1>7. On' = Wanted(Shown')
  BY <1>5, <1>6, AtHome
<1> QED BY <1>2, <1>4, <1>5, <1>6, <1>7 DEF ShellInv

-----------------------------------------------------------------------------
(* The theorems *)

LEMMA InvInit == ASSUME Init PROVE ShellInv
<1>1. TypeOK
  <2>1. session \in 1..MaxSessions
    BY ShellAssumption DEF Init
  <2>2. /\ mode \in Modes /\ {ret, cmdRet, searchRet} \subseteq Modes /\ scope \in Scopes
        /\ {extracting, pending} \subseteq BOOLEAN
    BY AtHome DEF Init
  <2>3. /\ loops \in [Running -> Loop \cup {None}] /\ shots \in [Scoped \X Scopes -> 0..MaxShots]
        /\ shown \in [Scoped -> Scopes \cup {None}] /\ orphans = {}
    BY AtHome DEF Init
  <2> QED BY <2>1, <2>2, <2>3 DEF TypeOK
<1>2. Slots /\ Shown = Selection
  <2>1. mode = Selection /\ Selection \in Plain /\ Selection # Extract /\ Selection # FluxLogs
    BY AtHome, EasyFacts DEF Init
  <2>2. Top = Selection /\ Shown = Selection
    BY <2>1, ShownNow
  <2> QED BY <2>1, <2>2, PlainFacts DEF Slots
<1>3. On = {} /\ LoopReadsScope
  <2>1. \A h \in Running : loops[h] = None
    BY DEF Init, Quiet
  <2>2. Scoped \subseteq Running
    BY DEF Scoped, Running
  <2> QED BY <2>1, <2>2 DEF On, LoopReadsScope
<1>4. orphans = {}
  BY DEF Init
<1> QED BY <1>1, <1>2, <1>3, <1>4, AtHome DEF ShellInv

LEMMA InvKey == ASSUME ShellInv, Key PROVE ShellInv'
<1>1. ASSUME NEW s \in Scopes, RunEvents(s) \/ PickNamespace(s) \/ Narrow(s) PROVE ShellInv'
  BY <1>1, InvRun, InvPick, InvNarrow
<1>2. ASSUME NEW v \in Used, NEW s \in Scopes, RunView(v, s) PROVE ShellInv'
  BY <1>2, InvRun
<1>3. ASSUME NEW j \in JumpKeys, {j[1], j[2]} \subseteq Used, Jump(j[1], j[2]) PROVE ShellInv'
  BY <1>3, InvJump
<1>4. ASSUME NEW v \in Scoped, Refresh(v) PROVE ShellInv'
  BY <1>4, InvShots
<1> QED
  BY <1>1, <1>2, <1>3, <1>4, InvDeeper, InvExtract, InvAi, InvCommand, InvSearch, InvEsc,
     InvContext, InvNodes, InvLogs DEF Key

LEMMA InvNext == ASSUME ShellInv, [Next]_vars PROVE ShellInv'
  BY InvKey, InvExtract, InvStay, InvSwitch, InvLoops, InvShots DEF Next

LEMMA InvImplies == ASSUME ShellInv PROVE LoopsFollowTheView
<1>1. LoopsMatchView
  BY DEF ShellInv, LoopsMatchView, On, Wanted
<1> QED BY <1>1 DEF ShellInv, LoopsFollowTheView, NothingOutlivesSession

(* Whatever leads into a view, out of it, or over it, and whatever is      *)
(* fetched meanwhile: the loops that run are those of the view on screen,  *)
(* they fetch under the scope in force, and none outlives its session.     *)
THEOREM LoopsAreTheViews == Spec => []LoopsFollowTheView
<1>1. Init => ShellInv
  BY InvInit
<1>2. ShellInv /\ [Next]_vars => ShellInv'
  BY InvNext
<1>3. ShellInv => LoopsFollowTheView
  BY InvImplies
<1> QED BY <1>1, <1>2, <1>3, PTL DEF Spec

(* How far from home a mode is.                                            *)
LEMMA HomeAgain ==
  ASSUME ShellInv
  PROVE  EscGoesHome
<1> DEFINE back(m) == Back(m, ret, cmdRet, searchRet)
<1>1. back(Selection) = Selection /\ back(DetailFull) = Selection /\ back(Diagnostic) = Selection
      /\ back(NodeUsage) = Table("nodes") /\ back(AiPanel) = ret
      /\ back(Command) = cmdRet /\ back(Search) = searchRet
  BY BackFacts
<1>2. \A v : back(Full(v)) = Table(v) /\ back(Table(v)) = Selection
  BY BackFacts
<1>3. ret # Extract => back(Extract) = ret
  BY BackFacts
<1>4. ret \in LogsFrom => back(FluxLogs) = ret
  BY BackFacts
<1> HIDE DEF back
<1>5. ASSUME NEW m \in Easy PROVE back(back(m)) = Selection /\ back(back(back(m))) = Selection
  <2>1. m \in Tables \cup Fulls \cup Lit
    BY EasyFacts
  <2>2. back(back(m)) = Selection
    BY <1>1, <1>2, <2>1 DEF Tables, Fulls, Lit
  <2> QED BY <1>1, <2>2
<1>6. ASSUME NEW m \in Plain \cup {AiPanel}, m = AiPanel => ret \in Easy,
             m = FluxLogs => ret \in LogsFrom, m = Extract => ret = Selection
      PROVE  back(back(back(m))) = Selection
  <2>1. CASE m \in Easy
    BY <1>5, <2>1
  <2>2. CASE m = AiPanel
    BY <1>1, <1>5, <1>6, <2>2
  <2>3. CASE m = FluxLogs
    <3>1. ret \in Easy
      BY <1>6, <2>3, ModeTypes DEF Easy
    <3> QED BY <1>4, <1>5, <1>6, <2>3, <3>1
  <2>4. CASE m = Extract
    <3>1. Selection \in Easy /\ Selection # Extract
      BY AtHome, EasyFacts
    <3> QED BY <1>1, <1>3, <1>6, <2>4, <3>1
  <2> QED BY <2>1, <2>2, <2>3, <2>4, EasyFacts DEF Plain
<1>7. back(back(back(back(mode)))) = Selection
  <2>0. Command # Search /\ Slots
    BY Kinds, SlotTypes
  <2>1. CASE mode = Command
    <3>1. cmdRet \in Easy
      BY <2>0, <2>1, ShownUnder DEF Easy
    <3> QED BY <1>1, <1>5, <2>1, <3>1
  <2>2. CASE mode = Search
    <3>1. Top = searchRet /\ searchRet \in Plain \cup {AiPanel}
      BY <2>0, <2>2, ModeTypes DEF Top, Slots
    <3>2. /\ searchRet = AiPanel => ret \in Easy
          /\ searchRet = FluxLogs => ret \in LogsFrom
          /\ searchRet = Extract => ret = Selection
      BY <2>0, <3>1, EasyFacts DEF Slots
    <3> QED BY <1>1, <1>6, <2>2, <3>1, <3>2
  <2>3. CASE mode # Command /\ mode # Search
    <3>1. Top = mode /\ mode \in Plain \cup {AiPanel}
      <4>1. mode \in Plain \cup {AiPanel, Command, Search}
        BY SlotTypes, ModeTypes DEF Modes, Plain, Lit
      <4> QED BY <2>3, <4>1 DEF Top
    <3>2. /\ mode = AiPanel => ret \in Easy
          /\ mode = FluxLogs => ret \in LogsFrom
          /\ mode = Extract => ret = Selection
      BY <2>0, <3>1, EasyFacts DEF Slots
    <3>3. back(back(back(mode))) = Selection
      BY <1>6, <3>1, <3>2
    <3> QED BY <1>1, <3>3
  <2> QED BY <2>1, <2>2, <2>3
<1> QED BY <1>7 DEF EscGoesHome, back

(* Four times Esc leads from anywhere to the list of events.               *)
THEOREM EscLeadsHome == Spec => []EscGoesHome
<1>1. Init => ShellInv
  BY InvInit
<1>2. ShellInv /\ [Next]_vars => ShellInv'
  BY InvNext
<1>3. ShellInv => EscGoesHome
  BY HomeAgain
<1> QED BY <1>1, <1>2, <1>3, PTL DEF Spec

-----------------------------------------------------------------------------
(***************************************************************************)
(* The detail panels                                                       *)
(***************************************************************************)

(* A panel holds its own text, and what it waits for was asked.            *)
Sound(panel, keys, asks) ==
  /\ panel \in Panels(keys)
  /\ panel.of \in {Nothing, panel.key}
  /\ panel.loading => panel.key \in keys /\ asks[panel.key] > 0

Keys ==
  /\ view \in DetailViews
  /\ row \in Objects \cup {Nothing}
  /\ node \in Nodes \cup {Nothing}
  /\ lastStatus \in Objects \cup {Nothing}
  /\ lastNode \in Nodes \cup {Nothing}
  /\ lastSel \in Pods \cup {Nothing}
  /\ lastPod \in LogKeys \cup {Nothing}
  /\ previous \in BOOLEAN /\ follow \in BOOLEAN
  /\ follow => ~previous

Asks ==
  /\ statusAsks \in [StatusKeys -> Nat] /\ Sound(status, StatusKeys, statusAsks)
  /\ logAsks \in [LogKeys -> Nat] /\ Sound(logs, LogKeys, logAsks)

(* A key that was asked for is the key of the panel, where it will be read. *)
StatusKept ==
  /\ view \in {"events", "secrets"} /\ lastStatus # Nothing => status.key \in {Nothing, lastStatus}
  /\ view = "pods" /\ lastStatus # Nothing => status.key = lastStatus
  /\ view = "nodes" /\ lastNode # Nothing => status.key = lastNode

LogsKept == lastPod # Nothing => logs.key = lastPod

(* The pods view has asked for its row whenever the row has changed.       *)
PodsKept ==
  view = "pods" =>
    lastSel = row /\ (row # Nothing => lastStatus = row /\ lastPod = LogKey(row, previous))

DetailInv == Keys /\ Asks /\ StatusKept /\ LogsKept /\ PodsKept

-----------------------------------------------------------------------------
(* Panels *)

LEMMA ClearedSound ==
  ASSUME NEW keys, NEW asks
  PROVE  Sound(Cleared, keys, asks) /\ Cleared.key = Nothing
  BY DEF Sound, Cleared, Panels

LEMMA LoadingSound ==
  ASSUME NEW keys, NEW asks, NEW k \in keys, asks[k] > 0
  PROVE  Sound(Loading(k), keys, asks) /\ Loading(k).key = k
  BY DEF Sound, Loading, Panels

LEMMA SpawnedAsks ==
  ASSUME NEW keys, NEW asks \in [keys -> Nat], NEW k \in keys
  PROVE  Spawned(asks, k) \in [keys -> Nat] /\ Spawned(asks, k)[k] > 0
<1>1. Spawned(asks, k) = [asks EXCEPT ![k] = asks[k] + 1]
  BY DEF Spawned
<1> QED BY <1>1

LEMMA StatusAsked ==
  ASSUME Asks, NEW panel, Sound(panel, StatusKeys, statusAsks), NEW last \in Objects \cup {Nothing},
         NEW o \in Objects \cup {Nothing}, MaybeFetchStatus(panel, last, o)
  PROVE  /\ statusAsks' \in [StatusKeys -> Nat] /\ Sound(status', StatusKeys, statusAsks')
         /\ lastStatus' \in Objects \cup {Nothing}
         /\ o \in {Nothing, last} => lastStatus' = last /\ status' = panel
         /\ o \notin {Nothing, last} => lastStatus' = o /\ status'.key = o
<1>1. CASE o \in {Nothing, last}
  BY <1>1 DEF MaybeFetchStatus, Asks
<1>2. CASE o \notin {Nothing, last}
  <2>1. lastStatus' = o /\ status' = Loading(o) /\ statusAsks' = Spawned(statusAsks, o)
    BY <1>2 DEF MaybeFetchStatus
  <2>2. o \in StatusKeys /\ o \in Objects
    BY <1>2 DEF StatusKeys
  <2>3. statusAsks' \in [StatusKeys -> Nat] /\ statusAsks'[o] > 0
    BY <2>1, <2>2, SpawnedAsks DEF Asks
  <2>4. Sound(status', StatusKeys, statusAsks') /\ status'.key = o
    BY <2>1, <2>2, <2>3, LoadingSound
  <2> QED BY <1>2, <2>1, <2>2, <2>3, <2>4
<1> QED BY <1>1, <1>2

LEMMA NodeAsked ==
  ASSUME Asks, NEW panel, Sound(panel, StatusKeys, statusAsks), NEW last \in Nodes \cup {Nothing},
         NEW n \in Nodes \cup {Nothing}, MaybeFetchNodeStatus(panel, last, n)
  PROVE  /\ statusAsks' \in [StatusKeys -> Nat] /\ Sound(status', StatusKeys, statusAsks')
         /\ lastNode' \in Nodes \cup {Nothing}
         /\ n \in {Nothing, last} => lastNode' = last /\ status' = panel
         /\ n \notin {Nothing, last} => lastNode' = n /\ status'.key = n
<1>1. CASE n \in {Nothing, last}
  BY <1>1 DEF MaybeFetchNodeStatus, Asks
<1>2. CASE n \notin {Nothing, last}
  <2>1. lastNode' = n /\ status' = Loading(n) /\ statusAsks' = Spawned(statusAsks, n)
    BY <1>2 DEF MaybeFetchNodeStatus
  <2>2. n \in StatusKeys /\ n \in Nodes
    BY <1>2 DEF StatusKeys
  <2>3. statusAsks' \in [StatusKeys -> Nat] /\ statusAsks'[n] > 0
    BY <2>1, <2>2, SpawnedAsks DEF Asks
  <2>4. Sound(status', StatusKeys, statusAsks') /\ status'.key = n
    BY <2>1, <2>2, <2>3, LoadingSound
  <2> QED BY <1>2, <2>1, <2>2, <2>3, <2>4
<1> QED BY <1>1, <1>2

LEMMA LogKeyType ==
  ASSUME NEW o \in Pods, NEW prev \in BOOLEAN
  PROVE  LogKey(o, prev) \in LogKeys /\ LogKey(o, prev) # Nothing
  BY DetailAssumption DEF LogKey, LogKeys

(* The logs, whatever the row: they are of the key that is remembered.     *)
LEMMA LogsAsked ==
  ASSUME Asks, NEW last \in LogKeys \cup {Nothing}, last # Nothing => logs.key = last,
         NEW o \in Objects \cup {Nothing}, NEW prev \in BOOLEAN, MaybeFetchLogs(last, o, prev)
  PROVE  /\ logAsks' \in [LogKeys -> Nat] /\ Sound(logs', LogKeys, logAsks')
         /\ lastPod' \in LogKeys \cup {Nothing}
         /\ LogsKept'
         /\ o \in Pods => lastPod' = LogKey(o, prev)
<1>0. Nothing \notin Objects /\ Pods \subseteq Objects
  BY DetailAssumption
<1>1. CASE o = Nothing /\ lastPod' = last /\ UNCHANGED <<logs, logAsks>>
  BY <1>0, <1>1 DEF Asks, LogsKept
<1>2. CASE o \in Objects \ Pods /\ lastPod' = NoLogs(last) /\ logs' = Cleared /\ UNCHANGED logAsks
  BY <1>2, ClearedSound DEF Asks, LogsKept, NoLogs
<1>3. CASE o \in Pods /\ last = LogKey(o, prev) /\ lastPod' = last /\ UNCHANGED <<logs, logAsks>>
  BY <1>3 DEF Asks, LogsKept
<1>4. ASSUME o \in Pods, lastPod' = LogKey(o, prev), logs' = Loading(LogKey(o, prev)),
             logAsks' = Spawned(logAsks, LogKey(o, prev))
      PROVE  /\ logAsks' \in [LogKeys -> Nat] /\ Sound(logs', LogKeys, logAsks')
             /\ lastPod' \in LogKeys \cup {Nothing}
             /\ LogsKept'
             /\ o \in Pods => lastPod' = LogKey(o, prev)
  <2>1. PICK k \in LogKeys : k = LogKey(o, prev)
    BY <1>4, LogKeyType
  <2>2. logAsks' \in [LogKeys -> Nat] /\ logAsks'[k] > 0
    BY <1>4, <2>1, SpawnedAsks DEF Asks
  <2>3. Sound(logs', LogKeys, logAsks') /\ logs'.key = k
    BY <1>4, <2>1, <2>2, LoadingSound
  <2> QED BY <1>4, <2>1, <2>2, <2>3 DEF LogsKept
<1> QED BY <1>1, <1>2, <1>3, <1>4 DEF MaybeFetchLogs

LEMMA LeftSound ==
  ASSUME Asks
  PROVE  /\ Sound(Left, StatusKeys, statusAsks)
         /\ view \in {"nodes", "pods"} => Left.key = Nothing
         /\ view \notin {"nodes", "pods"} => Left = status
  BY ClearedSound DEF Asks, Left, ClearStatus

LEMMA StatusAside ==
  ASSUME Asks, UNCHANGED <<status, statusAsks>>
  PROVE  statusAsks' \in [StatusKeys -> Nat] /\ Sound(status, StatusKeys, statusAsks)
         /\ Sound(status', StatusKeys, statusAsks')
  BY DEF Asks

LEMMA LogsAside ==
  ASSUME Asks, UNCHANGED <<logs, logAsks>>
  PROVE  logAsks' \in [LogKeys -> Nat] /\ Sound(logs', LogKeys, logAsks')
  BY DEF Asks

-----------------------------------------------------------------------------
(* From view to view *)

LEMMA DetailEvents == ASSUME DetailInv, NEW anew \in BOOLEAN, DetailRunEvents(anew) PROVE DetailInv'
<1>1. Keys'
  BY DEF DetailInv, Keys, DetailRunEvents, DetailViews
<1>2. Sound(status', StatusKeys, statusAsks') /\ statusAsks' \in [StatusKeys -> Nat]
  BY LeftSound DEF DetailInv, Asks, DetailRunEvents
<1>3. Asks'
  BY <1>2, LogsAside DEF DetailInv, Asks, DetailRunEvents
<1>4. StatusKept'
  <2>1. view' = "events" /\ status' = Left /\ lastStatus' \in {Nothing, lastStatus}
    BY DEF DetailRunEvents
  <2>2. CASE view \in {"nodes", "pods"}
    BY <2>1, <2>2, LeftSound DEF DetailInv, StatusKept
  <2>3. CASE view \notin {"nodes", "pods"}
    BY <2>1, <2>3, LeftSound DEF DetailInv, Keys, StatusKept, DetailViews
  <2> QED BY <2>2, <2>3
<1>5. LogsKept' /\ PodsKept'
  BY DEF DetailInv, DetailRunEvents, LogsKept, PodsKept
<1> QED BY <1>1, <1>3, <1>4, <1>5 DEF DetailInv

LEMMA DetailNamespace == ASSUME DetailInv, ApplyNamespace PROVE DetailInv'
<1>1. Keys' /\ StatusKept' /\ LogsKept' /\ PodsKept'
  BY DEF DetailInv, Keys, ApplyNamespace, StatusKept, LogsKept, PodsKept
<1>2. Asks'
  BY DEF DetailInv, Asks, ApplyNamespace
<1> QED BY <1>1, <1>2 DEF DetailInv

LEMMA DetailEnterNodes == ASSUME DetailInv, NEW n \in Nodes \cup {Nothing}, EnterNodes(n) PROVE DetailInv'
<1>1. /\ view' = "nodes" /\ node' = n /\ MaybeFetchNodeStatus(Left, Nothing, n)
      /\ UNCHANGED <<row, lastStatus, lastSel, logVars, previous, follow>>
  BY DEF EnterNodes
<1>2. Asks /\ Sound(Left, StatusKeys, statusAsks)
  BY LeftSound DEF DetailInv
<1>3. /\ statusAsks' \in [StatusKeys -> Nat] /\ Sound(status', StatusKeys, statusAsks')
      /\ lastNode' \in Nodes \cup {Nothing}
      /\ n \in {Nothing} => lastNode' = Nothing
      /\ n \notin {Nothing} => lastNode' = n /\ status'.key = n
  BY <1>1, <1>2, NodeAsked
<1>4. lastPod' = lastPod /\ logs' = logs /\ logAsks' = logAsks
  BY <1>1 DEF logVars
<1>5. Keys'
  BY <1>1, <1>3, <1>4 DEF DetailInv, Keys, DetailViews
<1>6. Asks'
  BY <1>3, <1>4 DEF DetailInv, Asks
<1>7. StatusKept' /\ LogsKept' /\ PodsKept'
  BY <1>1, <1>3, <1>4 DEF DetailInv, StatusKept, LogsKept, PodsKept
<1> QED BY <1>5, <1>6, <1>7 DEF DetailInv

LEMMA DetailExits ==
  ASSUME DetailInv, ExitNodes \/ ExitPods \/ ExitSecrets \/ EnterSecrets
  PROVE  DetailInv'
<1>1. /\ view' \in {"events", "secrets"} /\ row' \in {row, Nothing} /\ node' = node
      /\ lastStatus' \in {lastStatus, Nothing} /\ lastNode' \in {lastNode, Nothing}
      /\ lastSel' \in {lastSel, Nothing} /\ lastPod' \in {lastPod, Nothing}
      /\ previous' = previous /\ follow' = follow
      /\ logs' = logs /\ logAsks' = logAsks /\ statusAsks' = statusAsks
  BY DEF ExitNodes, ExitPods, ExitSecrets, EnterSecrets, logVars, statusVars
<1>2. status' \in {Cleared, Left} \/ (view = "secrets" /\ status' = status)
  BY DEF ExitNodes, ExitPods, ExitSecrets, EnterSecrets, statusVars, ClearStatus
<1>3. /\ Sound(status', StatusKeys, statusAsks')
      /\ status'.key = Nothing \/ (view \in {"events", "secrets"} /\ status' = status)
  <2>1. CASE status' = Cleared
    BY <1>1, <2>1, ClearedSound
  <2>2. CASE status' = Left
    BY <1>1, <2>2, LeftSound DEF DetailInv, Keys, DetailViews
  <2>3. CASE view = "secrets" /\ status' = status
    BY <1>1, <2>3 DEF DetailInv, Asks
  <2> QED BY <1>2, <2>1, <2>2, <2>3
<1>4. Keys' /\ PodsKept' /\ LogsKept'
  BY <1>1 DEF DetailInv, Keys, DetailViews, PodsKept, LogsKept
<1>5. Asks'
  BY <1>1, <1>3 DEF DetailInv, Asks
<1>6. StatusKept'
  BY <1>1, <1>3 DEF DetailInv, StatusKept
<1> QED BY <1>4, <1>5, <1>6 DEF DetailInv

(* The highlighted row is `o`, and both panels are asked about it.         *)
LEMMA RowAsked ==
  ASSUME DetailInv, NEW o \in Objects \cup {Nothing}, NEW panel, Sound(panel, StatusKeys, statusAsks),
         NEW last \in Objects \cup {Nothing}, NEW lastLog \in LogKeys \cup {Nothing},
         lastLog # Nothing => logs.key = lastLog,
         row' = o, lastSel' \in Pods \cup {Nothing}, view' \in {"events", "pods"},
         MaybeFetchLogs(lastLog, o, previous), MaybeFetchStatus(panel, last, o),
         UNCHANGED <<node, lastNode, previous, follow>>,
         view' = "pods" => lastSel' = o /\ o \in Pods \cup {Nothing},
         last # Nothing => panel.key = last \/ (view' = "events" /\ panel.key = Nothing)
  PROVE  DetailInv'
<1>1. /\ statusAsks' \in [StatusKeys -> Nat] /\ Sound(status', StatusKeys, statusAsks')
      /\ lastStatus' \in Objects \cup {Nothing}
      /\ o \in {Nothing, last} => lastStatus' = last /\ status' = panel
      /\ o \notin {Nothing, last} => lastStatus' = o /\ status'.key = o
  BY StatusAsked DEF DetailInv
<1>2. previous \in BOOLEAN
  BY DEF DetailInv, Keys
<1>3. /\ logAsks' \in [LogKeys -> Nat] /\ Sound(logs', LogKeys, logAsks')
      /\ lastPod' \in LogKeys \cup {Nothing}
      /\ LogsKept'
      /\ o \in Pods => lastPod' = LogKey(o, previous)
  BY <1>2, LogsAsked DEF DetailInv
<1>4. Keys'
  BY <1>1, <1>3 DEF DetailInv, Keys, DetailViews
<1>5. Asks'
  BY <1>1, <1>3 DEF Asks
<1>6. StatusKept'
  BY <1>1 DEF StatusKept
<1>7. PodsKept'
  BY <1>1, <1>3, DetailAssumption DEF PodsKept
<1> QED BY <1>3, <1>4, <1>5, <1>6, <1>7 DEF DetailInv

LEMMA DetailRows ==
  ASSUME DetailInv,
         \/ \E o \in Objects : EventsTick(o)
         \/ \E o \in Pods \cup {Nothing} : EnterPods(o) \/ PodsTick(o)
  PROVE  DetailInv'
<1>0. /\ Asks /\ Sound(status, StatusKeys, statusAsks) /\ lastStatus \in Objects \cup {Nothing}
      /\ lastPod \in LogKeys \cup {Nothing} /\ lastSel \in Pods \cup {Nothing}
      /\ lastPod # Nothing => logs.key = lastPod
      /\ Pods \subseteq Objects
  BY DetailAssumption DEF DetailInv, Keys, Asks, LogsKept
<1>1. ASSUME NEW o \in Objects, EventsTick(o) PROVE DetailInv'
  <2>1. /\ view = "events" /\ row' = o /\ MaybeFetchLogs(lastPod, o, previous)
        /\ MaybeFetchStatus(status, lastStatus, o)
        /\ UNCHANGED <<view, node, lastNode, lastSel, previous, follow>>
    BY <1>1 DEF EventsTick
  <2>2. lastStatus # Nothing => status.key = lastStatus \/ status.key = Nothing
    BY <2>1 DEF DetailInv, StatusKept
  <2> QED BY <1>0, <2>1, <2>2, RowAsked
<1>2. ASSUME NEW o \in Pods \cup {Nothing}, EnterPods(o) PROVE DetailInv'
  <2>1. PICK panel : panel = IF view = "pods" THEN status ELSE Left
    OBVIOUS
  <2>2. /\ view' = "pods" /\ row' = o /\ lastSel' = o /\ MaybeFetchLogs(Nothing, o, previous)
        /\ MaybeFetchStatus(panel, Nothing, o)
        /\ UNCHANGED <<node, lastNode, previous, follow>>
    BY <1>2, <2>1 DEF EnterPods
  <2>3. Sound(panel, StatusKeys, statusAsks)
    BY <1>0, <2>1, LeftSound
  <2> QED BY <1>0, <2>2, <2>3, RowAsked
<1>3. ASSUME NEW o \in Pods \cup {Nothing}, PodsTick(o) PROVE DetailInv'
  <2>1. /\ view = "pods" /\ row' = o /\ lastSel' = o
        /\ UNCHANGED <<view, node, lastNode, previous, follow>>
    BY <1>3 DEF PodsTick
  <2>2. CASE o \notin {Nothing, lastSel}
    <3>1. MaybeFetchLogs(lastPod, o, previous) /\ MaybeFetchStatus(status, lastStatus, o)
      BY <1>3, <2>2 DEF PodsTick
    <3>2. lastStatus # Nothing => status.key = lastStatus
      BY <2>1 DEF DetailInv, StatusKept
    <3> QED BY <1>0, <2>1, <3>1, <3>2, RowAsked
  <2>3. CASE o \in {Nothing, lastSel}
    <3>1. /\ status' = status /\ statusAsks' = statusAsks /\ lastStatus' = lastStatus
          /\ logs' = logs /\ logAsks' = logAsks /\ lastPod' = lastPod
      BY <1>3, <2>3 DEF PodsTick, statusVars, logVars
    <3>2. o = Nothing \/ o = row
      BY <2>1, <2>3 DEF DetailInv, PodsKept
    <3>3. Keys'
      BY <1>0, <2>1, <3>1 DEF DetailInv, Keys
    <3>4. Asks' /\ StatusKept' /\ LogsKept'
      BY <2>1, <3>1 DEF DetailInv, Asks, StatusKept, LogsKept
    <3>5. PodsKept'
      BY <2>1, <3>1, <3>2 DEF DetailInv, PodsKept
    <3> QED BY <3>3, <3>4, <3>5 DEF DetailInv
  <2> QED BY <2>2, <2>3
<1> QED BY <1>1, <1>2, <1>3

-----------------------------------------------------------------------------
(* Ticks, keys and answers *)

LEMMA DetailNodesTick == ASSUME DetailInv, NodesTick PROVE DetailInv'
<1>1. /\ view = "nodes" /\ MaybeFetchNodeStatus(status, lastNode, node)
      /\ UNCHANGED <<view, row, node, lastStatus, lastSel, logVars, previous, follow>>
  BY DEF NodesTick
<1>2. /\ Asks /\ Sound(status, StatusKeys, statusAsks) /\ lastNode \in Nodes \cup {Nothing}
      /\ node \in Nodes \cup {Nothing}
  BY DEF DetailInv, Keys, Asks
<1>3. /\ statusAsks' \in [StatusKeys -> Nat] /\ Sound(status', StatusKeys, statusAsks')
      /\ lastNode' \in Nodes \cup {Nothing}
      /\ node \in {Nothing, lastNode} => lastNode' = lastNode /\ status' = status
      /\ node \notin {Nothing, lastNode} => lastNode' = node /\ status'.key = node
  BY <1>1, <1>2, NodeAsked
<1>4. lastPod' = lastPod /\ logs' = logs /\ logAsks' = logAsks
  BY <1>1 DEF logVars
<1>5. Keys'
  BY <1>1, <1>3, <1>4 DEF DetailInv, Keys, DetailViews
<1>6. Asks'
  BY <1>3, <1>4 DEF DetailInv, Asks
<1>7. LogsKept' /\ PodsKept'
  BY <1>1, <1>4 DEF DetailInv, LogsKept, PodsKept
<1>8. StatusKept'
  BY <1>1, <1>3 DEF DetailInv, StatusKept
<1> QED BY <1>5, <1>6, <1>7, <1>8 DEF DetailInv

LEMMA DetailListed ==
  ASSUME DetailInv, (\E n \in Nodes : NodeListed(n)) \/ ToggleFollow \/ UNCHANGED detailVars
  PROVE  DetailInv'
<1>1. /\ view' = view /\ row' = row /\ node' \in Nodes \cup {node} /\ lastStatus' = lastStatus
      /\ lastNode' = lastNode /\ lastSel' = lastSel /\ lastPod' = lastPod /\ previous' = previous
      /\ logs' = logs /\ logAsks' = logAsks /\ statusAsks' = statusAsks /\ status' = status
  BY DEF NodeListed, ToggleFollow, detailVars, statusVars, logVars
<1>2. Keys'
  <2>1. follow' \in BOOLEAN /\ (follow' => ~previous')
    <3>1. CASE ToggleFollow
      BY <1>1, <3>1 DEF ToggleFollow, DetailInv, Keys
    <3>2. CASE ~ToggleFollow
      <4>1. follow' = follow
        BY <3>2 DEF NodeListed, detailVars
      <4> QED BY <1>1, <4>1 DEF DetailInv, Keys
    <3> QED BY <3>1, <3>2
  <2>2. node' \in Nodes \cup {Nothing}
    BY <1>1 DEF DetailInv, Keys
  <2> QED BY <1>1, <2>1, <2>2 DEF DetailInv, Keys
<1>3. Asks' /\ StatusKept' /\ LogsKept' /\ PodsKept'
  BY <1>1 DEF DetailInv, Asks, StatusKept, LogsKept, PodsKept
<1> QED BY <1>2, <1>3 DEF DetailInv

(* The logs of the row are asked for again.                                *)
LEMMA DetailAgain == ASSUME DetailInv, TogglePrevious \/ FollowTick PROVE DetailInv'
<1>1. /\ MaybeFetchLogs(Nothing, row, previous')
      /\ previous' \in BOOLEAN /\ follow' \in BOOLEAN /\ (follow' => ~previous')
      /\ UNCHANGED <<view, row, node, lastNode, lastSel, statusVars>>
  <2>1. CASE TogglePrevious
    BY <2>1 DEF TogglePrevious, DetailInv, Keys
  <2>2. CASE FollowTick
    BY <2>2 DEF FollowTick, DetailInv, Keys
  <2> QED BY <2>1, <2>2
<1>2. PICK prev \in BOOLEAN : prev = previous'
  BY <1>1
<1>3. Asks /\ row \in Objects \cup {Nothing}
  BY DEF DetailInv, Keys
<1>4. /\ logAsks' \in [LogKeys -> Nat] /\ Sound(logs', LogKeys, logAsks')
      /\ lastPod' \in LogKeys \cup {Nothing}
      /\ LogsKept'
      /\ row \in Pods => lastPod' = LogKey(row, prev)
  BY <1>1, <1>2, <1>3, LogsAsked
<1>5. lastStatus' = lastStatus /\ status' = status /\ statusAsks' = statusAsks
  BY <1>1 DEF statusVars
<1>6. Keys'
  BY <1>1, <1>4, <1>5 DEF DetailInv, Keys
<1>7. Asks'
  BY <1>4, <1>5 DEF DetailInv, Asks
<1>8. StatusKept'
  BY <1>1, <1>5 DEF DetailInv, StatusKept
<1>9. PodsKept'
  BY <1>1, <1>2, <1>4, <1>5 DEF DetailInv, Keys, PodsKept
<1> QED BY <1>4, <1>6, <1>7, <1>8, <1>9 DEF DetailInv

Fewer(asks, k) == [asks EXCEPT ![k] = @ - 1]

LEMMA Answered ==
  ASSUME NEW keys, NEW asks \in [keys -> Nat], NEW panel, Sound(panel, keys, asks),
         NEW k \in keys, asks[k] > 0, NEW fewer, fewer = Fewer(asks, k),
         NEW told, told = Answer(panel, k)
  PROVE  fewer \in [keys -> Nat] /\ Sound(told, keys, fewer) /\ told.key = panel.key
<1>1. fewer \in [keys -> Nat] /\ \A j \in keys \ {k} : fewer[j] = asks[j]
  <2>1. asks[k] - 1 \in Nat
    OBVIOUS
  <2> QED BY <2>1 DEF Fewer
<1>2. CASE panel.key = k
  <2>1. told = [panel EXCEPT !.of = k, !.loading = FALSE]
    BY <1>2 DEF Answer
  <2>2. told \in Panels(keys) /\ told.of = k /\ told.key = k /\ ~told.loading
    BY <1>2, <2>1 DEF Panels, Sound
  <2> QED BY <1>1, <1>2, <2>2 DEF Sound
<1>3. CASE panel.key # k
  BY <1>1, <1>3 DEF Sound, Answer
<1> QED BY <1>1, <1>2, <1>3

LEMMA DetailAnswered ==
  ASSUME DetailInv,
         \/ \E k \in StatusKeys : StatusAnswered(k)
         \/ \E k \in LogKeys : LogsAnswered(k)
  PROVE  DetailInv'
<1>1. ASSUME NEW k \in StatusKeys, StatusAnswered(k) PROVE DetailInv'
  <2>1. /\ statusAsks[k] > 0 /\ statusAsks' = [statusAsks EXCEPT ![k] = @ - 1]
        /\ status' = Answer(status, k)
        /\ view' = view /\ row' = row /\ node' = node /\ lastStatus' = lastStatus
        /\ lastNode' = lastNode /\ lastSel' = lastSel /\ lastPod' = lastPod /\ previous' = previous
        /\ logs' = logs /\ logAsks' = logAsks /\ follow' = follow
    BY <1>1 DEF StatusAnswered, logVars
  <2>2. Nothing \notin StatusKeys /\ statusAsks \in [StatusKeys -> Nat] /\ Sound(status, StatusKeys, statusAsks)
    BY DetailAssumption DEF StatusKeys, DetailInv, Asks
  <2>3. /\ statusAsks' \in [StatusKeys -> Nat] /\ Sound(status', StatusKeys, statusAsks')
        /\ status'.key = status.key
    <3>1. PICK asks : asks = statusAsks
      OBVIOUS
    <3>2. PICK panel : panel = status
      OBVIOUS
    <3>3. PICK fewer : fewer = Fewer(asks, k)
      OBVIOUS
    <3>4. PICK told : told = Answer(panel, k)
      OBVIOUS
    <3>5. statusAsks' = fewer /\ status' = told
      BY <2>1, <3>1, <3>2, <3>3, <3>4 DEF Fewer
    <3>6. asks \in [StatusKeys -> Nat] /\ Sound(panel, StatusKeys, asks) /\ asks[k] > 0 /\ Nothing \notin StatusKeys
      BY <2>1, <2>2, <3>1, <3>2
    <3>7. fewer \in [StatusKeys -> Nat] /\ Sound(told, StatusKeys, fewer) /\ told.key = panel.key
      BY <3>3, <3>4, <3>6, Answered
    <3> QED BY <3>2, <3>5, <3>7
  <2>4. Keys' /\ LogsKept' /\ PodsKept'
    BY <2>1 DEF DetailInv, Keys, LogsKept, PodsKept
  <2>5. StatusKept'
    BY <2>1, <2>3 DEF DetailInv, StatusKept
  <2>6. Asks'
    BY <2>1, <2>3 DEF DetailInv, Asks
  <2> QED BY <2>4, <2>5, <2>6 DEF DetailInv
<1>2. ASSUME NEW k \in LogKeys, LogsAnswered(k) PROVE DetailInv'
  <2>1. /\ logAsks[k] > 0 /\ logAsks' = [logAsks EXCEPT ![k] = @ - 1]
        /\ logs' = Answer(logs, k)
        /\ view' = view /\ row' = row /\ node' = node /\ lastStatus' = lastStatus
        /\ lastNode' = lastNode /\ lastSel' = lastSel /\ lastPod' = lastPod /\ previous' = previous
        /\ status' = status /\ statusAsks' = statusAsks /\ follow' = follow
    BY <1>2 DEF LogsAnswered, statusVars
  <2>2. Nothing \notin LogKeys /\ logAsks \in [LogKeys -> Nat] /\ Sound(logs, LogKeys, logAsks)
    BY DetailAssumption DEF LogKeys, DetailInv, Asks
  <2>3. /\ logAsks' \in [LogKeys -> Nat] /\ Sound(logs', LogKeys, logAsks')
        /\ logs'.key = logs.key
    <3>1. PICK asks : asks = logAsks
      OBVIOUS
    <3>2. PICK panel : panel = logs
      OBVIOUS
    <3>3. PICK fewer : fewer = Fewer(asks, k)
      OBVIOUS
    <3>4. PICK told : told = Answer(panel, k)
      OBVIOUS
    <3>5. logAsks' = fewer /\ logs' = told
      BY <2>1, <3>1, <3>2, <3>3, <3>4 DEF Fewer
    <3>6. asks \in [LogKeys -> Nat] /\ Sound(panel, LogKeys, asks) /\ asks[k] > 0 /\ Nothing \notin LogKeys
      BY <2>1, <2>2, <3>1, <3>2
    <3>7. fewer \in [LogKeys -> Nat] /\ Sound(told, LogKeys, fewer) /\ told.key = panel.key
      BY <3>3, <3>4, <3>6, Answered
    <3> QED BY <3>2, <3>5, <3>7
  <2>4. Keys' /\ StatusKept' /\ PodsKept'
    BY <2>1 DEF DetailInv, Keys, StatusKept, PodsKept
  <2>5. LogsKept'
    BY <2>1, <2>3 DEF DetailInv, LogsKept
  <2>6. Asks'
    BY <2>1, <2>3 DEF DetailInv, Asks
  <2> QED BY <2>4, <2>5, <2>6 DEF DetailInv
<1> QED BY <1>1, <1>2

-----------------------------------------------------------------------------
LEMMA DetailStarts == ASSUME DetailInit PROVE DetailInv
<1>1. Keys
  BY DEF DetailInit, Keys, DetailViews
<1>2. Asks
  BY ClearedSound DEF DetailInit, Asks
<1>3. StatusKept /\ LogsKept /\ PodsKept
  BY DEF DetailInit, StatusKept, LogsKept, PodsKept
<1> QED BY <1>1, <1>2, <1>3 DEF DetailInv

LEMMA DetailGoesOn == ASSUME DetailInv, [DetailNext]_detailVars PROVE DetailInv'
  BY DetailEvents, DetailNamespace, DetailEnterNodes, DetailExits, DetailRows, DetailNodesTick, DetailListed, DetailAgain,
     DetailAnswered DEF DetailNext

LEMMA DetailMeans == ASSUME DetailInv PROVE PanelsTellTheRow
<1>1. DetailTypeOK
  BY DEF DetailInv, DetailTypeOK, Keys, Asks, Sound
<1>2. OwnText /\ LoadingIsAsked
  <2>1. Nothing \notin StatusKeys /\ Nothing \notin LogKeys
    BY DetailAssumption DEF StatusKeys, LogKeys
  <2> QED BY <2>1 DEF DetailInv, Asks, Sound, OwnText, LoadingIsAsked
<1>3. StatusOfTheRow
  BY DEF DetailInv, StatusKept, PodsKept, StatusOfTheRow
<1>4. LogsOfTheRow
  <2> SUFFICES ASSUME row \in Pods, view = "pods" \/ lastPod = LogKey(row, previous)
               PROVE  logs.key = LogKey(row, previous)
    BY DEF LogsOfTheRow
  <2>1. LogKey(row, previous) # Nothing /\ row # Nothing
    BY LogKeyType, DetailAssumption DEF DetailInv, Keys
  <2>2. lastPod = LogKey(row, previous)
    BY <2>1 DEF DetailInv, PodsKept
  <2> QED BY <2>1, <2>2 DEF DetailInv, LogsKept
<1> QED BY <1>1, <1>2, <1>3, <1>4 DEF PanelsTellTheRow

(* The text on screen is that of the key its panel is for, which is the row *)
(* under the cursor wherever a tick would ask nothing more, and a panel    *)
(* that says it is loading is being answered (`maybe_fetch_status` and     *)
(* `maybe_fetch_logs` of src/ui.rs, with the ways in and out that reset    *)
(* the keys they remember).                                                *)
THEOREM PanelsAreTheRows == DetailSpec => []PanelsTellTheRow
<1>1. DetailInit => DetailInv
  BY DetailStarts
<1>2. DetailInv /\ [DetailNext]_detailVars => DetailInv'
  BY DetailGoesOn
<1>3. DetailInv => PanelsTellTheRow
  BY DetailMeans
<1> QED BY <1>1, <1>2, <1>3, PTL DEF DetailSpec

-----------------------------------------------------------------------------
(***************************************************************************)
(* The Cassandra view                                                      *)
(***************************************************************************)

JobType == [ask : Nat, node : Members]
RunType == [ask : Nat, node : Members, job : Nat \cup {Nil}]

Readable ==
  /\ captures \in [Captures -> CaptureStates]
  /\ inv \in Inventories
  /\ world \in Worlds
  /\ uid \in AllRows \cup {Nil}

(* A question names the node its command is for.                           *)
Questions ==
  /\ ntTarget \in Members \cup {Nil}
  /\ menu # Nil => menu \in Menus /\ menu.named = ntTarget

(* A Job made is the answer of one yes, and runs on the node it named.     *)
JobSound(j) ==
  /\ made[j] \in JobType
  /\ made[j].ask \in 1..Len(asked)
  /\ made[j].node = asked[made[j].ask]

Jobs ==
  /\ asked \in Seq(Members) /\ Len(asked) <= MaxCommands
  /\ made \in Seq(JobType)
  /\ \A j \in 1..Len(made) : JobSound(j)
  /\ \A j, k \in 1..Len(made) : made[j].ask = made[k].ask => j = k
  /\ focus \in ({"job"} \X (1..Len(made))) \cup {Nil}

(* A command under way works for one yes, its own, which has no Job before  *)
(* the command has made it.                                                *)
RunSound(r) ==
  /\ r \in RunType
  /\ r.ask \in 1..Len(asked)
  /\ r.node = asked[r.ask]
  /\ r.job # Nil => r.job \in 1..Len(made)
  /\ r.job = Nil => \A j \in 1..Len(made) : made[j].ask # r.ask

Commands ==
  /\ \A r \in runs : RunSound(r)
  /\ \A r, q \in runs : r.ask = q.ask => r = q

(* What is said to be whole has been, however old the reading.             *)
Wholes ==
  /\ \A c \in Captures : inv.captures[c] = "whole" => captures[c] \in {"whole", "gone"}
  /\ restored \in Captures \cup {Nil}
  /\ restored # Nil => captures[restored] \in {"whole", "gone"}

CassandraInv == Readable /\ Questions /\ Jobs /\ Commands /\ Wholes

-----------------------------------------------------------------------------
(* Rows *)

LEMMA RowsKnown ==
  ASSUME NEW i \in Inventories, NEW w \in Worlds
  PROVE  RowsOf(i, w) \subseteq AllRows
<1>1. /\ i.nodes \subseteq Members /\ i.jobs \subseteq 1..MaxCommands
  BY DEF Inventories
<1>2. CASE w = "Cluster"
  BY <1>1, <1>2 DEF RowsOf, AllRows
<1>3. CASE w = "Backups"
  BY <1>1, <1>3 DEF RowsOf, AllRows
<1>4. CASE w = "Ops"
  BY <1>1, <1>4 DEF RowsOf, AllRows
<1> QED BY <1>2, <1>3, <1>4 DEF Worlds

LEMMA DrawnAgain ==
  ASSUME NEW i \in Inventories, NEW w \in Worlds, NEW u \in AllRows \cup {Nil}, NEW place,
         NEW f, Refreshed(i, w, u, place, f)
  PROVE  inv' = i /\ world' = w /\ uid' \in AllRows \cup {Nil} /\ focus' \in {f, Nil}
  BY RowsKnown DEF Refreshed

LEMMA RowParts ==
  ASSUME NEW r \in AllRows
  PROVE  /\ r[1] \in {"datacenter", "catalogue", "node", "capture", "job"}
         /\ r[1] = "node" => r[2] \in Members
         /\ r[1] = "capture" => r[2] \in Captures
  BY DEF AllRows

LEMMA EntryOffered ==
  ASSUME NEW r \in AllRows, NEW action \in Offered(r)
  PROVE  action \in {"restore", "task", "nodetool"}
  BY RowParts DEF Offered

-----------------------------------------------------------------------------
(* Sequences *)

LEMMA AppendParts ==
  ASSUME NEW T, NEW s \in Seq(T), NEW e \in T
  PROVE  /\ Append(s, e) \in Seq(T) /\ Len(Append(s, e)) = Len(s) + 1
         /\ Append(s, e)[Len(s) + 1] = e
         /\ \A j \in 1..Len(s) : Append(s, e)[j] = s[j]
  OBVIOUS

LEMMA SeqFrom == ASSUME NEW T, NEW n \in Nat, NEW s \in [1..n -> T] PROVE s \in Seq(T)
  OBVIOUS

(* No more Jobs than yeses.                                                *)
LEMMA JobsBounded ==
  ASSUME Jobs
  PROVE  1..Len(made) \subseteq 1..MaxCommands
<1>1. Len(made) \in Nat /\ Len(asked) \in Nat /\ MaxCommands \in Nat
  BY CassandraAssumption DEF Jobs
<1> DEFINE f == [j \in 1..Len(made) |-> made[j].ask]
<1>2. f \in Injection(1..Len(made), 1..Len(asked))
  BY DEF Jobs, JobSound, Injection, IsInjective
<1>3. /\ IsFiniteSet(1..Len(made)) /\ Cardinality(1..Len(made)) = Len(made)
      /\ IsFiniteSet(1..Len(asked)) /\ Cardinality(1..Len(asked)) = Len(asked)
  <2>1. \A n \in Nat : IsFiniteSet(1..n) /\ Cardinality(1..n) = n
    <3> SUFFICES ASSUME NEW n \in Nat PROVE IsFiniteSet(1..n) /\ Cardinality(1..n) = n
      OBVIOUS
    <3>1. IsFiniteSet(1..n) /\ Cardinality(1..n) = IF 1 > n THEN 0 ELSE n - 1 + 1
      BY FS_Interval
    <3> QED BY <3>1
  <2> QED BY <1>1, <2>1
<1>4. Cardinality(1..Len(made)) <= Cardinality(1..Len(asked))
  BY <1>2, <1>3, FS_Injection
<1> QED BY <1>1, <1>3, <1>4 DEF Jobs

-----------------------------------------------------------------------------
(* What a step leaves alone *)

LEMMA JobsAside ==
  ASSUME CassandraInv, UNCHANGED <<runs, asked, made>>, focus' \in {focus, Nil}
  PROVE  Jobs' /\ Commands'
<1>1. /\ Len(made') = Len(made) /\ Len(asked') = Len(asked) /\ made' = made /\ asked' = asked
      /\ runs' = runs
  OBVIOUS
<1>2. Jobs'
  <2>1. \A j \in 1..Len(made') : JobSound(j)'
    BY <1>1 DEF CassandraInv, Jobs, JobSound
  <2> QED BY <1>1, <2>1 DEF CassandraInv, Jobs
<1>3. Commands'
  BY <1>1 DEF CassandraInv, Commands, RunSound
<1> QED BY <1>2, <1>3

LEMMA QuestionsAside ==
  ASSUME CassandraInv, UNCHANGED <<menu, ntTarget>>
  PROVE  Questions'
  BY DEF CassandraInv, Questions

LEMMA WholesAside ==
  ASSUME CassandraInv, UNCHANGED <<captures, inv, restored>>
  PROVE  Wholes'
  BY DEF CassandraInv, Wholes

LEMMA ReadableAside ==
  ASSUME CassandraInv, UNCHANGED <<captures, inv, world>>, uid' \in AllRows \cup {Nil}
  PROVE  Readable'
  BY DEF CassandraInv, Readable

-----------------------------------------------------------------------------
(* The table and its cursor *)

LEMMA CassandraFetch == ASSUME CassandraInv, Fetch PROVE CassandraInv'
<1>1. inv \in Inventories /\ captures \in [Captures -> CaptureStates]
  BY DEF CassandraInv, Readable
<1>2. PICK i \in Inventories :
        /\ Lands(i)
        /\ \A c \in Captures : i.captures[c] = "whole" => captures[c] \in {"whole", "gone"}
  <2>0. \A c \in Captures : inv.captures[c] = "whole" => captures[c] \in {"whole", "gone"}
    BY DEF CassandraInv, Wholes
  <2>1. CASE \E nodes \in SUBSET Members : Lands([inv EXCEPT !.nodes = nodes])
    <3>1. PICK nodes \in SUBSET Members : Lands([inv EXCEPT !.nodes = nodes])
      BY <2>1
    <3>2. /\ [inv EXCEPT !.nodes = nodes] \in Inventories
          /\ [inv EXCEPT !.nodes = nodes].captures = inv.captures
      BY <1>1 DEF Inventories
    <3> QED BY <2>0, <3>1, <3>2
  <2>2. CASE \E those \in SUBSET DOMAIN made : Lands([inv EXCEPT !.jobs = those])
    <3>1. PICK those \in SUBSET DOMAIN made : Lands([inv EXCEPT !.jobs = those])
      BY <2>2
    <3>2. those \subseteq 1..MaxCommands
      BY JobsBounded DEF CassandraInv, Jobs
    <3>3. /\ [inv EXCEPT !.jobs = those] \in Inventories
          /\ [inv EXCEPT !.jobs = those].captures = inv.captures
      BY <1>1, <3>2 DEF Inventories
    <3> QED BY <2>0, <3>1, <3>3
  <2>3. CASE \E cs \in [Captures -> CaptureStates] :
               /\ \A c \in Captures : cs[c] \in Readings[captures[c]]
               /\ Lands([inv EXCEPT !.captures = cs])
    <3>1. PICK cs \in [Captures -> CaptureStates] :
            /\ \A c \in Captures : cs[c] \in Readings[captures[c]]
            /\ Lands([inv EXCEPT !.captures = cs])
      BY <2>3
    <3>2. /\ [inv EXCEPT !.captures = cs] \in Inventories
          /\ [inv EXCEPT !.captures = cs].captures = cs
      BY <1>1 DEF Inventories
    <3>3. ASSUME NEW c \in Captures, cs[c] = "whole" PROVE captures[c] \in {"whole", "gone"}
      BY <1>1, <3>1, <3>3 DEF Readings, CaptureStates
    <3> QED BY <3>1, <3>2, <3>3
  <2> QED BY <2>1, <2>2, <2>3 DEF Fetch
<1>3. PICK u \in AllRows \cup {Nil} : u = uid
  BY DEF CassandraInv, Readable
<1>4. PICK w \in Worlds : w = world
  BY DEF CassandraInv, Readable
<1>5. PICK f : f = focus
  OBVIOUS
<1>6. PICK place : place = Place(K8cTable, uid)
  OBVIOUS
<1>7. Refreshed(i, w, u, place, f) /\ UNCHANGED <<captures, askVars, jobVars, restored>>
  BY <1>2, <1>3, <1>4, <1>5, <1>6 DEF Lands
<1>8. inv' = i /\ world' = w /\ uid' \in AllRows \cup {Nil} /\ focus' \in {focus, Nil}
  BY <1>5, <1>7, DrawnAgain
<1>9. Readable'
  BY <1>1, <1>7, <1>8 DEF Readable
<1>10. Jobs' /\ Commands'
  BY <1>7, <1>8, JobsAside DEF jobVars
<1>11. Questions'
  BY <1>7, QuestionsAside DEF askVars
<1>12. Wholes'
  BY <1>2, <1>7, <1>8 DEF CassandraInv, Wholes
<1> QED BY <1>9, <1>10, <1>11, <1>12 DEF CassandraInv

LEMMA CassandraMoveTo == ASSUME CassandraInv, NEW r \in AllRows, MoveTo(r) PROVE CassandraInv'
<1>1. /\ uid' = r /\ UNCHANGED <<captures, inv, world, focus, askVars, jobVars, restored>>
  BY DEF MoveTo
<1> QED BY <1>1, ReadableAside, QuestionsAside, JobsAside, WholesAside DEF CassandraInv, askVars, jobVars

LEMMA CassandraEnter == ASSUME CassandraInv, NEW w \in Worlds, Enter(w) PROVE CassandraInv'
<1>1. PICK i \in Inventories : i = inv
  BY DEF CassandraInv, Readable
<1>2. PICK f : f = focus
  OBVIOUS
<1>3. Refreshed(i, w, Nil, 1, f) /\ UNCHANGED <<captures, askVars, jobVars, restored>>
  BY <1>1, <1>2 DEF Enter
<1>4. inv' = inv /\ world' = w /\ uid' \in AllRows \cup {Nil} /\ focus' \in {focus, Nil}
  BY <1>1, <1>2, <1>3, DrawnAgain
<1>5. Readable'
  BY <1>3, <1>4 DEF CassandraInv, Readable
<1> QED BY <1>3, <1>4, <1>5, QuestionsAside, JobsAside, WholesAside DEF CassandraInv, askVars, jobVars

-----------------------------------------------------------------------------
(* The menu *)

LEMMA MenuKept ==
  ASSUME CassandraInv, UNCHANGED <<captures, inv, viewVars, jobVars, restored>>, Questions'
  PROVE  CassandraInv'
<1>1. /\ UNCHANGED <<runs, asked, made>> /\ focus' = focus /\ uid' = uid /\ world' = world
  BY DEF viewVars, jobVars
<1>2. uid \in AllRows \cup {Nil}
  BY DEF CassandraInv, Readable
<1> QED BY <1>1, <1>2, ReadableAside, JobsAside, WholesAside DEF CassandraInv

LEMMA CassandraOpen ==
  ASSUME CassandraInv, NEW r \in AllRows, OpenActionMenu(r) \/ OpenNodetoolPrompt(r)
  PROVE  CassandraInv'
<1>1. PICK action \in {"restore", "task", "nodetool"}, member \in Members \cup {Nil},
           line \in {"none", "blank", "typed"} :
        menu' = Menu(action, member, line) /\ ntTarget' = member
  <2>1. CASE OpenActionMenu(r)
    <3>1. PICK action \in Offered(r) :
            LET member == IF r[1] = "node" THEN r[2] ELSE Nil
            IN menu' = Menu(action, member, "none") /\ ntTarget' = member
      BY <2>1 DEF OpenActionMenu
    <3>2. action \in {"restore", "task", "nodetool"}
      BY EntryOffered
    <3>3. (IF r[1] = "node" THEN r[2] ELSE Nil) \in Members \cup {Nil}
      BY RowParts
    <3> QED BY <3>1, <3>2, <3>3
  <2>2. CASE OpenNodetoolPrompt(r)
    BY <2>2, RowParts DEF OpenNodetoolPrompt
  <2> QED BY <2>1, <2>2
<1>2. Questions'
  BY <1>1 DEF Questions, Menu, Menus
<1>3. UNCHANGED <<captures, inv, viewVars, jobVars, restored>>
  BY DEF OpenActionMenu, OpenNodetoolPrompt
<1> QED BY <1>2, <1>3, MenuKept

LEMMA CassandraAsking ==
  ASSUME CassandraInv, (\E l \in {"blank", "typed"} : EditLine(l)) \/ FirstEnter \/ EscMenu
  PROVE  CassandraInv'
<1>1. UNCHANGED <<captures, inv, viewVars, ntTarget, jobVars, restored>> /\ menu # Nil
  BY DEF EditLine, FirstEnter, EscMenu, Typing
<1>2. menu \in Menus /\ menu.named = ntTarget /\ ntTarget \in Members \cup {Nil}
  BY <1>1 DEF CassandraInv, Questions
<1>3. menu' = Nil \/ (menu' \in Menus /\ menu'.named = ntTarget)
  <2>1. ASSUME NEW l \in {"blank", "typed"}, EditLine(l) PROVE menu' \in Menus /\ menu'.named = ntTarget
    BY <1>2, <2>1 DEF EditLine, Menus
  <2>2. CASE FirstEnter
    <3>1. \/ menu' = [menu EXCEPT !.line = "blank", !.armed = FALSE]
          \/ menu' = [menu EXCEPT !.armed = TRUE, !.named = ntTarget]
          \/ menu' = [menu EXCEPT !.armed = TRUE]
      BY <2>2 DEF FirstEnter
    <3> QED BY <1>2, <3>1 DEF Menus
  <2>3. CASE EscMenu
    <3>1. \/ menu' = [menu EXCEPT !.line = "none"]
          \/ menu' = [menu EXCEPT !.armed = FALSE]
          \/ menu' = Nil
      BY <2>3 DEF EscMenu
    <3> QED BY <1>2, <3>1 DEF Menus
  <2> QED BY <2>1, <2>2, <2>3
<1>4. Questions'
  BY <1>1, <1>2, <1>3 DEF Questions
<1> QED BY <1>1, <1>4, MenuKept

LEMMA CassandraConfirmWrite == ASSUME CassandraInv, ConfirmWrite PROVE CassandraInv'
<1>1. /\ menu' = Nil /\ UNCHANGED <<captures, inv, viewVars, ntTarget, jobVars>>
  BY DEF ConfirmWrite
<1>2. Questions'
  BY <1>1 DEF CassandraInv, Questions
<1>3. restored' = restored \/ \E c \in Captures : restored' = c /\ inv.captures[c] = "whole"
  <2>1. CASE menu.action = "restore" /\ \E c \in Captures : WriteFor(<<"capture", c>>, "restore")
    <3>1. PICK c \in Captures : WriteFor(<<"capture", c>>, "restore")
      BY <2>1
    <3>2. uid = <<"capture", c>> /\ "restore" \in Offered(<<"capture", c>>)
      BY <3>1 DEF WriteFor, Selected
    <3>3. inv.captures[c] = "whole"
      BY <3>2 DEF Offered
    <3>4. restored' = uid[2]
      BY <2>1 DEF ConfirmWrite
    <3> QED BY <3>2, <3>3, <3>4
  <2>2. CASE ~(menu.action = "restore" /\ \E c \in Captures : WriteFor(<<"capture", c>>, "restore"))
    BY <2>2 DEF ConfirmWrite
  <2> QED BY <2>1, <2>2
<1>4. Wholes'
  BY <1>1, <1>3 DEF CassandraInv, Wholes
<1>5. /\ UNCHANGED <<runs, asked, made>> /\ focus' = focus /\ uid' = uid /\ world' = world
  BY <1>1 DEF viewVars, jobVars
<1>6. uid \in AllRows \cup {Nil}
  BY DEF CassandraInv, Readable
<1> QED BY <1>1, <1>2, <1>4, <1>5, <1>6, ReadableAside, JobsAside DEF CassandraInv

-----------------------------------------------------------------------------
(* Commands and their Jobs *)

LEMMA CassandraRunCommand == ASSUME CassandraInv, RunCommand PROVE CassandraInv'
<1>1. /\ menu # Nil /\ ntTarget # Nil /\ Len(asked) < MaxCommands
      /\ menu' = Nil /\ ntTarget' = Nil
      /\ asked' = Append(asked, menu.named)
      /\ runs' = runs \cup {[ask |-> Len(asked'), node |-> ntTarget, job |-> Nil]}
      /\ Refreshed(inv, "Ops", Nil, 1, focus)
      /\ UNCHANGED <<captures, made, restored>>
  BY DEF RunCommand, Armed, Target
<1>2. PICK member \in Members : member = ntTarget /\ member = menu.named
  BY <1>1 DEF CassandraInv, Questions
<1>3. PICK a \in Seq(Members) : a = asked
  BY DEF CassandraInv, Jobs
<1>4. /\ asked' \in Seq(Members) /\ Len(asked') = Len(asked) + 1
      /\ asked'[Len(asked) + 1] = member
      /\ \A k \in 1..Len(asked) : asked'[k] = asked[k]
  BY <1>1, <1>2, <1>3, AppendParts
<1>5. Len(asked) \in Nat /\ Len(made) \in Nat /\ MaxCommands \in Nat
  BY CassandraAssumption DEF CassandraInv, Jobs
<1>6. PICK i \in Inventories : i = inv
  BY DEF CassandraInv, Readable
<1>7. PICK f : f = focus
  OBVIOUS
<1>8. Refreshed(i, "Ops", Nil, 1, f)
  BY <1>1, <1>6, <1>7
<1>9. inv' = inv /\ world' = "Ops" /\ uid' \in AllRows \cup {Nil} /\ focus' \in {focus, Nil}
  BY <1>6, <1>7, <1>8, DrawnAgain DEF Worlds
<1>10. Readable' /\ Wholes'
  BY <1>1, <1>9, WholesAside DEF CassandraInv, Readable, Worlds
<1>11. Questions'
  BY <1>1 DEF Questions
<1>12. Jobs'
  <2>1. \A j \in 1..Len(made') : JobSound(j)'
    <3> SUFFICES ASSUME NEW j \in 1..Len(made) PROVE JobSound(j)'
      BY <1>1
    <3>1. JobSound(j)
      BY DEF CassandraInv, Jobs
    <3>2. made[j].ask \in 1..Len(asked') /\ asked'[made[j].ask] = asked[made[j].ask]
      BY <1>4, <1>5, <3>1 DEF JobSound
    <3> QED BY <1>1, <3>1, <3>2 DEF JobSound
  <2>2. \A j, k \in 1..Len(made') : made'[j].ask = made'[k].ask => j = k
    BY <1>1 DEF CassandraInv, Jobs
  <2>3. focus' \in ({"job"} \X (1..Len(made'))) \cup {Nil}
    BY <1>1, <1>9 DEF CassandraInv, Jobs
  <2>4. Len(asked') <= MaxCommands /\ made' \in Seq(JobType)
    BY <1>1, <1>4, <1>5 DEF CassandraInv, Jobs
  <2> QED BY <1>4, <2>1, <2>2, <2>3, <2>4 DEF Jobs
<1>13. Commands'
  <2>0. PICK new : new = [ask |-> Len(asked) + 1, node |-> member, job |-> Nil]
    OBVIOUS
  <2>1. new \in RunType /\ new.ask = Len(asked) + 1 /\ new.node = member /\ new.job = Nil
    BY <1>5, <2>0 DEF RunType
  <2>2. runs' = runs \cup {new}
    BY <1>1, <1>2, <1>4, <2>0
  <2>3. ASSUME NEW r \in runs PROVE RunSound(r)' /\ r.ask \in 1..Len(asked)
    <3>1. RunSound(r)
      BY DEF CassandraInv, Commands
    <3> QED BY <1>1, <1>4, <1>5, <3>1 DEF RunSound
  <2>4. RunSound(new)'
    <3>1. \A j \in 1..Len(made) : made[j].ask \in 1..Len(asked)
      BY DEF CassandraInv, Jobs, JobSound
    <3> QED BY <1>1, <1>4, <1>5, <2>1, <3>1 DEF RunSound
  <2>5. \A r \in runs : r.ask # new.ask
    BY <1>5, <2>1, <2>3
  <2>6. \A r, q \in runs' : r.ask = q.ask => r = q
    BY <2>2, <2>5 DEF CassandraInv, Commands
  <2> QED BY <2>2, <2>3, <2>4, <2>6 DEF Commands
<1> QED BY <1>10, <1>11, <1>12, <1>13 DEF CassandraInv

LEMMA CassandraRunCreates == ASSUME CassandraInv, NEW r \in runs, RunCreates(r) PROVE CassandraInv'
<1>1. /\ r.job = Nil
      /\ made' = Append(made, [ask |-> r.ask, node |-> r.node])
      /\ runs' = (runs \ {r}) \cup {[r EXCEPT !.job = Len(made')]}
      /\ UNCHANGED <<captures, inv, viewVars, askVars, asked, restored>>
  BY DEF RunCreates
<1>2. RunSound(r) /\ \A q \in runs : RunSound(q) /\ (r.ask = q.ask => r = q)
  BY DEF CassandraInv, Commands
<1>3. PICK job \in JobType : job = [ask |-> r.ask, node |-> r.node]
  BY <1>2 DEF RunSound, RunType, JobType
<1>4. job.ask = r.ask /\ job.node = r.node
  BY <1>3
<1>5. PICK m \in Seq(JobType) : m = made
  BY DEF CassandraInv, Jobs
<1>6. /\ made' \in Seq(JobType) /\ Len(made') = Len(made) + 1
      /\ made'[Len(made) + 1] = job
      /\ \A j \in 1..Len(made) : made'[j] = made[j]
  BY <1>1, <1>3, <1>5, AppendParts
<1>7. Len(asked) \in Nat /\ Len(made) \in Nat
  BY DEF CassandraInv, Jobs
<1>8. focus' = focus /\ asked' = asked /\ uid' = uid /\ world' = world
  BY <1>1 DEF viewVars
<1>9. Readable' /\ Wholes' /\ Questions'
  BY <1>1, <1>8, WholesAside, QuestionsAside DEF CassandraInv, Readable, askVars
<1>10. Jobs'
  <2>1. \A j \in 1..Len(made) : JobSound(j) /\ made[j].ask # r.ask
    BY <1>1, <1>2 DEF CassandraInv, Jobs, RunSound
  <2>2. \A j \in 1..Len(made') : JobSound(j)'
    <3>1. ASSUME NEW j \in 1..Len(made) PROVE JobSound(j)'
      BY <1>6, <1>8, <2>1 DEF JobSound
    <3>2. PICK n : n = Len(made) + 1
      OBVIOUS
    <3>3. made'[n] = job /\ r.ask \in 1..Len(asked) /\ r.node = asked[r.ask]
      BY <1>2, <1>6, <3>2 DEF RunSound
    <3>4. JobSound(n)'
      BY <1>3, <1>4, <1>8, <3>3 DEF JobSound
    <3>5. \A j \in 1..Len(made') : j = n \/ j \in 1..Len(made)
      BY <1>6, <1>7, <3>2
    <3> QED BY <3>1, <3>4, <3>5
  <2>3. \A j, k \in 1..Len(made') : made'[j].ask = made'[k].ask => j = k
    <3>1. \A j, k \in 1..Len(made) : made[j].ask = made[k].ask => j = k
      BY DEF CassandraInv, Jobs
    <3>2. \A j \in 1..Len(made) : made'[j].ask = made[j].ask /\ made[j].ask # r.ask
      BY <1>6, <2>1
    <3>3. made'[Len(made) + 1].ask = r.ask
      BY <1>4, <1>6
    <3>4. \A j \in 1..Len(made') : j = Len(made) + 1 \/ j \in 1..Len(made)
      BY <1>6, <1>7
    <3> QED BY <3>1, <3>2, <3>3, <3>4
  <2>4. focus' \in ({"job"} \X (1..Len(made'))) \cup {Nil}
    <3>1. 1..Len(made) \subseteq 1..Len(made')
      BY <1>6, <1>7
    <3> QED BY <1>8, <3>1 DEF CassandraInv, Jobs
  <2> QED BY <1>6, <1>8, <2>2, <2>3, <2>4 DEF CassandraInv, Jobs
<1>11. Commands'
  <2>1. PICK run : run = [r EXCEPT !.job = Len(made) + 1]
    OBVIOUS
  <2>2. /\ run \in RunType /\ run.ask = r.ask /\ run.node = r.node /\ run.job = Len(made) + 1
    BY <1>2, <1>7, <2>1 DEF RunSound, RunType
  <2>3. runs' = (runs \ {r}) \cup {run}
    BY <1>1, <1>6, <2>1
  <2>4. ASSUME NEW q \in runs \ {r} PROVE RunSound(q)' /\ q.ask # run.ask
    <3>1. RunSound(q) /\ q.ask # r.ask
      BY <1>2
    <3>2. \A j \in 1..Len(made') : j \in 1..Len(made) \/ made'[j].ask = r.ask
      BY <1>4, <1>6, <1>7
    <3>3. q.job = Nil => \A j \in 1..Len(made') : made'[j].ask # q.ask
      BY <1>6, <3>1, <3>2 DEF RunSound
    <3>4. q.job # Nil => q.job \in 1..Len(made')
      BY <1>6, <1>7, <3>1 DEF RunSound
    <3> QED BY <1>8, <2>2, <3>1, <3>3, <3>4 DEF RunSound
  <2>5. RunSound(run)'
    <3>1. run.job # Nil /\ run.job \in 1..Len(made')
      BY <1>6, <1>7, <2>2, CassandraAssumption
    <3> QED BY <1>2, <1>8, <2>2, <3>1 DEF RunSound
  <2>6. \A p, q \in runs' : p.ask = q.ask => p = q
    BY <2>3, <2>4 DEF CassandraInv, Commands
  <2> QED BY <2>3, <2>4, <2>5, <2>6 DEF Commands
<1> QED BY <1>9, <1>10, <1>11 DEF CassandraInv

LEMMA CommandOver ==
  ASSUME CassandraInv, NEW r \in runs, runs' = runs \ {r}, UNCHANGED <<asked, made>>
  PROVE  Commands'
<1>1. \A q \in runs' : RunSound(q)'
  BY DEF CassandraInv, Commands, RunSound
<1> QED BY <1>1 DEF CassandraInv, Commands

LEMMA CassandraRunAnswered == ASSUME CassandraInv, NEW r \in runs, RunAnswered(r) PROVE CassandraInv'
<1>1. /\ r.job # Nil /\ runs' = runs \ {r}
      /\ Refreshed(inv, world, uid, Place(K8cTable, uid), <<"job", r.job>>)
      /\ UNCHANGED <<captures, askVars, asked, made, restored>>
  BY DEF RunAnswered
<1>2. r.job \in 1..Len(made)
  BY <1>1 DEF CassandraInv, Commands, RunSound
<1>3. PICK i \in Inventories : i = inv
  BY DEF CassandraInv, Readable
<1>4. PICK u \in AllRows \cup {Nil} : u = uid
  BY DEF CassandraInv, Readable
<1>5. PICK w \in Worlds : w = world
  BY DEF CassandraInv, Readable
<1>6. PICK place : place = Place(K8cTable, uid)
  OBVIOUS
<1>7. Refreshed(i, w, u, place, <<"job", r.job>>)
  BY <1>1, <1>3, <1>4, <1>5, <1>6
<1>8. /\ inv' = inv /\ world' = world /\ uid' \in AllRows \cup {Nil}
      /\ focus' \in {<<"job", r.job>>, Nil}
  BY <1>3, <1>5, <1>7, DrawnAgain
<1>9. Readable' /\ Wholes' /\ Questions'
  BY <1>1, <1>8, ReadableAside, WholesAside, QuestionsAside DEF askVars
<1>10. Jobs'
  <2>1. \A j \in 1..Len(made') : JobSound(j)'
    BY <1>1 DEF CassandraInv, Jobs, JobSound
  <2>2. focus' \in ({"job"} \X (1..Len(made'))) \cup {Nil}
    BY <1>1, <1>2, <1>8
  <2> QED BY <1>1, <2>1, <2>2 DEF CassandraInv, Jobs
<1>11. Commands'
  BY <1>1, CommandOver
<1> QED BY <1>9, <1>10, <1>11 DEF CassandraInv

LEMMA CassandraRunFails == ASSUME CassandraInv, NEW r \in runs, RunFails(r) PROVE CassandraInv'
<1>1. runs' = runs \ {r} /\ UNCHANGED <<captures, inv, world, uid, focus, menu, ntTarget, asked, made, restored>>
  BY DEF RunFails, viewVars, askVars
<1>2. Readable' /\ Wholes' /\ Questions'
  BY <1>1, WholesAside, QuestionsAside DEF CassandraInv, Readable
<1>3. Jobs'
  <2>1. \A j \in 1..Len(made') : JobSound(j)'
    BY <1>1 DEF CassandraInv, Jobs, JobSound
  <2> QED BY <1>1, <2>1 DEF CassandraInv, Jobs
<1>4. Commands'
  BY <1>1, CommandOver
<1> QED BY <1>2, <1>3, <1>4 DEF CassandraInv

-----------------------------------------------------------------------------
(* Captures, and the whole *)

LEMMA CassandraCaptures ==
  ASSUME CassandraInv, NEW c \in Captures, CaptureEnds(c) \/ CapturePurged(c)
  PROVE  CassandraInv'
<1>1. PICK to \in {"whole", "gone"} :
        /\ captures[c] # "gone" /\ (captures[c] = "whole" => to = "gone")
        /\ captures' = [captures EXCEPT ![c] = to]
        /\ UNCHANGED <<inv, viewVars, askVars, jobVars, restored>>
  BY DEF CaptureEnds, CapturePurged, CaptureBecomes
<1>2. captures \in [Captures -> CaptureStates]
  BY DEF CassandraInv, Readable
<1>3. /\ captures' \in [Captures -> CaptureStates]
      /\ \A d \in Captures : captures[d] \in {"whole", "gone"} => captures'[d] \in {"whole", "gone"}
  BY <1>1, <1>2 DEF CaptureStates
<1>4. UNCHANGED <<inv, world, uid, focus, menu, ntTarget, runs, asked, made, restored>>
  BY <1>1 DEF viewVars, askVars, jobVars
<1>5. Readable'
  BY <1>3, <1>4 DEF CassandraInv, Readable
<1>6. Wholes'
  BY <1>3, <1>4, CassandraAssumption DEF CassandraInv, Wholes
<1> QED BY <1>4, <1>5, <1>6, QuestionsAside, JobsAside DEF CassandraInv

LEMMA CassandraStutter == ASSUME CassandraInv, UNCHANGED cassandraVars PROVE CassandraInv'
<1>1. UNCHANGED <<captures, inv, world, uid, focus, menu, ntTarget, runs, asked, made, restored>>
  BY DEF cassandraVars, viewVars, askVars, jobVars
<1>2. Readable'
  BY <1>1 DEF CassandraInv, Readable
<1> QED BY <1>1, <1>2, QuestionsAside, JobsAside, WholesAside DEF CassandraInv

LEMMA CassandraStarts == ASSUME CassandraInit PROVE CassandraInv
<1>1. inv \in Inventories /\ inv.captures = [c \in Captures |-> "gone"]
  BY DEF CassandraInit, Inventories, CaptureStates
<1>2. Readable
  BY <1>1 DEF CassandraInit, Readable, CaptureStates, Worlds, AllRows
<1>3. Questions /\ Commands
  BY DEF CassandraInit, Questions, Commands
<1>4. Jobs
  BY CassandraAssumption DEF CassandraInit, Jobs
<1>5. Wholes
  BY <1>1 DEF CassandraInit, Wholes
<1> QED BY <1>2, <1>3, <1>4, <1>5 DEF CassandraInv

LEMMA CassandraGoesOn == ASSUME CassandraInv, [CassandraNext]_cassandraVars PROVE CassandraInv'
  BY CassandraFetch, CassandraMoveTo, CassandraEnter, CassandraOpen, CassandraAsking, CassandraRunCommand, CassandraConfirmWrite,
     CassandraRunCreates, CassandraRunAnswered, CassandraRunFails, CassandraCaptures, CassandraStutter DEF CassandraNext

LEMMA CassandraJobs == ASSUME CassandraInv PROVE JobsAreAsked
<1>1. DOMAIN asked = 1..Len(asked) /\ DOMAIN made = 1..Len(made)
  BY DEF CassandraInv, Jobs
<1>2. runs \subseteq [ask : DOMAIN asked, node : Members, job : DOMAIN made \cup {Nil}]
  BY <1>1 DEF CassandraInv, Commands, RunSound, RunType
<1>3. made \in Seq([ask : DOMAIN asked, node : Members])
  <2>1. PICK T : T = [ask : DOMAIN asked, node : Members]
    OBVIOUS
  <2>2. \A j \in 1..Len(made) : made[j] \in T
    BY <1>1, <2>1 DEF CassandraInv, Jobs, JobSound, JobType
  <2>3. PICK n \in Nat : n = Len(made)
    BY DEF CassandraInv, Jobs
  <2>4. made \in [1..n -> T]
    BY <2>2, <2>3 DEF CassandraInv, Jobs
  <2> QED BY <2>1, <2>3, <2>4, SeqFrom
<1>4. CassandraTypeOK
  BY <1>1, <1>2, <1>3 DEF CassandraInv, Readable, Questions, Jobs, Wholes, CassandraTypeOK
<1>5. OneJobPerYes
  BY <1>1 DEF CassandraInv, Jobs, JobSound, OneJobPerYes
<1> QED BY <1>4, <1>5 DEF JobsAreAsked

(* A `nodetool` Job runs on the node its question named, whatever came     *)
(* under the cursor while the question was open, and one yes makes one Job *)
(* at most.                                                                *)
THEOREM JobsAreTheAsked == CassandraSpec => []JobsAreAsked
<1>1. CassandraInit => CassandraInv
  BY CassandraStarts
<1>2. CassandraInv /\ [CassandraNext]_cassandraVars => CassandraInv'
  BY CassandraGoesOn
<1>3. CassandraInv => JobsAreAsked
  BY CassandraJobs
<1> QED BY <1>1, <1>2, <1>3, PTL DEF CassandraSpec

(* A restore starts from a capture that covered every node, however old the *)
(* inventory it was read in.                                               *)
THEOREM RestoresAreWhole == CassandraSpec => []OnlyWholeIsRestored
<1>1. CassandraInit => CassandraInv
  BY CassandraStarts
<1>2. CassandraInv /\ [CassandraNext]_cassandraVars => CassandraInv'
  BY CassandraGoesOn
<1>3. CassandraInv => OnlyWholeIsRestored
  BY DEF CassandraInv, Wholes, OnlyWholeIsRestored
<1> QED BY <1>1, <1>2, <1>3, PTL DEF CassandraSpec

-----------------------------------------------------------------------------
(***************************************************************************)
(* The analyses                                                            *)
(***************************************************************************)

Topics == {"events", "nodes", "usage", "diagnostic"}
PageType == [mode : Topics \cup {"ai", "extract"}, back : Topics, host : Hosts \cup {NoOne}]
AnswerType == [key : Nat, loading : BOOLEAN, error : BOOLEAN, text : Nat, by : Nat]
QueryType == [key : Nat, at : {"gather", "stream"}, text : Nat]
UsageType == [of : Hosts \cup {NoOne}, rows : Hosts \cup {NoOne}, loading : BOOLEAN]
ReadingsType == [due : [Hosts -> Nat], going : [Hosts -> Nat], count : Nat]
StepType == [run : Nat, check : Nat, by : Nat]
DiagType == [run : Nat, running : BOOLEAN, finished : BOOLEAN, steps : Seq(StepType)]
ProbeType == [run : Nat, check : Nat, left : Nat, shown : Seq(Nat)]
ProbesType == [due : Nat, tasks : SUBSET ProbeType]
ExtractType == [run : Nat, running : BOOLEAN, finished : BOOLEAN, path : Nat]
JobsType == [due : Nat, tasks : SUBSET [run : Nat, stage : Nat]]

(* The assistant goes back to what it was opened over, the extraction to    *)
(* the events.                                                             *)
Pages ==
  /\ page \in PageType
  /\ page.mode = "extract" => page.back = "events"

(* An answer is to a question that was asked, and under the assistant the   *)
(* question is about what it was opened over.                              *)
Asked ==
  /\ questions \in Seq(Topics) /\ Len(questions) <= MaxTasks
  /\ queries \subseteq QueryType
  /\ \A q \in queries : q.key \in 1..Len(questions)
  /\ answer \in AnswerType
  /\ answer.text > 0 => answer.by = answer.key /\ answer.key \in 1..Len(questions)
  /\ answer.loading => answer.key \in lost \/ \E q \in queries : q.key = answer.key
  /\ page.mode = "ai" /\ answer.key \in 1..Len(questions) => questions[answer.key] = page.back

UsageKept ==
  /\ usage \in UsageType /\ readings \in ReadingsType
  /\ usage.rows \in {NoOne, usage.of}
  /\ usage.loading => usage.of \in Hosts /\ readings.going[usage.of] > 0

StepsAt(steps, c) == {i \in DOMAIN steps : steps[i].check = c}

(* How far a task of the diagnostic has come, superseded or not.           *)
OnItsWay(t) ==
  /\ t.check \in 1..Len(Widths) + 1
  /\ t.check = Len(Widths) + 1 => t.left = 0 /\ t.shown = << >>

(* The task of the run on screen has put its steps there: the last ones are *)
(* those it has yet to tell of, and the checks before are complete.        *)
Follows(t, run, steps) ==
  /\ Len(t.shown) <= Len(steps)
  /\ \A k \in 1..Len(t.shown) : t.shown[k] = Len(steps) - Len(t.shown) + k
  /\ \A i \in 1..Len(steps) :
       /\ steps[i].check <= t.check
       /\ i <= Len(steps) - Len(t.shown) => steps[i].by = run
       /\ i > Len(steps) - Len(t.shown) => steps[i].check = t.check
  /\ t.check \in DOMAIN Widths =>
       Cardinality(StepsAt(steps, t.check)) + t.left = Widths[t.check]
  /\ t.check \notin DOMAIN Widths => StepsAt(steps, t.check) = {}
  /\ \A c \in DOMAIN Widths : c < t.check => Cardinality(StepsAt(steps, c)) = Widths[c]

Diagnosed ==
  /\ diag \in DiagType /\ probes \in ProbesType
  /\ \A t \in probes.tasks : t.run \in 1..diag.run /\ OnItsWay(t)
  /\ \A t, u \in probes.tasks : t.run = diag.run /\ u.run = diag.run => t = u
  /\ \A i \in DOMAIN diag.steps :
       diag.steps[i].run = diag.run /\ diag.steps[i].by \in {0, diag.run}
  /\ \A i, j \in DOMAIN diag.steps : i < j => diag.steps[i].check <= diag.steps[j].check
  /\ \A t \in probes.tasks : t.run = diag.run => Follows(t, diag.run, diag.steps)
  /\ diag.running => \E t \in probes.tasks : t.run = diag.run
  /\ diag.finished =>
       /\ \A t \in probes.tasks : t.run # diag.run
       /\ \A i \in DOMAIN diag.steps : diag.steps[i].by = diag.run
       /\ \A c \in DOMAIN Widths : Cardinality(StepsAt(diag.steps, c)) = Widths[c]

Extracted ==
  /\ extract \in ExtractType /\ jobs \in JobsType
  /\ \A j \in jobs.tasks : j.run <= extract.run
  /\ extract.path \in {0, extract.run}
  /\ extract.running => \E j \in jobs.tasks : j.run = extract.run

Reported ==
  report # NoOne =>
    /\ report.by # NoKey => report.by \in 1..Len(questions) /\ questions[report.by] = report.of
    /\ Cardinality(report.runs) <= 1

AnalysisInv == Pages /\ Asked /\ UsageKept /\ Diagnosed /\ Extracted /\ Reported

-----------------------------------------------------------------------------
(* What a step leaves alone stays as it was *)

LEMMA SameUsage == ASSUME UsageKept, UNCHANGED <<usage, readings>> PROVE UsageKept'
  BY DEF UsageKept

LEMMA SameDiag == ASSUME Diagnosed, UNCHANGED <<diag, probes>> PROVE Diagnosed'
  BY DEF Diagnosed

LEMMA SameExtract == ASSUME Extracted, UNCHANGED <<extract, jobs>> PROVE Extracted'
  BY DEF Extracted

LEMMA SameReport == ASSUME Reported, UNCHANGED <<report, questions>> PROVE Reported'
  BY DEF Reported

LEMMA SameAnswer ==
  ASSUME Asked, UNCHANGED <<answer, queries, lost, questions>>,
         page'.mode = "ai" => page.mode = "ai" /\ page'.back = page.back
  PROVE  Asked'
  BY DEF Asked

(* The tasks started are counted by naturals, the questions among them.    *)
LEMMA Room ==
  ASSUME Asked, UsageKept, Diagnosed, Extracted, Started < MaxTasks
  PROVE  Len(questions) \in Nat /\ MaxTasks \in Nat /\ Len(questions) + 1 <= MaxTasks
<1>1. Len(questions) \in Nat /\ MaxTasks \in Nat
  BY AnalysisAssumption DEF Asked
<1>2. diag.run \in Nat /\ probes.due \in Nat /\ extract.run \in Nat /\ jobs.due \in Nat
      /\ readings.count \in Nat
  BY DEF UsageKept, Diagnosed, Extracted, DiagType, ProbesType, ExtractType, JobsType, ReadingsType
<1> QED BY <1>1, <1>2 DEF Started

-----------------------------------------------------------------------------
(* The views *)

LEMMA AnalysisGoes ==
  ASSUME AnalysisInv, NEW p, Goes(p), p \in PageType, p.mode = "extract" => p.back = "events",
         p.mode = "ai" => page.mode = "ai" /\ p.back = page.back
  PROVE  AnalysisInv'
<1>1. Pages'
  BY DEF Goes, Pages
<1>2. Asked'
  BY SameAnswer DEF Goes, AnalysisInv
<1> QED
  BY <1>1, <1>2, SameUsage, SameDiag, SameExtract, SameReport DEF Goes, AnalysisInv

(* What changes the view and starts at most a task that is not a question.  *)
LEMMA AnalysisMoves ==
  ASSUME AnalysisInv,
         OpenNodes \/ LeaveNodes \/ ExitNodeUsage \/ ExitDiagnostic \/ ExitExtract \/ ExitAiPanel
           \/ \E h \in Hosts : SelectedNode(h)
  PROVE  AnalysisInv'
<1>1. page \in PageType /\ (page.mode = "extract" => page.back = "events")
  BY DEF AnalysisInv, Pages
<1>2. /\ page.mode \in Topics \cup {"ai", "extract"} /\ page.back \in Topics
      /\ page.host \in Hosts \cup {NoOne}
  BY <1>1 DEF PageType
<1>3. \A m \in Topics :
        /\ [page EXCEPT !.mode = m] \in PageType
        /\ [page EXCEPT !.mode = m].mode = m
  BY <1>1 DEF PageType, Topics
<1>4. \A m \in Topics : Goes([page EXCEPT !.mode = m]) => AnalysisInv'
  BY <1>3, AnalysisGoes DEF Topics
<1>5. CASE OpenNodes \/ LeaveNodes \/ ExitNodeUsage \/ ExitDiagnostic
  BY <1>5, <1>4 DEF OpenNodes, LeaveNodes, ExitNodeUsage, ExitDiagnostic, Topics
<1>6. CASE ExitExtract \/ ExitAiPanel
  BY <1>6, <1>2, <1>4 DEF ExitExtract, ExitAiPanel
<1>7. CASE \E h \in Hosts : SelectedNode(h)
  <2>1. PICK h \in Hosts : SelectedNode(h)
    BY <1>7
  <2>2. /\ [page EXCEPT !.host = h] \in PageType
        /\ [page EXCEPT !.host = h].mode = page.mode
        /\ [page EXCEPT !.host = h].back = page.back
    BY <1>1 DEF PageType
  <2> QED BY <1>1, <2>1, <2>2, AnalysisGoes DEF SelectedNode
<1> QED BY <1>5, <1>6, <1>7

LEMMA AnalysisReadsUsage ==
  ASSUME AnalysisInv, EnterNodeUsage \/ RefreshNodeUsage PROVE AnalysisInv'
<1>1. /\ page.host # NoOne /\ page.mode \in {"nodes", "usage"}
      /\ page' = [page EXCEPT !.mode = "usage"]
      /\ readings' = [readings EXCEPT !.due[page.host] = @ + 1, !.count = @ + 1]
      /\ UNCHANGED <<answer, queries, lost, usage, diag, probes, extract, jobs, questions, report>>
  BY DEF EnterNodeUsage, RefreshNodeUsage, ReadsUsage
<1>2. page \in PageType
  BY DEF AnalysisInv, Pages
<1>3. Pages'
  BY <1>1, <1>2 DEF Pages, PageType, Topics
<1>4. Asked'
  BY <1>1, <1>3, <1>2, SameAnswer DEF AnalysisInv, PageType
<1>5. UsageKept'
  <2>1. usage \in UsageType /\ readings \in ReadingsType /\ page.host \in Hosts
    BY <1>1, <1>2 DEF AnalysisInv, UsageKept, PageType
  <2>2. PICK h \in Hosts : h = page.host
    BY <2>1
  <2>3. PICK d : d = [readings.due EXCEPT ![h] = @ + 1]
    OBVIOUS
  <2>4. d \in [Hosts -> Nat]
    BY <2>1, <2>3 DEF ReadingsType
  <2>6. readings' = [readings EXCEPT !.due = d, !.count = readings.count + 1]
    BY <1>1, <2>1, <2>2, <2>3 DEF ReadingsType
  <2>7. readings.count + 1 \in Nat
    BY <2>1 DEF ReadingsType
  <2>5. readings'.going = readings.going /\ readings' \in ReadingsType
    BY <2>1, <2>4, <2>6, <2>7 DEF ReadingsType
  <2> QED BY <1>1, <2>1, <2>5 DEF AnalysisInv, UsageKept
<1> QED
  BY <1>1, <1>3, <1>4, <1>5, SameDiag, SameExtract, SameReport DEF AnalysisInv

LEMMA AnalysisRunsDiagnostic ==
  ASSUME AnalysisInv, EnterDiagnostic \/ RefreshDiagnostic PROVE AnalysisInv'
<1>1. /\ page' = [page EXCEPT !.mode = "diagnostic", !.back = "events"] \/ page' = page
      /\ page'.mode = "diagnostic"
      /\ probes' = [probes EXCEPT !.due = @ + 1]
      /\ UNCHANGED <<answer, queries, lost, usage, readings, diag, extract, jobs, questions, report>>
  BY DEF EnterDiagnostic, RefreshDiagnostic, RunsDiagnostic, AnalysisInv, Pages, PageType
<1>2. page \in PageType
  BY DEF AnalysisInv, Pages
<1>3. Pages'
  BY <1>1, <1>2 DEF Pages, PageType, Topics
<1>4. Asked'
  BY <1>1, SameAnswer DEF AnalysisInv
<1>5. Diagnosed'
  <2>1. probes \in ProbesType
    BY DEF AnalysisInv, Diagnosed
  <2>2. probes'.tasks = probes.tasks /\ probes' \in ProbesType
    BY <1>1, <2>1 DEF ProbesType
  <2> QED BY <1>1, <2>2 DEF AnalysisInv, Diagnosed
<1> QED
  BY <1>1, <1>3, <1>4, <1>5, SameUsage, SameExtract, SameReport DEF AnalysisInv

LEMMA AnalysisEnterExtract ==
  ASSUME AnalysisInv, NEW configured \in BOOLEAN, EnterExtract(configured) PROVE AnalysisInv'
<1>1. /\ page' = [page EXCEPT !.mode = "extract", !.back = "events"]
      /\ jobs' = jobs \/ jobs' = [jobs EXCEPT !.due = @ + 1]
      /\ extract' = extract \/ extract' = [extract EXCEPT !.running = FALSE, !.finished = TRUE]
      /\ UNCHANGED <<answer, queries, lost, usage, readings, diag, probes, questions, report>>
  BY DEF EnterExtract
<1>2. page \in PageType
  BY DEF AnalysisInv, Pages
<1>3. Pages'
  BY <1>1, <1>2 DEF Pages, PageType, Topics
<1>4. Asked'
  BY <1>1, <1>2, SameAnswer DEF AnalysisInv, PageType
<1>5. Extracted'
  <2>1. extract \in ExtractType /\ jobs \in JobsType
    BY DEF AnalysisInv, Extracted
  <2>2. jobs'.tasks = jobs.tasks /\ jobs' \in JobsType
    BY <1>1, <2>1 DEF JobsType
  <2>3. /\ extract' \in ExtractType /\ extract'.run = extract.run /\ extract'.path = extract.path
        /\ extract'.running => extract.running
    BY <1>1, <2>1 DEF ExtractType
  <2> QED BY <2>2, <2>3 DEF AnalysisInv, Extracted
<1> QED
  BY <1>1, <1>3, <1>4, <1>5, SameUsage, SameDiag, SameReport DEF AnalysisInv

(* A question asked is about what the assistant is opened over.            *)
LEMMA AnalysisEnterAi ==
  ASSUME AnalysisInv, NEW configured \in BOOLEAN, EnterAiPanel(configured) PROVE AnalysisInv'
<1>1. /\ page \in PageType /\ questions \in Seq(Topics) /\ answer \in AnswerType
      /\ queries \subseteq QueryType /\ (page.mode = "extract" => page.back = "events")
  BY DEF AnalysisInv, Pages, Asked
<1>2. /\ page' = [page EXCEPT !.back = Source, !.mode = "ai"]
      /\ Source \in Topics
      /\ UNCHANGED <<lost, usage, readings, diag, probes, extract, jobs, report>>
  BY <1>1 DEF EnterAiPanel, Source, PageType, Topics
<1>3. PICK src \in Topics : src = Source
  BY <1>2
<1>4. page' \in PageType /\ page'.mode = "ai" /\ page'.back = src
  BY <1>1, <1>2, <1>3 DEF PageType
<1>5. Pages'
  BY <1>4 DEF Pages
<1>6. CASE configured
  <2>1. /\ Started < MaxTasks
        /\ questions' = Append(questions, src)
        /\ answer' = [key |-> Len(questions'), loading |-> TRUE, error |-> FALSE,
                      text |-> 0, by |-> NoKey]
        /\ queries' = queries \cup {[key |-> Len(questions'), at |-> "gather", text |-> 0]}
    BY <1>3, <1>6 DEF EnterAiPanel
  <2>2. /\ Len(questions) \in Nat /\ Len(questions) + 1 <= MaxTasks
    BY <2>1, Room DEF AnalysisInv
  <2>3. /\ questions' \in Seq(Topics) /\ Len(questions') = Len(questions) + 1
        /\ questions'[Len(questions')] = src
        /\ \A k \in 1..Len(questions) : questions'[k] = questions[k]
    BY <1>1, <2>1
  <2>4. PICK n \in Nat : n = Len(questions')
    BY <2>2, <2>3
  <2>5. PICK q : q = [key |-> n, at |-> "gather", text |-> 0]
    OBVIOUS
  <2>6. q \in QueryType /\ q.key = n /\ queries' = queries \cup {q}
    BY <2>1, <2>4, <2>5 DEF QueryType
  <2>7. answer' \in AnswerType /\ answer'.key = n /\ answer'.text = 0
    BY <2>1, <2>4 DEF AnswerType, NoKey
  <2>8. Asked'
    <3>1. \A r \in queries' : r.key \in 1..Len(questions')
      BY <2>2, <2>3, <2>4, <2>6 DEF AnalysisInv, Asked
    <3>2. \E r \in queries' : r.key = answer'.key
      BY <2>6, <2>7
    <3>3. Len(questions') <= MaxTasks /\ queries' \subseteq QueryType
      BY <1>1, <2>2, <2>3, <2>6
    <3>4. ~(answer'.text > 0)
      BY <2>7
    <3> QED BY <1>4, <2>3, <2>4, <2>7, <3>1, <3>2, <3>3, <3>4 DEF Asked
  <2>9. Reported'
    BY <1>2, <2>2, <2>3 DEF AnalysisInv, Reported
  <2> QED BY <1>2, <1>5, <2>8, <2>9, SameUsage, SameDiag, SameExtract DEF AnalysisInv
<1>7. CASE ~configured
  <2>1. /\ answer' = [key |-> BadKey, loading |-> FALSE, error |-> TRUE, text |-> 0, by |-> NoKey]
        /\ UNCHANGED <<questions, queries>>
    BY <1>7 DEF EnterAiPanel
  <2>2. Len(questions) \in Nat /\ Len(questions) <= MaxTasks /\ MaxTasks \in Nat
    BY AnalysisAssumption DEF AnalysisInv, Asked
  <2>3. answer' \in AnswerType /\ answer'.key \notin 1..Len(questions) /\ ~answer'.loading
        /\ ~(answer'.text > 0)
    BY <2>1, <2>2 DEF AnswerType, BadKey, NoKey
  <2>4. Asked'
    BY <2>1, <2>3 DEF AnalysisInv, Asked
  <2> QED
    BY <1>2, <1>5, <2>1, <2>4, SameUsage, SameDiag, SameExtract, SameReport DEF AnalysisInv
<1> QED BY <1>6, <1>7

(* A report is of what is on screen, and its answer of the question asked   *)
(* over it; the steps of one run have one run.                             *)
LEMMA AnalysisExports ==
  ASSUME AnalysisInv, ExportDiagnosticPdf \/ ExportNodeUsagePdf PROVE AnalysisInv'
<1>1. UNCHANGED <<page, answer, queries, lost, usage, readings, diag, probes, extract, jobs, questions>>
  BY DEF ExportDiagnosticPdf, ExportNodeUsagePdf, Exports
<1>2. /\ page.mode = "ai" /\ report'.of = page.back
      /\ report'.by = IF answer.text > 0 THEN answer.by ELSE NoKey
      /\ report'.runs \in {{}, {s.run : s \in Range(diag.steps)}}
  BY DEF ExportDiagnosticPdf, ExportNodeUsagePdf, Exports
<1>3. report'.by # NoKey =>
        report'.by \in 1..Len(questions) /\ questions[report'.by] = report'.of
  BY <1>2 DEF AnalysisInv, Asked
<1>4. \A r \in {s.run : s \in Range(diag.steps)} : r = diag.run
  BY DEF AnalysisInv, Diagnosed, Range
<1>5. {s.run : s \in Range(diag.steps)} \in {{}, {diag.run}}
  BY <1>4
<1>6. Cardinality(report'.runs) <= 1
  <2>1. report'.runs \in {{}, {diag.run}}
    BY <1>2, <1>5
  <2>2. Cardinality({}) = 0 /\ Cardinality({diag.run}) = 1
    BY FS_EmptySet, FS_Singleton
  <2> QED BY <2>1, <2>2
<1>7. Reported'
  BY <1>1, <1>3, <1>6 DEF Reported
<1>8. Pages' /\ Asked'
  BY <1>1 DEF AnalysisInv, Pages, Asked
<1> QED BY <1>1, <1>7, <1>8, SameUsage, SameDiag, SameExtract DEF AnalysisInv

-----------------------------------------------------------------------------
(* The assistant *)

LEMMA AnalysisAnswers ==
  ASSUME AnalysisInv, NEW q \in queries,
         Gathered(q) \/ GatherPanics(q) \/ Streamed(q) \/ StreamEnds(q) \/ StreamFails(q)
  PROVE  AnalysisInv'
<1>1. UNCHANGED <<page, usage, readings, diag, probes, extract, jobs, questions, report>>
  BY DEF Gathered, GatherPanics, Streamed, StreamEnds, StreamFails, Answers
<1>2. /\ queries \subseteq QueryType /\ answer \in AnswerType
      /\ q \in QueryType /\ q.key \in 1..Len(questions)
  BY DEF AnalysisInv, Asked
<1>3. Pages'
  BY <1>1 DEF AnalysisInv, Pages
<1>4. ASSUME NEW r, r \in QueryType, r.key = q.key, queries' = (queries \ {q}) \cup {r}
      PROVE  /\ queries' \subseteq QueryType /\ \A p \in queries' : p.key \in 1..Len(questions)
             /\ \A k : (\E p \in queries : p.key = k) => \E p \in queries' : p.key = k
  BY <1>2, <1>4 DEF AnalysisInv, Asked
<1>5. ASSUME queries' = queries \ {q}
      PROVE  /\ queries' \subseteq QueryType /\ \A p \in queries' : p.key \in 1..Len(questions)
             /\ \A k : k # q.key /\ (\E p \in queries : p.key = k) => \E p \in queries' : p.key = k
  BY <1>2, <1>5 DEF AnalysisInv, Asked
<1>6. Asked'
  <2>1. CASE Gathered(q)
    <3>1. PICK r : r = [q EXCEPT !.at = "stream"]
      OBVIOUS
    <3>2. r \in QueryType /\ r.key = q.key
      BY <1>2, <3>1 DEF QueryType
    <3>3. queries' = (queries \ {q}) \cup {r} /\ UNCHANGED <<answer, lost>>
      BY <2>1, <3>1 DEF Gathered, Answers
    <3> QED BY <1>1, <1>4, <3>2, <3>3 DEF AnalysisInv, Asked
  <2>2. CASE GatherPanics(q)
    <3>1. queries' = queries \ {q} /\ lost' = lost \cup {q.key} /\ answer' = answer
      BY <2>2 DEF GatherPanics
    <3> QED BY <1>1, <1>5, <3>1 DEF AnalysisInv, Asked
  <2>3. CASE Streamed(q)
    <3>1. CASE answer.key = q.key
      <4>1. PICK r : r = [q EXCEPT !.text = @ + 1]
        OBVIOUS
      <4>2. r \in QueryType /\ r.key = q.key
        BY <1>2, <4>1 DEF QueryType
      <4>3. queries' = (queries \ {q}) \cup {r} /\ lost' = lost
            /\ answer' = [answer EXCEPT !.text = q.text + 1, !.by = q.key, !.error = FALSE]
        BY <2>3, <3>1, <4>1 DEF Streamed, Answers
      <4>5. PICK n \in Nat : n = q.text + 1
        BY <1>2 DEF QueryType
      <4>6. PICK k \in Nat : k = q.key
        BY <1>2 DEF QueryType
      <4>7. answer' = [answer EXCEPT !.text = n, !.by = k, !.error = FALSE]
        BY <4>3, <4>5, <4>6
      <4>4. /\ answer' \in AnswerType /\ answer'.key = answer.key /\ answer'.by = answer.key
            /\ answer'.loading = answer.loading
        BY <1>2, <3>1, <4>6, <4>7 DEF AnswerType
      <4> QED BY <1>1, <1>2, <1>4, <3>1, <4>2, <4>3, <4>4 DEF AnalysisInv, Asked
    <3>2. CASE answer.key # q.key
      <4>1. queries' = queries \ {q} /\ UNCHANGED <<answer, lost>>
        BY <2>3, <3>2 DEF Streamed, Answers
      <4> QED BY <1>1, <1>5, <3>2, <4>1 DEF AnalysisInv, Asked
    <3> QED BY <3>1, <3>2
  <2>4. CASE StreamEnds(q) \/ StreamFails(q)
    <3>1. queries' = queries \ {q} /\ lost' = lost
      BY <2>4 DEF StreamEnds, StreamFails, Answers
    <3>2. CASE answer.key = q.key
      <4>1. \/ answer' = [answer EXCEPT !.loading = FALSE, !.error = FALSE, !.text = q.text, !.by = q.key]
            \/ answer' = [answer EXCEPT !.loading = FALSE, !.error = TRUE]
        BY <2>4, <3>2 DEF StreamEnds, StreamFails, Answers
      <4>2. /\ answer' \in AnswerType /\ answer'.key = answer.key /\ ~answer'.loading
            /\ answer'.by = answer.key \/ (answer'.by = answer.by /\ answer'.text = answer.text)
        BY <1>2, <3>2, <4>1 DEF AnswerType, QueryType
      <4> QED BY <1>1, <1>2, <1>5, <3>1, <3>2, <4>2 DEF AnalysisInv, Asked
    <3>3. CASE answer.key # q.key
      <4>1. answer' = answer
        BY <2>4, <3>3 DEF StreamEnds, StreamFails, Answers
      <4> QED BY <1>1, <1>5, <3>1, <3>3, <4>1 DEF AnalysisInv, Asked
    <3> QED BY <3>2, <3>3
  <2> QED BY <2>1, <2>2, <2>3, <2>4
<1> QED
  BY <1>1, <1>3, <1>6, SameUsage, SameDiag, SameExtract, SameReport DEF AnalysisInv

-----------------------------------------------------------------------------
(* The usage of a node *)

LEMMA AnalysisReads ==
  ASSUME AnalysisInv, NEW h \in Hosts,
         ReadingStarts(h) \/ \E found \in BOOLEAN : ReadingEnds(h, found)
  PROVE  AnalysisInv'
<1>1. UNCHANGED <<page, answer, queries, lost, diag, probes, extract, jobs, questions, report>>
  BY DEF ReadingStarts, ReadingEnds
<1>2. usage \in UsageType /\ readings \in ReadingsType
  BY DEF AnalysisInv, UsageKept
<1>3. readings.due \in [Hosts -> Nat] /\ readings.going \in [Hosts -> Nat] /\ readings.count \in Nat
  BY <1>2 DEF ReadingsType
<1>4. UsageKept'
  <2>1. CASE ReadingStarts(h)
    <3>1. PICK d : d = [readings.due EXCEPT ![h] = @ - 1]
      OBVIOUS
    <3>2. PICK g : g = [readings.going EXCEPT ![h] = @ + 1]
      OBVIOUS
    <3>3. d \in [Hosts -> Nat] /\ g \in [Hosts -> Nat] /\ g[h] > 0
      BY <1>3, <2>1, <3>1, <3>2 DEF ReadingStarts
    <3>4. readings' = [readings EXCEPT !.due = d, !.going = g]
      BY <1>2, <2>1, <3>1, <3>2 DEF ReadingStarts, ReadingsType
    <3>5. readings' \in ReadingsType /\ readings'.going = g
      BY <1>2, <3>3, <3>4 DEF ReadingsType
    <3>6. usage' = [of |-> h, rows |-> NoOne, loading |-> TRUE]
      BY <2>1 DEF ReadingStarts
    <3> QED BY <3>3, <3>5, <3>6 DEF UsageKept, UsageType
  <2>2. ASSUME NEW found \in BOOLEAN, ReadingEnds(h, found) PROVE UsageKept'
    <3>1. PICK g : g = [readings.going EXCEPT ![h] = @ - 1]
      OBVIOUS
    <3>7. readings.going[h] \in Nat /\ readings.going[h] > 0
      BY <1>3, <2>2 DEF ReadingEnds
    <3>2. g \in [Hosts -> Nat] /\ \A k \in Hosts : k # h => g[k] = readings.going[k]
      BY <1>3, <3>1, <3>7
    <3>3. readings' = [readings EXCEPT !.going = g]
      BY <1>2, <2>2, <3>1 DEF ReadingEnds, ReadingsType
    <3>4. readings' \in ReadingsType /\ readings'.going = g
      BY <1>2, <3>2, <3>3 DEF ReadingsType
    <3>5. CASE usage.of # h
      BY <2>2, <3>2, <3>4, <3>5 DEF ReadingEnds, AnalysisInv, UsageKept
    <3>6. CASE usage.of = h
      <4>1. usage' \in UsageType /\ usage'.of = h /\ ~usage'.loading /\ usage'.rows \in {usage.rows, h}
        BY <1>2, <2>2, <3>6 DEF ReadingEnds, UsageType
      <4> QED BY <3>4, <3>6, <4>1 DEF AnalysisInv, UsageKept
    <3> QED BY <3>5, <3>6
  <2> QED BY <2>1, <2>2
<1>5. Pages' /\ Asked'
  BY <1>1 DEF AnalysisInv, Pages, Asked
<1> QED BY <1>1, <1>4, <1>5, SameDiag, SameExtract, SameReport DEF AnalysisInv

-----------------------------------------------------------------------------
(* The extraction *)

LEMMA AnalysisExtracts ==
  ASSUME AnalysisInv,
         \/ JobStarts
         \/ \E j \in jobs.tasks : JobTells(j) \/ \E written \in BOOLEAN : JobEnds(j, written)
  PROVE  AnalysisInv'
<1>1. UNCHANGED <<page, answer, queries, lost, usage, readings, diag, probes, questions, report>>
  BY DEF JobStarts, JobTells, JobEnds, Extracts
<1>2. extract \in ExtractType /\ jobs \in JobsType /\ \A j \in jobs.tasks : j.run <= extract.run
  BY DEF AnalysisInv, Extracted
<1>3. extract.run \in Nat /\ jobs.due \in Nat /\ jobs.tasks \subseteq [run : Nat, stage : Nat]
  BY <1>2 DEF ExtractType, JobsType
<1>4. Extracted'
  <2>1. CASE JobStarts
    <3>1. PICK run \in Nat : run = extract.run + 1
      BY <1>3
    <3>2. PICK k : k = [run |-> run, stage |-> 0]
      OBVIOUS
    <3>3. /\ extract' = [run |-> run, running |-> TRUE, finished |-> FALSE, path |-> 0]
          /\ jobs' = [due |-> jobs.due - 1, tasks |-> jobs.tasks \cup {k}]
          /\ jobs.due > 0
      BY <2>1, <3>1, <3>2 DEF JobStarts, Extracts
    <3>4. k \in [run : Nat, stage : Nat] /\ k.run = run
      BY <3>2
    <3>5. extract' \in ExtractType /\ extract'.run = run /\ extract'.path = 0
      BY <3>3 DEF ExtractType
    <3>6. jobs' \in JobsType /\ jobs'.tasks = jobs.tasks \cup {k}
      BY <1>3, <3>3, <3>4 DEF JobsType
    <3>7. \A j \in jobs'.tasks : j.run <= run
      BY <1>2, <1>3, <3>1, <3>4, <3>6
    <3> QED BY <3>4, <3>5, <3>6, <3>7 DEF Extracted
  <2>2. ASSUME NEW j \in jobs.tasks, JobTells(j) PROVE Extracted'
    <3>1. PICK k : k = [j EXCEPT !.stage = @ + 1]
      OBVIOUS
    <3>2. k \in [run : Nat, stage : Nat] /\ k.run = j.run
      BY <1>3, <3>1
    <3>3. PICK S : S = (jobs.tasks \ {j}) \cup (IF extract.run = j.run THEN {k} ELSE {})
      OBVIOUS
    <3>4. extract' = extract /\ jobs' = [jobs EXCEPT !.tasks = S]
      BY <2>2, <3>1, <3>3 DEF JobTells, Extracts
    <3>5. S \subseteq [run : Nat, stage : Nat]
      BY <1>3, <3>2, <3>3
    <3>6. jobs' \in JobsType /\ jobs'.tasks = S
      BY <1>2, <3>4, <3>5 DEF JobsType
    <3>7. \A i \in S : i.run <= extract.run
      BY <1>2, <3>2, <3>3
    <3>8. (\E i \in jobs.tasks : i.run = extract.run) => \E i \in S : i.run = extract.run
      BY <3>2, <3>3
    <3> QED BY <3>4, <3>6, <3>7, <3>8 DEF AnalysisInv, Extracted
  <2>3. ASSUME NEW j \in jobs.tasks, NEW written \in BOOLEAN, JobEnds(j, written) PROVE Extracted'
    <3>1. jobs' = [jobs EXCEPT !.tasks = jobs.tasks \ {j}]
      BY <1>2, <2>3 DEF JobEnds, Extracts, JobsType
    <3>2. jobs' \in JobsType /\ jobs'.tasks = jobs.tasks \ {j}
      BY <1>2, <3>1 DEF JobsType
    <3>3. CASE extract.run # j.run
      BY <2>3, <3>2, <3>3 DEF JobEnds, Extracts, AnalysisInv, Extracted
    <3>4. CASE extract.run = j.run
      <4>1. \/ extract' = [extract EXCEPT !.running = FALSE, !.finished = TRUE, !.path = extract.run]
            \/ extract' = [extract EXCEPT !.running = FALSE, !.finished = TRUE]
        BY <1>2, <2>3, <3>4 DEF JobEnds, Extracts, ExtractType
      <4>2. /\ extract' \in ExtractType /\ extract'.run = extract.run /\ ~extract'.running
            /\ extract'.path \in {extract.path, extract.run}
        BY <1>2, <1>3, <4>1 DEF ExtractType
      <4> QED BY <3>2, <4>2 DEF AnalysisInv, Extracted
    <3> QED BY <3>3, <3>4
  <2> QED BY <2>1, <2>2, <2>3
<1>5. Pages' /\ Asked'
  BY <1>1 DEF AnalysisInv, Pages, Asked
<1> QED BY <1>1, <1>4, <1>5, SameUsage, SameDiag, SameReport DEF AnalysisInv

-----------------------------------------------------------------------------
(* The diagnostic *)

LEMMA WidthsType ==
  /\ Len(Widths) \in Nat /\ DOMAIN Widths = 1..Len(Widths)
  /\ \A c \in DOMAIN Widths : Widths[c] \in Nat \ {0} /\ StepsOf[c] = Widths[c]
  /\ StepsOf[Len(Widths) + 1] = 0
<1>1. Widths \in Seq(Nat \ {0})
  BY AnalysisAssumption
<1>2. /\ Len(Widths) \in Nat /\ DOMAIN Widths = 1..Len(Widths)
      /\ \A c \in DOMAIN Widths : Widths[c] \in Nat \ {0}
  BY <1>1
<1>3. \A c \in 1..Len(Widths) + 1 : StepsOf[c] = IF c <= Len(Widths) THEN Widths[c] ELSE 0
  BY DEF StepsOf
<1> QED BY <1>2, <1>3

LEMMA StepsAreFew ==
  ASSUME NEW steps \in Seq(StepType), NEW c
  PROVE  IsFiniteSet(StepsAt(steps, c)) /\ Cardinality(StepsAt(steps, c)) \in Nat
<1>1. DOMAIN steps = 1..Len(steps) /\ Len(steps) \in Nat
  OBVIOUS
<1>2. IsFiniteSet(1..Len(steps))
  BY <1>1, FS_Interval
<1>3. StepsAt(steps, c) \in SUBSET (1..Len(steps))
  BY <1>1 DEF StepsAt
<1> QED BY <1>2, <1>3, FS_Subset, FS_CardinalityType

(* A step shown is one more of its check.                                  *)
LEMMA StepShown ==
  ASSUME NEW steps \in Seq(StepType), NEW s \in StepType, NEW c
  PROVE  Cardinality(StepsAt(Append(steps, s), c)) =
           IF s.check = c THEN Cardinality(StepsAt(steps, c)) + 1 ELSE Cardinality(StepsAt(steps, c))
<1>1. /\ Len(steps) \in Nat /\ DOMAIN steps = 1..Len(steps)
      /\ DOMAIN Append(steps, s) = 1..(Len(steps) + 1)
      /\ \A i \in 1..Len(steps) : Append(steps, s)[i] = steps[i]
      /\ Append(steps, s)[Len(steps) + 1] = s
  OBVIOUS
<1>2. CASE s.check = c
  <2>1. StepsAt(Append(steps, s), c) = StepsAt(steps, c) \cup {Len(steps) + 1}
    BY <1>1, <1>2 DEF StepsAt
  <2>2. Len(steps) + 1 \notin StepsAt(steps, c)
    BY <1>1 DEF StepsAt
  <2> QED BY <1>2, <2>1, <2>2, StepsAreFew, FS_AddElement
<1>3. CASE s.check # c
  <2>1. StepsAt(Append(steps, s), c) = StepsAt(steps, c)
    BY <1>1, <1>3 DEF StepsAt
  <2> QED BY <1>3, <2>1
<1> QED BY <1>2, <1>3

(* A step told of stays where it is.                                       *)
WithBy(steps, k, b) == [steps EXCEPT ![k].by = b]

LEMMA StepToldOf ==
  ASSUME NEW steps \in Seq(StepType), NEW k \in 1..Len(steps), NEW b \in Nat
  PROVE  /\ WithBy(steps, k, b) \in Seq(StepType) /\ Len(WithBy(steps, k, b)) = Len(steps)
         /\ \A i \in 1..Len(steps) :
              /\ WithBy(steps, k, b)[i].run = steps[i].run
              /\ WithBy(steps, k, b)[i].check = steps[i].check
              /\ WithBy(steps, k, b)[i].by = IF i = k THEN b ELSE steps[i].by
<1>1. Len(steps) \in Nat /\ DOMAIN steps = 1..Len(steps) /\ \A i \in 1..Len(steps) : steps[i] \in StepType
  OBVIOUS
<1>2. PICK s : s = [steps[k] EXCEPT !.by = b]
  OBVIOUS
<1>3. s \in StepType /\ s.run = steps[k].run /\ s.check = steps[k].check /\ s.by = b
  BY <1>1, <1>2 DEF StepType
<1>4. PICK told : told = WithBy(steps, k, b)
  OBVIOUS
<1>5. told = [steps EXCEPT ![k] = s]
  BY <1>2, <1>4 DEF WithBy
<1>6. told \in [1..Len(steps) -> StepType] /\ \A i \in 1..Len(steps) : told[i] = IF i = k THEN s ELSE steps[i]
  BY <1>1, <1>3, <1>5
<1>7. told \in Seq(StepType) /\ Len(told) = Len(steps)
  BY <1>1, <1>6
<1>8. \A i \in 1..Len(steps) :
        /\ told[i].run = steps[i].run /\ told[i].check = steps[i].check
        /\ told[i].by = IF i = k THEN b ELSE steps[i].by
  BY <1>3, <1>6
<1> QED BY <1>4, <1>7, <1>8

LEMMA StepToldAt ==
  ASSUME NEW steps \in Seq(StepType), NEW k \in 1..Len(steps), NEW b \in Nat, NEW c
  PROVE  StepsAt(WithBy(steps, k, b), c) = StepsAt(steps, c)
<1>1. DOMAIN steps = 1..Len(steps) /\ DOMAIN WithBy(steps, k, b) = 1..Len(steps)
  BY DEF WithBy
<1>2. \A i \in 1..Len(steps) : WithBy(steps, k, b)[i].check = steps[i].check
  BY StepToldOf
<1> QED BY <1>1, <1>2 DEF StepsAt

LEMMA BothOneMore ==
  ASSUME NEW m \in Nat, NEW n \in Nat, NEW a, a = m + 1, NEW b, b = n + 1
  PROVE  a - b = m - n
  OBVIOUS

LEMMA PushedFollows ==
  ASSUME NEW steps \in Seq(StepType), NEW run \in Nat, NEW t \in ProbeType,
         OnItsWay(t), Follows(t, run, steps), t.left > 0,
         NEW s \in StepType, s.check = t.check,
         NEW u \in ProbeType, u.check = t.check, u.left = t.left - 1,
         u.shown = Append(t.shown, Len(steps) + 1)
  PROVE  OnItsWay(u) /\ Follows(u, run, Append(steps, s))
<1>1. /\ t.check \in Nat /\ t.left \in Nat /\ t.shown \in Seq(Nat) /\ u.left \in Nat
      /\ Len(steps) \in Nat /\ Len(t.shown) \in Nat
  BY DEF ProbeType
<1>2. t.check \in DOMAIN Widths
  BY <1>1, WidthsType DEF OnItsWay
<1>3. OnItsWay(u)
  BY <1>1, <1>2, WidthsType DEF OnItsWay
<1>4. PICK m \in Nat : m = Len(steps)
  BY <1>1
<1>5. PICK n \in Nat : n = Len(t.shown)
  BY <1>1
<1>6. PICK next : next = Append(steps, s)
  OBVIOUS
<1>17. Len(next) = m + 1
  BY <1>4, <1>6
<1>7. next[m + 1] = s /\ \A i \in 1..m : next[i] = steps[i]
  BY <1>4, <1>6
<1>8. Len(u.shown) = n + 1
  BY <1>1, <1>5
<1>9. u.shown[n + 1] = m + 1 /\ \A k \in 1..n : u.shown[k] = t.shown[k]
  BY <1>1, <1>4, <1>5
<1>10. n <= m
  BY <1>4, <1>5 DEF Follows
<1>18. Len(next) - Len(u.shown) = m - n
  BY <1>8, <1>17, BothOneMore
<1>11. ASSUME NEW k \in 1..Len(u.shown)
       PROVE  u.shown[k] = Len(next) - Len(u.shown) + k
  <2>1. CASE k = n + 1
    <3>1. u.shown[k] = m + 1
      BY <1>9, <2>1
    <3> QED BY <1>4, <1>5, <1>8, <1>17, <2>1, <3>1
  <2>2. CASE k # n + 1
    <3>1. k \in 1..n
      BY <1>8, <2>2
    <3>2. u.shown[k] = m - n + k
      BY <1>4, <1>5, <1>9, <3>1 DEF Follows
    <3>3. Len(next) - Len(u.shown) + k = m - n + k
      BY <1>18
    <3> QED BY <3>2, <3>3
  <2> QED BY <2>1, <2>2
<1>12. ASSUME NEW i \in 1..Len(next)
       PROVE  /\ next[i].check <= u.check
              /\ i <= Len(next) - Len(u.shown) => next[i].by = run
              /\ i > Len(next) - Len(u.shown) => next[i].check = u.check
  <2>1. Len(next) - Len(u.shown) = m - n /\ i \in Int
    BY <1>18
  <2>2. CASE i = m + 1
    <3>1. next[i].check = u.check /\ u.check \in Nat
      BY <1>1, <1>7, <2>2
    <3>2. ~(i <= m - n)
      BY <2>2
    <3> QED BY <2>1, <3>1, <3>2
  <2>3. CASE i # m + 1
    <3>1. i \in 1..m
      BY <1>17, <2>3
    <3>2. next[i] = steps[i]
      BY <1>7, <3>1
    <3>3. /\ steps[i].check <= t.check
          /\ i <= m - n => steps[i].by = run
          /\ i > m - n => steps[i].check = t.check
      BY <1>4, <1>5, <3>1 DEF Follows
    <3> QED BY <2>1, <3>2, <3>3
  <2> QED BY <2>2, <2>3
<1>13. Cardinality(StepsAt(next, u.check)) + u.left = Widths[u.check]
  <2>1. Cardinality(StepsAt(next, u.check)) = Cardinality(StepsAt(steps, t.check)) + 1
    BY <1>6, StepShown
  <2>2. Cardinality(StepsAt(steps, t.check)) + t.left = Widths[t.check]
    BY <1>2 DEF Follows
  <2>3. Cardinality(StepsAt(steps, t.check)) \in Nat
    BY StepsAreFew
  <2> QED BY <1>1, <2>1, <2>2, <2>3
<1>14. \A c \in DOMAIN Widths : c < u.check => Cardinality(StepsAt(next, c)) = Widths[c]
  <2> SUFFICES ASSUME NEW c \in DOMAIN Widths, c < t.check
               PROVE  Cardinality(StepsAt(next, c)) = Widths[c]
    OBVIOUS
  <2>1. s.check # c
    BY <1>1, WidthsType
  <2>2. Cardinality(StepsAt(next, c)) = Cardinality(StepsAt(steps, c))
    BY <1>6, <2>1, StepShown
  <2> QED BY <2>2 DEF Follows
<1>15. Len(u.shown) <= Len(next)
  BY <1>17, <1>8, <1>10
<1>16. Follows(u, run, next)
  BY <1>2, <1>11, <1>12, <1>13, <1>14, <1>15 DEF Follows
<1> QED BY <1>3, <1>6, <1>16

LEMMA ToldOnItsWay ==
  ASSUME NEW t \in ProbeType, OnItsWay(t), t.left = 0, t.shown # << >>
  PROVE  /\ Told(t) \in ProbeType /\ Told(t).run = t.run /\ OnItsWay(Told(t))
         /\ t.check \in DOMAIN Widths
<1>1. /\ t.check \in Nat /\ t.left \in Nat /\ t.shown \in Seq(Nat) /\ Len(t.shown) \in Nat
      /\ Len(t.shown) # 0
  BY DEF ProbeType
<1>2. t.check \in DOMAIN Widths
  BY <1>1, WidthsType DEF OnItsWay
<1>3. CASE Len(t.shown) > 1
  <2>1. PICK q : q = Tail(t.shown)
    OBVIOUS
  <2>2. q \in Seq(Nat)
    BY <1>1, <2>1
  <2>3. Told(t) = [t EXCEPT !.shown = q]
    BY <1>3, <2>1 DEF Told
  <2>4. Told(t) \in ProbeType /\ Told(t).run = t.run /\ Told(t).check = t.check
    BY <2>2, <2>3 DEF ProbeType
  <2> QED BY <1>1, <1>2, <2>4, WidthsType DEF OnItsWay
<1>4. CASE ~(Len(t.shown) > 1)
  <2>1. PICK c \in Nat : c = t.check + 1
    BY <1>1
  <2>2. PICK w : w = StepsOf[c]
    OBVIOUS
  <2>3. w \in Nat /\ (c = Len(Widths) + 1 => w = 0) /\ c \in 1..Len(Widths) + 1
    BY <1>1, <1>2, <2>1, <2>2, WidthsType
  <2>7. << >> \in Seq(Nat)
    OBVIOUS
  <2>6. PICK e \in Seq(Nat) : e = << >>
    BY <2>7
  <2>4. Told(t) = [t EXCEPT !.shown = e, !.check = c, !.left = w]
    BY <1>4, <2>1, <2>2, <2>6 DEF Told
  <2>5. /\ Told(t) \in ProbeType /\ Told(t).run = t.run /\ Told(t).check = c
        /\ Told(t).left = w /\ Told(t).shown = e
    BY <2>3, <2>4 DEF ProbeType
  <2> QED BY <1>2, <2>3, <2>5, <2>6 DEF OnItsWay
<1> QED BY <1>3, <1>4

LEMMA ToldFollows ==
  ASSUME NEW steps \in Seq(StepType), NEW run \in Nat, NEW t \in ProbeType,
         OnItsWay(t), Follows(t, run, steps), t.left = 0, t.shown # << >>
  PROVE  /\ Head(t.shown) \in 1..Len(steps)
         /\ Follows(Told(t), run, WithBy(steps, Head(t.shown), run))
<1>1. /\ t.check \in Nat /\ t.shown \in Seq(Nat) /\ Len(steps) \in Nat
      /\ Len(t.shown) \in Nat /\ Len(t.shown) > 0
  BY DEF ProbeType
<1>2. PICK m \in Nat : m = Len(steps)
  BY <1>1
<1>3. PICK n \in Nat : n = Len(t.shown)
  BY <1>1
<1>4. n > 0 /\ n <= m
  BY <1>1, <1>2, <1>3 DEF Follows
<1>5. PICK k \in Int : k = m - n + 1
  BY <1>4
<1>6. k \in 1..m
  BY <1>4, <1>5
<1>7. Head(t.shown) = k
  <2>1. Head(t.shown) = t.shown[1] /\ 1 \in 1..n
    BY <1>1, <1>4
  <2> QED BY <1>2, <1>3, <1>5, <2>1 DEF Follows
<1>8. PICK told : told = WithBy(steps, k, run)
  OBVIOUS
<1>9. /\ told \in Seq(StepType) /\ Len(told) = m
      /\ \A i \in 1..m : /\ told[i].check = steps[i].check
                          /\ told[i].by = IF i = k THEN run ELSE steps[i].by
      /\ \A c : StepsAt(told, c) = StepsAt(steps, c)
  <2>1. k \in 1..Len(steps)
    BY <1>2, <1>6
  <2>2. /\ told \in Seq(StepType) /\ Len(told) = Len(steps)
        /\ \A i \in 1..Len(steps) : /\ told[i].check = steps[i].check
                                    /\ told[i].by = IF i = k THEN run ELSE steps[i].by
    BY <1>8, <2>1, StepToldOf
  <2>3. \A c : StepsAt(told, c) = StepsAt(steps, c)
    BY <1>8, <2>1, StepToldAt
  <2> QED BY <1>2, <2>2, <2>3
<1>13. DOMAIN told = 1..m /\ \A i \in 1..m : told[i].check \in Nat
  <2>1. told \in [1..m -> StepType]
    BY <1>9
  <2> QED BY <2>1 DEF StepType
<1>10. \A i \in 1..m :
         /\ told[i].check <= t.check
         /\ i <= k => told[i].by = run
         /\ i > k => told[i].check = t.check
  <2> SUFFICES ASSUME NEW i \in 1..m
               PROVE  /\ told[i].check <= t.check
                      /\ i <= k => told[i].by = run
                      /\ i > k => told[i].check = t.check
    OBVIOUS
  <2>1. /\ steps[i].check <= t.check
        /\ i <= m - n => steps[i].by = run
        /\ i > m - n => steps[i].check = t.check
    BY <1>2, <1>3 DEF Follows
  <2>2. told[i].check = steps[i].check /\ told[i].by = IF i = k THEN run ELSE steps[i].by
    BY <1>9
  <2>3. (i <= k => i <= m - n \/ i = k) /\ (i > k => i > m - n)
    BY <1>5
  <2> QED BY <2>1, <2>2, <2>3
<1>11. t.check \in DOMAIN Widths
  BY ToldOnItsWay
<1>12. Follows(Told(t), run, told)
  <2>1. CASE n > 1
    <3>1. PICK q : q = Tail(t.shown)
      OBVIOUS
    <3>2. Len(q) = n - 1
      BY <1>1, <1>3, <2>1, <3>1
    <3>3. \A j \in 1..(n - 1) : q[j] = t.shown[j + 1]
      BY <1>1, <1>3, <2>1, <3>1
    <3>4. Told(t) = [t EXCEPT !.shown = q]
      BY <1>3, <2>1, <3>1 DEF Told
    <3>5. PICK u : u = Told(t)
      OBVIOUS
    <3>6. u.shown = q /\ u.check = t.check /\ u.left = t.left
      BY <3>4, <3>5 DEF ProbeType
    <3>7. Len(told) - Len(u.shown) = k /\ Len(u.shown) <= Len(told)
      BY <1>4, <1>5, <1>9, <3>2, <3>6
    <3>8. \A j \in 1..Len(u.shown) : u.shown[j] = Len(told) - Len(u.shown) + j
      <4> SUFFICES ASSUME NEW j \in 1..(n - 1) PROVE q[j] = k + j
        BY <3>2, <3>6, <3>7
      <4>1. j + 1 \in 1..n
        BY <1>4
      <4>2. t.shown[j + 1] = m - n + (j + 1)
        BY <1>2, <1>3, <4>1 DEF Follows
      <4>3. q[j] = t.shown[j + 1]
        BY <3>3
      <4> QED BY <1>5, <4>2, <4>3
    <3>9. \A i \in 1..Len(told) :
            /\ told[i].check <= u.check
            /\ i <= Len(told) - Len(u.shown) => told[i].by = run
            /\ i > Len(told) - Len(u.shown) => told[i].check = u.check
      BY <1>9, <1>10, <3>6, <3>7
    <3>10. /\ Cardinality(StepsAt(told, u.check)) + u.left = Widths[u.check]
           /\ \A c \in DOMAIN Widths : c < u.check => Cardinality(StepsAt(told, c)) = Widths[c]
      BY <1>9, <1>11, <3>6 DEF Follows
    <3>11. Follows(u, run, told)
      BY <1>11, <3>6, <3>7, <3>8, <3>9, <3>10 DEF Follows
    <3> QED BY <3>5, <3>11
  <2>2. CASE ~(n > 1)
    <3>1. k = m
      BY <1>4, <1>5, <2>2
    <3>2. PICK c \in Nat : c = t.check + 1
      BY <1>1
    <3>3. PICK w : w = StepsOf[c]
      OBVIOUS
    <3>4. Told(t) = [t EXCEPT !.shown = << >>, !.check = c, !.left = w]
      BY <1>3, <2>2, <3>2, <3>3 DEF Told
    <3>5. PICK u : u = Told(t)
      OBVIOUS
    <3>6. u.shown = << >> /\ u.check = c /\ u.left = w
      BY <3>4, <3>5 DEF ProbeType
    <3>7. Len(u.shown) = 0 /\ Len(told) - Len(u.shown) = m /\ Len(u.shown) <= Len(told)
      BY <1>9, <3>6
    <3>8. \A i \in 1..m : told[i].check < c /\ told[i].by = run
      <4> SUFFICES ASSUME NEW i \in 1..m PROVE told[i].check < c /\ told[i].by = run
        OBVIOUS
      <4>1. told[i].check <= t.check /\ told[i].by = run
        BY <1>10, <3>1
      <4>2. told[i].check \in Nat
        BY <1>13
      <4> QED BY <1>1, <3>2, <4>1, <4>2
    <3>9. \A i \in 1..Len(told) :
            /\ told[i].check <= u.check
            /\ i <= Len(told) - Len(u.shown) => told[i].by = run
            /\ i > Len(told) - Len(u.shown) => told[i].check = u.check
      <4> SUFFICES ASSUME NEW i \in 1..m PROVE told[i].check <= c /\ told[i].by = run /\ ~(i > m)
        BY <1>9, <3>6, <3>7
      <4>1. told[i].check < c /\ told[i].by = run
        BY <3>8
      <4>2. told[i].check \in Nat
        BY <1>13
      <4> QED BY <1>2, <3>2, <4>1, <4>2
    <3>10. StepsAt(told, c) = {}
      BY <1>13, <3>2, <3>8 DEF StepsAt
    <3>11. c \in DOMAIN Widths => Cardinality(StepsAt(told, c)) + w = Widths[c]
      BY <3>3, <3>10, FS_EmptySet, WidthsType
    <3>12. \A d \in DOMAIN Widths : d < c => Cardinality(StepsAt(told, d)) = Widths[d]
      <4> SUFFICES ASSUME NEW d \in DOMAIN Widths, d < c
                   PROVE  Cardinality(StepsAt(steps, d)) = Widths[d]
        BY <1>9
      <4>1. CASE d = t.check
        <5>1. Cardinality(StepsAt(steps, d)) + t.left = Widths[d]
          BY <4>1 DEF Follows
        <5> QED BY <5>1, StepsAreFew
      <4>2. CASE d # t.check
        <5>1. d < t.check
          BY <1>1, <3>2, <4>2, WidthsType
        <5> QED BY <5>1 DEF Follows
      <4> QED BY <4>1, <4>2
    <3>13. Follows(u, run, told)
      BY <3>6, <3>7, <3>9, <3>10, <3>11, <3>12 DEF Follows
    <3> QED BY <3>5, <3>13
  <2> QED BY <2>1, <2>2
<1> QED BY <1>2, <1>6, <1>7, <1>8, <1>12

(* A task that gives way to a later form of itself, or is gone.            *)
LEMMA TaskGoesOn ==
  ASSUME Diagnosed, NEW t \in probes.tasks, NEW U, probes' = [probes EXCEPT !.tasks = U],
         NEW u \in ProbeType, u.run = t.run, OnItsWay(u),
         U = probes.tasks \ {t} \/ U = (probes.tasks \ {t}) \cup {u},
         diag'.run = diag.run
  PROVE  /\ probes' \in ProbesType /\ probes'.tasks = U
         /\ \A v \in U : v.run \in 1..diag.run /\ OnItsWay(v)
         /\ \A v, w \in U : v.run = diag.run /\ w.run = diag.run => v = w
         /\ \A v \in U : v.run = diag.run /\ t.run = diag.run => v = u
         /\ \A v \in U : v.run = diag.run /\ t.run # diag.run => v \in probes.tasks
<1>1. probes \in ProbesType /\ probes.tasks \subseteq ProbeType
  BY DEF Diagnosed, ProbesType
<1>2. U \subseteq ProbeType
  BY <1>1
<1>3. probes' \in ProbesType /\ probes'.tasks = U
  BY <1>1, <1>2 DEF ProbesType
<1>4. \A v \in probes.tasks : v.run \in 1..diag.run /\ OnItsWay(v)
  BY DEF Diagnosed
<1>5. \A v, w \in probes.tasks : v.run = diag.run /\ w.run = diag.run => v = w
  BY DEF Diagnosed
<1>6. \A v \in U : v = u \/ (v \in probes.tasks /\ v # t)
  OBVIOUS
<1>7. \A v \in U : v.run \in 1..diag.run /\ OnItsWay(v)
  BY <1>4, <1>6
<1>8. \A v \in U : v.run = diag.run /\ t.run = diag.run => v = u
  BY <1>5, <1>6
<1>9. \A v \in U : v.run = diag.run /\ t.run # diag.run => v \in probes.tasks
  BY <1>6
<1>10. \A v, w \in U : v.run = diag.run /\ w.run = diag.run => v = w
  BY <1>5, <1>8, <1>9
<1> QED BY <1>3, <1>7, <1>8, <1>9, <1>10

(* A task that was superseded changes nothing of what is shown.            *)
LEMMA Superseded ==
  ASSUME Diagnosed, NEW t \in probes.tasks, NEW U, probes' = [probes EXCEPT !.tasks = U],
         NEW u \in ProbeType, u.run = t.run, OnItsWay(u),
         U = probes.tasks \ {t} \/ U = (probes.tasks \ {t}) \cup {u},
         diag' = diag, t.run # diag.run
  PROVE  Diagnosed'
<1>1. /\ probes' \in ProbesType /\ probes'.tasks = U
      /\ \A v \in U : v.run \in 1..diag.run /\ OnItsWay(v)
      /\ \A v, w \in U : v.run = diag.run /\ w.run = diag.run => v = w
      /\ \A v \in U : v.run = diag.run => v \in probes.tasks
  BY TaskGoesOn
<1>2. (\E v \in probes.tasks : v.run = diag.run) => \E v \in U : v.run = diag.run
  OBVIOUS
<1>3. \A v \in U : v.run = diag.run => Follows(v, diag.run, diag.steps)
  BY <1>1 DEF Diagnosed
<1>4. diag.finished => \A v \in U : v.run # diag.run
  BY <1>1 DEF Diagnosed
<1> QED BY <1>1, <1>2, <1>3, <1>4 DEF Diagnosed

LEMMA StartedFollows ==
  ASSUME NEW t \in ProbeType, t.check = 1, t.left = StepsOf[1], t.shown = << >>, NEW run
  PROVE  OnItsWay(t) /\ Follows(t, run, << >>)
<1>1. OnItsWay(t)
  BY WidthsType DEF OnItsWay
<1>2. \A c : StepsAt(<< >>, c) = {}
  BY DEF StepsAt
<1>3. \A c \in DOMAIN Widths : ~(c < 1)
  BY WidthsType
<1>4. 1 \in DOMAIN Widths => Cardinality(StepsAt(<< >>, 1)) + t.left = Widths[1]
  <2> SUFFICES ASSUME 1 \in DOMAIN Widths PROVE 0 + StepsOf[1] = Widths[1]
    BY <1>2, FS_EmptySet
  <2> QED BY WidthsType
<1> QED BY <1>1, <1>2, <1>3, <1>4 DEF Follows

LEMMA DiagnosticStarts == ASSUME Diagnosed, ProbeStarts PROVE Diagnosed'
<1>1. /\ diag \in DiagType /\ probes \in ProbesType /\ diag.run \in Nat /\ probes.due \in Nat
      /\ probes.tasks \subseteq ProbeType /\ probes.due > 0
  BY DEF Diagnosed, DiagType, ProbesType, ProbeStarts
<1>2. PICK run \in Nat : run = diag.run + 1
  BY <1>1
<1>3. PICK t : t = [run |-> run, check |-> 1, left |-> StepsOf[1], shown |-> << >>]
  OBVIOUS
<1>4. /\ diag' = [run |-> run, running |-> TRUE, finished |-> FALSE, steps |-> << >>]
      /\ probes' = [due |-> probes.due - 1, tasks |-> probes.tasks \cup {t}]
  BY <1>2, <1>3 DEF ProbeStarts, Probes
<1>5. t \in ProbeType /\ t.run = run /\ t.check = 1 /\ t.left = StepsOf[1] /\ t.shown = << >>
  <2>1. StepsOf[1] \in Nat
    BY WidthsType
  <2>2. << >> \in Seq(Nat)
    OBVIOUS
  <2> QED BY <1>2, <1>3, <2>1, <2>2 DEF ProbeType
<1>6. OnItsWay(t) /\ Follows(t, run, << >>)
  BY <1>5, StartedFollows
<1>7. /\ diag' \in DiagType /\ diag'.run = run /\ diag'.steps = << >> /\ ~diag'.finished
  <2>1. << >> \in Seq(StepType)
    OBVIOUS
  <2> QED BY <1>2, <1>4, <2>1 DEF DiagType
<1>8. probes' \in ProbesType /\ probes'.tasks = probes.tasks \cup {t}
  BY <1>1, <1>4, <1>5 DEF ProbesType
<1>9. \A v \in probes.tasks : v.run \in 1..diag.run /\ OnItsWay(v)
  BY DEF Diagnosed
<1>10. \A v \in probes'.tasks :
         /\ v.run \in 1..run /\ OnItsWay(v)
         /\ v.run = run => v = t
  BY <1>1, <1>2, <1>5, <1>6, <1>8, <1>9
<1>11. \A i, j \in DOMAIN diag'.steps : FALSE
  BY <1>7
<1>12. /\ \A i \in DOMAIN diag'.steps :
            diag'.steps[i].run = diag'.run /\ diag'.steps[i].by \in {0, diag'.run}
       /\ \A i, j \in DOMAIN diag'.steps : i < j => diag'.steps[i].check <= diag'.steps[j].check
  BY <1>11
<1>13. /\ \A v \in probes'.tasks : v.run \in 1..diag'.run /\ OnItsWay(v)
       /\ \A v, w \in probes'.tasks : v.run = diag'.run /\ w.run = diag'.run => v = w
       /\ \A v \in probes'.tasks : v.run = diag'.run => Follows(v, diag'.run, diag'.steps)
  <2>1. \A v \in probes'.tasks : v.run \in 1..diag'.run /\ OnItsWay(v)
    BY <1>7, <1>10
  <2>2. \A v, w \in probes'.tasks : v.run = diag'.run /\ w.run = diag'.run => v = w
    BY <1>7, <1>10
  <2>3. \A v \in probes'.tasks : v.run = diag'.run => Follows(v, diag'.run, diag'.steps)
    BY <1>6, <1>7, <1>10
  <2> QED BY <2>1, <2>2, <2>3
<1>14. \E v \in probes'.tasks : v.run = diag'.run
  BY <1>5, <1>7, <1>8
<1> QED BY <1>7, <1>8, <1>12, <1>13, <1>14 DEF Diagnosed

LEMMA DiagnosticPushes == ASSUME Diagnosed, NEW t \in probes.tasks, PushStep(t) PROVE Diagnosed'
<1>1. /\ diag \in DiagType /\ probes \in ProbesType /\ diag.run \in Nat
      /\ probes.tasks \subseteq ProbeType /\ diag.steps \in Seq(StepType) /\ Len(diag.steps) \in Nat
  BY DEF Diagnosed, DiagType, ProbesType
<1>2. /\ t \in ProbeType /\ t.run \in Nat /\ t.check \in Nat /\ t.left \in Nat /\ t.left > 0
      /\ t.shown \in Seq(Nat) /\ OnItsWay(t)
  BY <1>1 DEF ProbeType, PushStep, Diagnosed
<1>3. CASE diag.run # t.run
  <2>1. diag' = diag /\ probes' = [probes EXCEPT !.tasks = probes.tasks \ {t}]
    BY <1>1, <1>3 DEF PushStep, Probes, ProbesType
  <2> QED BY <1>2, <1>3, <2>1, Superseded
<1>4. CASE diag.run = t.run
  <2>1. PICK s : s = [run |-> t.run, check |-> t.check, by |-> 0]
    OBVIOUS
  <2>2. s \in StepType /\ s.run = diag.run /\ s.check = t.check /\ s.by = 0
    BY <1>2, <1>4, <2>1 DEF StepType
  <2>3. PICK q : q = Append(t.shown, Len(diag.steps) + 1)
    OBVIOUS
  <2>4. PICK l \in Nat : l = t.left - 1
    BY <1>2
  <2>5. PICK u : u = [t EXCEPT !.left = l, !.shown = q]
    OBVIOUS
  <2>6. q \in Seq(Nat)
    BY <1>1, <1>2, <2>3
  <2>7. u \in ProbeType /\ u.run = t.run /\ u.check = t.check /\ u.left = l /\ u.shown = q
    BY <1>2, <2>4, <2>5, <2>6 DEF ProbeType
  <2>8. PICK next : next = Append(diag.steps, s)
    OBVIOUS
  <2>9. PICK U : U = (probes.tasks \ {t}) \cup {u}
    OBVIOUS
  <2>10. diag' = [diag EXCEPT !.steps = next] /\ probes' = [probes EXCEPT !.tasks = U]
    BY <1>1, <1>2, <1>4, <2>1, <2>3, <2>4, <2>5, <2>8, <2>9 DEF PushStep, Probes, GoesOn, DiagType, ProbesType,
       ProbeType
  <2>11. Follows(t, diag.run, diag.steps)
    BY <1>4 DEF Diagnosed
  <2>12. OnItsWay(u) /\ Follows(u, diag.run, next)
    BY <1>1, <1>2, <2>2, <2>3, <2>4, <2>7, <2>8, <2>11, PushedFollows
  <2>13. next \in Seq(StepType)
    BY <1>1, <2>2, <2>8
  <2>14. /\ diag' \in DiagType /\ diag'.run = diag.run /\ diag'.steps = next
         /\ diag'.finished = diag.finished
    BY <1>1, <2>10, <2>13 DEF DiagType
  <2>15. /\ probes' \in ProbesType /\ probes'.tasks = U
         /\ \A v \in U : v.run \in 1..diag.run /\ OnItsWay(v)
         /\ \A v, w \in U : v.run = diag.run /\ w.run = diag.run => v = w
         /\ \A v \in U : v.run = diag.run => v = u
    <3>1. /\ probes' \in ProbesType /\ probes'.tasks = U
          /\ \A v \in U : v.run \in 1..diag.run /\ OnItsWay(v)
          /\ \A v, w \in U : v.run = diag.run /\ w.run = diag.run => v = w
          /\ \A v \in U : v.run = diag.run /\ t.run = diag.run => v = u
          /\ \A v \in U : v.run = diag.run /\ t.run # diag.run => v \in probes.tasks
      <4>1. probes' = [probes EXCEPT !.tasks = U]
        BY <2>10
      <4>2. u.run = t.run /\ OnItsWay(u) /\ diag'.run = diag.run /\ u \in ProbeType
        BY <2>7, <2>12, <2>14
      <4>3. U = probes.tasks \ {t} \/ U = (probes.tasks \ {t}) \cup {u}
        BY <2>9
      <4> QED BY <4>1, <4>2, <4>3, TaskGoesOn
    <3> QED BY <1>4, <3>1
  <2>16. ~diag.finished
    BY <1>4 DEF Diagnosed
  <2>17. PICK m \in Nat : m = Len(diag.steps)
    BY <1>1
  <2>18. /\ DOMAIN diag.steps = 1..m /\ DOMAIN next = 1..(m + 1)
         /\ \A i \in 1..m : next[i] = diag.steps[i]
         /\ next[m + 1] = s
    BY <1>1, <2>8, <2>17
  <2>19. /\ \A i \in DOMAIN diag.steps :
              diag.steps[i].run = diag.run /\ diag.steps[i].by \in {0, diag.run}
         /\ \A i, j \in DOMAIN diag.steps : i < j => diag.steps[i].check <= diag.steps[j].check
    BY DEF Diagnosed
  <2>20. \A i \in DOMAIN next : next[i].run = diag.run /\ next[i].by \in {0, diag.run}
    <3> SUFFICES ASSUME NEW i \in 1..(m + 1)
                 PROVE  next[i].run = diag.run /\ next[i].by \in {0, diag.run}
      BY <2>18
    <3>1. i \in 1..m \/ i = m + 1
      BY <2>17
    <3> QED BY <2>2, <2>18, <2>19, <3>1
  <2>21. \A i \in 1..m : diag.steps[i].check <= t.check
    BY <2>11, <2>17 DEF Follows
  <2>22. \A i, j \in DOMAIN next : i < j => next[i].check <= next[j].check
    <3> SUFFICES ASSUME NEW i \in 1..(m + 1), NEW j \in 1..(m + 1), i < j
                 PROVE  next[i].check <= next[j].check
      BY <2>18
    <3>1. i \in 1..m /\ (j \in 1..m \/ j = m + 1)
      BY <2>17
    <3> QED BY <2>2, <2>18, <2>19, <2>21, <3>1
  <2>23. u \in U /\ u.run = diag.run
    BY <1>4, <2>7, <2>9
  <2> QED BY <2>12, <2>14, <2>15, <2>16, <2>20, <2>22, <2>23 DEF Diagnosed
<1> QED BY <1>3, <1>4

LEMMA DiagnosticTells == ASSUME Diagnosed, NEW t \in probes.tasks, FinishStep(t) PROVE Diagnosed'
<1>1. /\ diag \in DiagType /\ probes \in ProbesType /\ diag.run \in Nat
      /\ probes.tasks \subseteq ProbeType /\ diag.steps \in Seq(StepType) /\ Len(diag.steps) \in Nat
  BY DEF Diagnosed, DiagType, ProbesType
<1>2. t \in ProbeType /\ t.left = 0 /\ t.shown # << >> /\ OnItsWay(t)
  BY <1>1 DEF FinishStep, Diagnosed
<1>3. PICK u : u = Told(t)
  OBVIOUS
<1>4. u \in ProbeType /\ u.run = t.run /\ OnItsWay(u)
  BY <1>2, <1>3, ToldOnItsWay
<1>5. PICK U : U = (probes.tasks \ {t}) \cup {u}
  OBVIOUS
<1>6. probes' = [probes EXCEPT !.tasks = U]
  BY <1>1, <1>3, <1>5 DEF FinishStep, Probes, GoesOn, ProbesType
<1>7. CASE diag.run # t.run
  <2>1. diag' = diag
    BY <1>7 DEF FinishStep, Probes
  <2> QED BY <1>4, <1>5, <1>6, <1>7, <2>1, Superseded
<1>8. CASE diag.run = t.run
  <2>1. PICK k : k = Head(t.shown)
    OBVIOUS
  <2>2. PICK told : told = WithBy(diag.steps, k, diag.run)
    OBVIOUS
  <2>3. diag' = [diag EXCEPT !.steps = told]
    BY <1>1, <1>8, <2>1, <2>2 DEF FinishStep, Probes, WithBy, DiagType
  <2>4. Follows(t, diag.run, diag.steps)
    BY <1>8 DEF Diagnosed
  <2>5. k \in 1..Len(diag.steps) /\ Follows(u, diag.run, told)
    BY <1>1, <1>2, <1>3, <2>1, <2>2, <2>4, ToldFollows
  <2>6. /\ told \in Seq(StepType) /\ Len(told) = Len(diag.steps)
        /\ \A i \in 1..Len(diag.steps) :
              /\ told[i].run = diag.steps[i].run
              /\ told[i].check = diag.steps[i].check
              /\ told[i].by = IF i = k THEN diag.run ELSE diag.steps[i].by
    BY <1>1, <2>2, <2>5, StepToldOf
  <2>7. /\ diag' \in DiagType /\ diag'.run = diag.run /\ diag'.steps = told
        /\ diag'.finished = diag.finished
    BY <1>1, <2>3, <2>6 DEF DiagType
  <2>8. /\ probes' \in ProbesType /\ probes'.tasks = U
        /\ \A v \in U : v.run \in 1..diag.run /\ OnItsWay(v)
        /\ \A v, w \in U : v.run = diag.run /\ w.run = diag.run => v = w
        /\ \A v \in U : v.run = diag.run => v = u
    <3>1. /\ probes' \in ProbesType /\ probes'.tasks = U
          /\ \A v \in U : v.run \in 1..diag.run /\ OnItsWay(v)
          /\ \A v, w \in U : v.run = diag.run /\ w.run = diag.run => v = w
          /\ \A v \in U : v.run = diag.run /\ t.run = diag.run => v = u
          /\ \A v \in U : v.run = diag.run /\ t.run # diag.run => v \in probes.tasks
      <4>1. U = probes.tasks \ {t} \/ U = (probes.tasks \ {t}) \cup {u}
        BY <1>5
      <4>2. diag'.run = diag.run
        BY <2>7
      <4> QED BY <1>4, <1>6, <4>1, <4>2, TaskGoesOn
    <3> QED BY <1>8, <3>1
  <2>9. ~diag.finished
    BY <1>8 DEF Diagnosed
  <2>10. DOMAIN diag.steps = 1..Len(diag.steps) /\ DOMAIN told = 1..Len(diag.steps)
    BY <1>1, <2>6
  <2>11. /\ \A i \in DOMAIN diag.steps :
              diag.steps[i].run = diag.run /\ diag.steps[i].by \in {0, diag.run}
         /\ \A i, j \in DOMAIN diag.steps : i < j => diag.steps[i].check <= diag.steps[j].check
    BY DEF Diagnosed
  <2>12. \A i \in DOMAIN told : told[i].run = diag.run /\ told[i].by \in {0, diag.run}
    BY <2>6, <2>10, <2>11
  <2>13. \A i, j \in DOMAIN told : i < j => told[i].check <= told[j].check
    BY <2>6, <2>10, <2>11
  <2>14. u \in U /\ u.run = diag.run
    BY <1>4, <1>5, <1>8
  <2> QED BY <2>5, <2>7, <2>8, <2>9, <2>12, <2>13, <2>14 DEF Diagnosed
<1> QED BY <1>7, <1>8

(* Complete: no step of it is yet to be told of.                           *)
LEMMA FollowedToTheEnd ==
  ASSUME NEW t \in ProbeType, OnItsWay(t), t.check > Len(Widths),
         NEW steps \in Seq(StepType), NEW run, Follows(t, run, steps)
  PROVE  /\ \A i \in DOMAIN steps : steps[i].by = run
         /\ \A c \in DOMAIN Widths : Cardinality(StepsAt(steps, c)) = Widths[c]
<1>1. t.check = Len(Widths) + 1 /\ t.shown = << >>
  BY WidthsType DEF OnItsWay, ProbeType
<1>2. /\ Len(t.shown) = 0 /\ Len(steps) \in Nat /\ DOMAIN steps = 1..Len(steps)
  BY <1>1
<1>3. \A i \in 1..Len(steps) : i <= Len(steps) - Len(t.shown)
  BY <1>2
<1>4. \A c \in DOMAIN Widths : c < t.check
  BY <1>1, WidthsType
<1> QED BY <1>2, <1>3, <1>4 DEF Follows

LEMMA DiagnosticEnds == ASSUME Diagnosed, NEW t \in probes.tasks, ProbeEnds(t) PROVE Diagnosed'
<1>1. /\ diag \in DiagType /\ probes \in ProbesType /\ diag.run \in Nat
      /\ probes.tasks \subseteq ProbeType /\ diag.steps \in Seq(StepType)
  BY DEF Diagnosed, DiagType, ProbesType
<1>2. t \in ProbeType /\ t.check > Len(Widths) /\ OnItsWay(t)
  BY <1>1 DEF ProbeEnds, Diagnosed
<1>3. PICK U : U = probes.tasks \ {t}
  OBVIOUS
<1>4. probes' = [probes EXCEPT !.tasks = U]
  BY <1>1, <1>3 DEF ProbeEnds, Probes, ProbesType
<1>5. CASE diag.run # t.run
  <2>1. diag' = diag
    BY <1>5 DEF ProbeEnds, Probes
  <2> QED BY <1>2, <1>3, <1>4, <1>5, <2>1, Superseded
<1>6. CASE diag.run = t.run
  <2>1. diag' = [diag EXCEPT !.running = FALSE, !.finished = TRUE]
    BY <1>6 DEF ProbeEnds, Probes
  <2>2. /\ diag' \in DiagType /\ diag'.run = diag.run /\ diag'.steps = diag.steps
        /\ ~diag'.running
    BY <1>1, <2>1 DEF DiagType
  <2>3. Follows(t, diag.run, diag.steps)
    BY <1>6 DEF Diagnosed
  <2>4. /\ \A i \in DOMAIN diag.steps : diag.steps[i].by = diag.run
        /\ \A c \in DOMAIN Widths : Cardinality(StepsAt(diag.steps, c)) = Widths[c]
    BY <1>1, <1>2, <2>3, FollowedToTheEnd
  <2>5. /\ probes' \in ProbesType /\ probes'.tasks = U
    BY <1>1, <1>3, <1>4 DEF ProbesType
  <2>6. /\ \A v \in U : v.run \in 1..diag.run /\ OnItsWay(v)
        /\ \A v \in U : v.run # diag.run
    BY <1>3, <1>6 DEF Diagnosed
  <2>7. /\ \A i \in DOMAIN diag.steps :
              diag.steps[i].run = diag.run /\ diag.steps[i].by \in {0, diag.run}
        /\ \A i, j \in DOMAIN diag.steps : i < j => diag.steps[i].check <= diag.steps[j].check
    BY DEF Diagnosed
  <2> QED BY <2>2, <2>4, <2>5, <2>6, <2>7 DEF Diagnosed
<1> QED BY <1>5, <1>6

LEMMA AnalysisDiagnoses ==
  ASSUME AnalysisInv,
         ProbeStarts \/ \E t \in probes.tasks : PushStep(t) \/ FinishStep(t) \/ ProbeEnds(t)
  PROVE  AnalysisInv'
<1>1. UNCHANGED <<page, answer, queries, lost, usage, readings, extract, jobs, questions, report>>
  BY DEF ProbeStarts, PushStep, FinishStep, ProbeEnds, Probes
<1>2. Diagnosed'
  BY DiagnosticStarts, DiagnosticPushes, DiagnosticTells, DiagnosticEnds DEF AnalysisInv
<1>3. Pages' /\ Asked'
  BY <1>1 DEF AnalysisInv, Pages, Asked
<1> QED BY <1>1, <1>2, <1>3, SameUsage, SameExtract, SameReport DEF AnalysisInv

-----------------------------------------------------------------------------
LEMMA AnalysisStarts == AnalysisInit => AnalysisInv
<1> SUFFICES ASSUME AnalysisInit PROVE AnalysisInv
  OBVIOUS
<1>1. Pages
  BY DEF AnalysisInit, Pages, PageType, Topics
<1>2. Asked
  <2>1. questions = << >> /\ questions \in Seq(Topics) /\ Len(questions) = 0 /\ MaxTasks \in Nat
    BY AnalysisAssumption DEF AnalysisInit
  <2>2. answer \in AnswerType /\ ~(answer.text > 0) /\ ~answer.loading
    BY DEF AnalysisInit, AnswerType, NoKey
  <2>3. queries = {} /\ page.mode # "ai"
    BY DEF AnalysisInit
  <2> QED BY <2>1, <2>2, <2>3 DEF Asked
<1>3. UsageKept
  BY DEF AnalysisInit, UsageKept, UsageType, ReadingsType
<1>4. Diagnosed
  <2>1. << >> \in Seq(StepType)
    OBVIOUS
  <2>2. diag \in DiagType /\ diag.steps = << >> /\ ~diag.running /\ ~diag.finished
    BY <2>1 DEF AnalysisInit, DiagType
  <2>3. probes \in ProbesType /\ probes.tasks = {}
    BY DEF AnalysisInit, ProbesType
  <2> QED BY <2>2, <2>3 DEF Diagnosed
<1>5. Extracted
  BY DEF AnalysisInit, Extracted, ExtractType, JobsType
<1>6. Reported
  BY DEF AnalysisInit, Reported
<1> QED BY <1>1, <1>2, <1>3, <1>4, <1>5, <1>6 DEF AnalysisInv

LEMMA AnalysisGoesOn == ASSUME AnalysisInv, [AnalysisNext]_analysisVars PROVE AnalysisInv'
<1>1. CASE UNCHANGED analysisVars
  BY <1>1, SameUsage, SameDiag, SameExtract, SameReport
     DEF analysisVars, AnalysisInv, Pages, Asked
<1>2. CASE OpenNodes \/ LeaveNodes \/ ExitNodeUsage \/ ExitDiagnostic \/ ExitExtract \/ ExitAiPanel
             \/ \E h \in Hosts : SelectedNode(h)
  BY <1>2, AnalysisMoves
<1>3. CASE EnterNodeUsage \/ RefreshNodeUsage
  BY <1>3, AnalysisReadsUsage
<1>4. CASE EnterDiagnostic \/ RefreshDiagnostic
  BY <1>4, AnalysisRunsDiagnostic
<1>5. CASE \E configured \in BOOLEAN : EnterExtract(configured) \/ EnterAiPanel(configured)
  BY <1>5, AnalysisEnterExtract, AnalysisEnterAi
<1>6. CASE ExportDiagnosticPdf \/ ExportNodeUsagePdf
  BY <1>6, AnalysisExports
<1>7. CASE \/ \E h \in Hosts : ReadingStarts(h)
           \/ \E h \in Hosts, found \in BOOLEAN : ReadingEnds(h, found)
  BY <1>7, AnalysisReads
<1>8. CASE \E q \in queries :
             Gathered(q) \/ GatherPanics(q) \/ Streamed(q) \/ StreamEnds(q) \/ StreamFails(q)
  BY <1>8, AnalysisAnswers
<1>9. CASE ProbeStarts \/ \E t \in probes.tasks : PushStep(t) \/ FinishStep(t) \/ ProbeEnds(t)
  BY <1>9, AnalysisDiagnoses
<1>10. CASE \/ JobStarts
            \/ \E j \in jobs.tasks : JobTells(j) \/ \E written \in BOOLEAN : JobEnds(j, written)
  BY <1>10, AnalysisExtracts
<1> QED
  BY <1>1, <1>2, <1>3, <1>4, <1>5, <1>6, <1>7, <1>8, <1>9, <1>10 DEF AnalysisNext

LEMMA AnalysisMeans == AnalysisInv => AnswersAreOwn
<1> SUFFICES ASSUME AnalysisInv PROVE AnswersAreOwn
  OBVIOUS
<1>1. AnswerIsTheLastAsked
  BY DEF AnalysisInv, Asked, AnswerIsTheLastAsked
<1>2. UsageIsOfTheNode
  BY DEF AnalysisInv, UsageKept, UsageIsOfTheNode
<1>3. OneDiagnostic
  <2>1. ASSUME diag.finished, NEW c \in DOMAIN Widths
        PROVE  Cardinality({i \in DOMAIN diag.steps :
                              diag.steps[i].check = c /\ diag.steps[i].by = diag.run}) = Widths[c]
    <3>1. {i \in DOMAIN diag.steps : diag.steps[i].check = c /\ diag.steps[i].by = diag.run}
            = StepsAt(diag.steps, c)
      BY <2>1 DEF AnalysisInv, Diagnosed, StepsAt
    <3> QED BY <2>1, <3>1 DEF AnalysisInv, Diagnosed
  <2> QED BY <2>1 DEF AnalysisInv, Diagnosed, OneDiagnostic
<1>4. OneExtraction
  BY DEF AnalysisInv, Extracted, OneExtraction
<1>5. ReportsMatch
  BY DEF AnalysisInv, Reported, ReportsMatch
<1> QED BY <1>1, <1>2, <1>3, <1>4, <1>5 DEF AnswersAreOwn

(* What asking again leaves behind never shows as what was asked last: the  *)
(* assistant, the usage of a node, the diagnostic and the extraction show   *)
(* one task's findings, the last one's, and say they are working only while *)
(* it is (src/ai.rs, src/diagnostic.rs, src/extract.rs, src/events.rs).    *)
THEOREM AnswersAreTheLast == AnalysisSpec => []AnswersAreOwn
<1>1. AnalysisInv /\ [AnalysisNext]_analysisVars => AnalysisInv'
  BY AnalysisGoesOn
<1> QED BY <1>1, AnalysisStarts, AnalysisMeans, PTL DEF AnalysisSpec

-----------------------------------------------------------------------------
(***************************************************************************)
(* The copies: what is said of the backups of Velero and of the captures   *)
(* of Medusa.                                                              *)
(***************************************************************************)

(* Some natural numbers have a least one among them, and if they are        *)
(* finitely many a greatest one.                                           *)
LEMMA LeastOf ==
  ASSUME NEW T \in SUBSET Nat, T # {}
  PROVE  \E n \in T : \A m \in T : n <= m
<1> DEFINE I == {0..n : n \in T}
<1>1. I \subseteq FiniteSubsetsOf(Nat) /\ I # {}
  <2>1. \A n \in T : IsFiniteSet(0..n) /\ 0..n \subseteq Nat
    BY FS_Interval
  <2>2. I # {}
    OBVIOUS
  <2>3. \A A \in I : A \subseteq Nat /\ IsFiniteSet(A)
    BY <2>1
  <2> HIDE DEF I
  <2> QED BY <2>2, <2>3 DEF FiniteSubsetsOf
<1>2. IsWellFoundedOn(StrictSubsetOrdering(Nat), FiniteSubsetsOf(Nat))
  BY FS_StrictSubsetOrderingWellFounded
<1>3. PICK A \in I : \A B \in I : ~(<<B, A>> \in StrictSubsetOrdering(Nat))
  <2> HIDE DEF I
  <2> QED BY <1>1, <1>2, WFMin
<1>4. PICK n \in T : A = 0..n
  BY <1>3
<1>5. ASSUME NEW m \in T, m < n PROVE FALSE
  <2>1. 0..m \in I /\ 0..m \subseteq A /\ 0..m # A
    BY <1>4, <1>5
  <2>2. <<0..m, A>> \in StrictSubsetOrdering(Nat)
    BY <1>4, <2>1 DEF StrictSubsetOrdering
  <2> QED BY <1>3, <2>1, <2>2
<1> QED BY <1>4, <1>5

LEMMA GreatestOf ==
  ASSUME NEW T \in SUBSET Nat, IsFiniteSet(T), T # {}
  PROVE  \E n \in T : \A m \in T : m <= n
<1> DEFINE I == {{m \in T : m > n} : n \in T}
<1>1. I \subseteq FiniteSubsetsOf(T) /\ I # {}
  <2>1. \A n \in T : IsFiniteSet({m \in T : m > n})
    BY FS_Subset
  <2>2. I # {} /\ \A A \in I : A \subseteq T /\ IsFiniteSet(A)
    BY <2>1
  <2> HIDE DEF I
  <2> QED BY <2>2 DEF FiniteSubsetsOf
<1>2. IsWellFoundedOn(StrictSubsetOrdering(T), FiniteSubsetsOf(T))
  BY FS_StrictSubsetOrderingWellFounded
<1>3. PICK A \in I : \A B \in I : ~(<<B, A>> \in StrictSubsetOrdering(T))
  <2> HIDE DEF I
  <2> QED BY <1>1, <1>2, WFMin
<1>4. PICK n \in T : A = {m \in T : m > n}
  BY <1>3
<1>5. ASSUME NEW k \in T, k > n PROVE FALSE
  <2> DEFINE B == {m \in T : m > k}
  <2>1. B \in I /\ A \subseteq T /\ B \subseteq T
    BY <1>4
  <2>2. B \subseteq A /\ k \in A /\ k \notin B
    <3>1. k \in Nat /\ n \in Nat /\ \A m \in T : m \in Nat
      OBVIOUS
    <3>2. \A m \in T : m > k => m > n
      BY <1>5, <3>1
    <3> HIDE DEF I
    <3>3. B \subseteq A
      BY <1>4, <3>2
    <3>4. k \in A
      BY <1>4, <1>5
    <3>5. ~(k > k)
      BY <3>1
    <3>6. k \notin B
      BY <3>5
    <3> QED BY <3>3, <3>4, <3>6
  <2>3. <<B, A>> \in StrictSubsetOrdering(T)
    <3> HIDE DEF B
    <3> QED BY <2>1, <2>2 DEF StrictSubsetOrdering
  <2> QED BY <1>3, <2>1, <2>3
<1> QED BY <1>4, <1>5

LEMMA MaxOf ==
  ASSUME NEW T \in SUBSET Nat, IsFiniteSet(T), T # {}
  PROVE  Max(T) \in T /\ \A m \in T : m <= Max(T)
<1>1. PICK n \in T : \A m \in T : n >= m
  BY GreatestOf
<1> QED BY <1>1 DEF Max

(* What a function makes of a finite set is finite. *)
LEMMA ImageIsFinite ==
  ASSUME NEW f, IsFiniteSet(DOMAIN f), f = [x \in DOMAIN f |-> f[x]]
  PROVE  IsFiniteSet({f[x] : x \in DOMAIN f})
<1>1. f \in Surjection(DOMAIN f, {f[x] : x \in DOMAIN f})
  BY DEF Surjection
<1> QED BY <1>1, FS_Surjection

-----------------------------------------------------------------------------
(* Captures of a datacenter.  A run that is complete has all the nodes.    *)
LEMMA SaidIs == ASSUME NEW c, NEW f PROVE (c => Said(c, f) = {f}) /\ (~c => Said(c, f) = {})
BY DEF Said

LEMMA ExpectedIs ==
  ASSUME GoodMedusa(cluster.inv), NEW d \in cluster.inv.dcs
  PROVE  \E n \in Nat : /\ Expected(cluster.inv.dcs, d.name) = {n}
                        /\ n >= d.size /\ n >= Cardinality(d.joined) /\ n \in {d.size, Cardinality(d.joined)}
<1>1. d.size \in Nat /\ Cardinality(d.joined) \in Nat
  BY FS_CardinalityType DEF GoodMedusa
<1>2. PICK n \in Nat : n = Max({d.size, Cardinality(d.joined)})
                       /\ n >= d.size /\ n >= Cardinality(d.joined) /\ n \in {d.size, Cardinality(d.joined)}
  <2>1. PICK T \in SUBSET Nat : T = {d.size, Cardinality(d.joined)}
    BY <1>1
  <2>2. \E n \in T : \A m \in T : n >= m
    BY <1>1, <2>1
  <2>3. Max(T) \in T /\ \A m \in T : Max(T) >= m
    BY <2>2 DEF Max
  <2> QED BY <1>1, <2>1, <2>3
<1>3. {e \in cluster.inv.dcs : e.name = d.name} = {d}
  BY DEF GoodMedusa
<1>4. Expected(cluster.inv.dcs, d.name) = {Max({e.size, Cardinality(e.joined)}) : e \in {d}}
  BY <1>3 DEF Expected
<1>5. Expected(cluster.inv.dcs, d.name) = {n}
  BY <1>2, <1>4
<1> QED BY <1>2, <1>5

LEMMA Unknown ==
  ASSUME NEW j, ~IsKnown(j)
  PROVE  Expected(cluster.inv.dcs, j.datacenter) = {}
BY DEF IsKnown, Expected

(* Two sets of nodes of which one is part of the other: the one that is no  *)
(* smaller has all of the other.                                           *)
LEMMA NoSmaller ==
  ASSUME NEW A, NEW B, IsFiniteSet(A), IsFiniteSet(B), A \subseteq B \/ B \subseteq A,
         Cardinality(B) >= Cardinality(A)
  PROVE  A \subseteq B
<1>1. Cardinality(A) \in Nat /\ Cardinality(B) \in Nat
  BY FS_CardinalityType
<1>2. CASE B \subseteq A
  <2>1. Cardinality(B) <= Cardinality(A) /\ (Cardinality(B) = Cardinality(A) => A = B)
    BY <1>2, FS_Subset
  <2> QED BY <1>1, <2>1
<1> QED BY <1>2

LEMMA CompleteIs ==
  ASSUME GoodMedusa(cluster.inv), NEW j \in cluster.inv.jobs
  PROVE  /\ TRUE \in Complete(j, cluster.inv.dcs) => ~Going(j) /\ HasItAll(j)
         /\ \A x \in Complete(j, cluster.inv.dcs) : Complete(j, cluster.inv.dcs) = {x} /\ x \in {TRUE, FALSE}
         /\ Complete(j, cluster.inv.dcs) = {} => ~IsKnown(j)
         /\ IsKnown(j) /\ j.failed = {} /\ ~Going(j) /\ ~HasItAll(j) => Complete(j, cluster.inv.dcs) = {FALSE}
<1>1. CASE j.failed # {} \/ Going(j)
  <2>1. Complete(j, cluster.inv.dcs) = {FALSE}
    BY <1>1 DEF Complete
  <2> QED BY <1>1, <2>1
<1>2. CASE j.failed = {} /\ ~Going(j) /\ ~IsKnown(j)
  <2>1. Complete(j, cluster.inv.dcs) = {}
    BY <1>2, Unknown DEF Complete
  <2> QED BY <1>2, <2>1
<1>3. CASE j.failed = {} /\ ~Going(j) /\ IsKnown(j)
  <2>1. PICK d \in cluster.inv.dcs : d.name = j.datacenter
    BY <1>3 DEF IsKnown
  <2>2. PICK n \in Nat : /\ Expected(cluster.inv.dcs, j.datacenter) = {n}
                         /\ n >= d.size /\ n >= Cardinality(d.joined)
                         /\ n \in {d.size, Cardinality(d.joined)}
    BY <2>1, ExpectedIs
  <2>3. PICK whole \in BOOLEAN : whole = (n > 0 /\ Cardinality(j.finished) >= n)
    OBVIOUS
  <2>4. Complete(j, cluster.inv.dcs) = {whole}
    BY <1>3, <2>2, <2>3 DEF Complete
  <2>5. IsFiniteSet(j.finished) /\ IsFiniteSet(d.joined) /\ d.size \in Nat
        /\ (d.joined \subseteq j.finished \/ j.finished \subseteq d.joined)
    BY <2>1 DEF GoodMedusa
  <2>6. Cardinality(j.finished) \in Nat /\ Cardinality(d.joined) \in Nat
    BY <2>5, FS_CardinalityType
  <2>7. whole => HasItAll(j)
    <3>1. SUFFICES ASSUME whole PROVE HasItAll(j)
      OBVIOUS
    <3>2. Cardinality(j.finished) >= d.size /\ Cardinality(j.finished) >= Cardinality(d.joined)
      <4>1. PICK a \in Nat, b \in Nat, c \in Nat :
                a = Cardinality(j.finished) /\ b = Cardinality(d.joined) /\ c = d.size
        BY <2>5, <2>6
      <4>2. a >= n /\ n >= b /\ n >= c
        BY <2>2, <2>3, <3>1, <4>1
      <4>3. a >= b /\ a >= c
        BY <4>2
      <4> QED BY <4>1, <4>3
    <3>3. d.joined \subseteq j.finished
      BY <2>5, <3>2, NoSmaller
    <3>4. j.inProgress = {}
      BY <1>3 DEF Going
    <3> QED BY <1>3, <2>1, <3>2, <3>3, <3>4 DEF HasItAll
  <2> QED BY <1>3, <2>4, <2>7
<1> QED BY <1>1, <1>2, <1>3

LEMMA OfferedWhole ==
  ASSUME GoodMedusa(cluster.inv), About("medusa"), reasons = CapturesOf(cluster)
  PROVE  /\ \A j \in reasons.offered : j \in cluster.inv.jobs /\ HasItAll(j) /\ ~Going(j)
         /\ \A b \in reasons.entries :
              \/ \E total \in b.total, done \in b.done : done >= total
              \/ \E j \in cluster.inv.jobs : j.name = b.name /\ HasItAll(j)
<1>1. reasons.offered = RestorableJobs(cluster.inv) /\ reasons.entries = RestorableBackups(cluster.inv)
  BY DEF CapturesOf
<1>2. ASSUME NEW j \in reasons.offered PROVE j \in cluster.inv.jobs /\ HasItAll(j) /\ ~Going(j)
  <2>1. j \in cluster.inv.jobs /\ Complete(j, cluster.inv.dcs) = {TRUE}
    BY <1>1, <1>2 DEF RestorableJobs
  <2>2. TRUE \in Complete(j, cluster.inv.dcs)
    BY <2>1
  <2> QED BY <2>1, <2>2, CompleteIs
<1>3. ASSUME NEW b \in reasons.entries
      PROVE  \/ \E total \in b.total, done \in b.done : done >= total
             \/ \E j \in cluster.inv.jobs : j.name = b.name /\ HasItAll(j)
  <2>1. BackupComplete(b, cluster.inv) = {TRUE}
    BY <1>1, <1>3 DEF RestorableBackups
  <2>2. CASE b.total \notin {{}, {0}} /\ b.done # {}
    <3>1. BackupComplete(b, cluster.inv) = {done >= total : done \in b.done, total \in b.total}
      BY <2>2 DEF BackupComplete
    <3>2. PICK total \in b.total, done \in b.done : TRUE
      BY <2>2
    <3>3. (done >= total) \in BackupComplete(b, cluster.inv)
      BY <3>1, <3>2
    <3>4. (done >= total) = TRUE
      BY <2>1, <3>3
    <3> QED BY <3>2, <3>4
  <2>3. CASE ~(b.total \notin {{}, {0}} /\ b.done # {})
    <3>1. BackupComplete(b, cluster.inv)
            = UNION {Complete(j, cluster.inv.dcs) : j \in {k \in cluster.inv.jobs : k.name = b.name}}
      BY <2>3 DEF BackupComplete
    <3>2. PICK x \in BackupComplete(b, cluster.inv) : x = TRUE
      BY <2>1
    <3>3. PICK j \in cluster.inv.jobs : j.name = b.name /\ TRUE \in Complete(j, cluster.inv.dcs)
      BY <3>1, <3>2
    <3> QED BY <3>3, CompleteIs
  <2> QED BY <2>2, <2>3
<1> QED BY <1>2, <1>3

LEMMA ShortSaid ==
  ASSUME GoodMedusa(cluster.inv), About("medusa"), reasons = CapturesOf(cluster)
  PROVE  ShortIsSaid
<1>1. ASSUME NEW j \in cluster.inv.jobs, IsKnown(j), ~HasItAll(j) PROVE reasons.jobs[j] # {}
  <2>1. reasons.jobs[j] = JobFindings(j, cluster.inv)
    BY DEF CapturesOf
  <2>2. CASE Going(j)
    BY <2>1, <2>2 DEF JobFindings
  <2>3. CASE ~Going(j) /\ j.failed # {}
    BY <2>1, <2>3 DEF JobFindings, Said
  <2>4. CASE ~Going(j) /\ j.failed = {}
    <3>1. Complete(j, cluster.inv.dcs) = {FALSE}
      BY <1>1, <2>4, CompleteIs
    <3>2. "Short" \in Said(Complete(j, cluster.inv.dcs) = {FALSE} /\ j.failed = {}, "Short")
      BY <2>4, <3>1 DEF Said
    <3> QED BY <2>1, <2>4, <3>2 DEF JobFindings
  <2> QED BY <2>2, <2>3, <2>4
<1>2. ASSUME NEW b \in cluster.inv.backups, reasons.catalogue[b] = {}
      PROVE  b.finish # {} /\ b \in reasons.entries
  <2>1. BackupFindings(b, cluster.inv) = {} /\ reasons.entries = RestorableBackups(cluster.inv)
    BY <1>2 DEF CapturesOf
  <2>2. b.finish # {} /\ BackupComplete(b, cluster.inv) # {FALSE} /\ BackupComplete(b, cluster.inv) # {}
    BY <2>1 DEF BackupFindings, Said
  <2>3. BackupComplete(b, cluster.inv) = {TRUE}
    <3>1. CASE b.total \notin {{}, {0}} /\ b.done # {}
      <4>1. BackupComplete(b, cluster.inv) = {done >= total : done \in b.done, total \in b.total}
        BY <3>1 DEF BackupComplete
      <4>2. PICK total \in b.total, done \in b.done : TRUE
        BY <3>1
      <4>3. b.total = {total} /\ b.done = {done}
        BY <4>2 DEF GoodMedusa, OneOrNone
      <4>4. BackupComplete(b, cluster.inv) = {done >= total}
        BY <4>1, <4>3
      <4>5. CASE done >= total
        BY <4>4, <4>5
      <4>6. CASE ~(done >= total)
        <5>1. total \in Nat /\ done \in Nat
          BY DEF GoodMedusa, OneOrNone
        <5>2. (done >= total) = FALSE
          BY <4>6, <5>1
        <5>3. BackupComplete(b, cluster.inv) = {FALSE}
          BY <4>4, <5>2
        <5> QED BY <2>2, <5>3
      <4> QED BY <4>5, <4>6
    <3>2. CASE ~(b.total \notin {{}, {0}} /\ b.done # {})
      <4>1. BackupComplete(b, cluster.inv)
              = UNION {Complete(j, cluster.inv.dcs) : j \in {k \in cluster.inv.jobs : k.name = b.name}}
        BY <3>2 DEF BackupComplete
      <4>2. PICK x \in BackupComplete(b, cluster.inv) : TRUE
        BY <2>2
      <4>3. PICK j \in cluster.inv.jobs : j.name = b.name /\ x \in Complete(j, cluster.inv.dcs)
        BY <4>1, <4>2
      <4>4. {k \in cluster.inv.jobs : k.name = b.name} = {j}
        BY <4>3 DEF GoodMedusa
      <4>5. BackupComplete(b, cluster.inv) = Complete(j, cluster.inv.dcs)
        BY <4>1, <4>4
      <4>6. Complete(j, cluster.inv.dcs) = {x} /\ x \in {TRUE, FALSE}
        BY <4>3, CompleteIs
      <4> QED BY <2>2, <4>5, <4>6
    <3> QED BY <3>1, <3>2
  <2> QED BY <2>1, <2>2, <2>3 DEF RestorableBackups
<1> QED BY <1>1, <1>2 DEF ShortIsSaid

LEMMA SilenceCaptured ==
  ASSUME GoodMedusa(cluster.inv), About("medusa"), reasons = CapturesOf(cluster)
  PROVE  SilenceMeansCaptured
<1>1. SUFFICES ASSUME NEW s \in cluster.inv.schedules, s.last # {}, reasons.schedules[s] = {}
      PROVE  \E j \in cluster.inv.jobs :
                    /\ RunOf(s.name, j.name, cluster.inv.digits)
                    /\ \A k \in cluster.inv.jobs :
                          RunOf(s.name, k.name, cluster.inv.digits) => k.created <= j.created
                    /\ Going(j) \/ HasItAll(j) \/ ~IsKnown(j)
  BY DEF SilenceMeansCaptured
<1> DEFINE theirs == RunsOf(s, cluster.inv)
<1>2. MedusaScheduleFindings(s, cluster.inv, cluster.now) = {}
  BY <1>1 DEF CapturesOf
<1>3. theirs # {} /\ Failures(theirs, cluster.inv) = {}
  BY <1>1, <1>2 DEF MedusaScheduleFindings, Said
<1>4. theirs = {j \in cluster.inv.jobs : RunOf(s.name, j.name, cluster.inv.digits)}
  BY DEF RunsOf
<1>5. PICK j \in theirs : \A k \in theirs : k.created <= j.created
  <2> DEFINE T == {k.created : k \in theirs}
  <2>1. IsFiniteSet(theirs)
    BY <1>4, FS_Subset DEF GoodMedusa
  <2>2. IsFiniteSet(T) /\ T \subseteq Nat /\ T # {}
    <3>1. PICK f : f = [k \in theirs |-> k.created]
      OBVIOUS
    <3>2. IsFiniteSet({f[x] : x \in DOMAIN f}) /\ T = {f[x] : x \in DOMAIN f}
      BY <2>1, <3>1, ImageIsFinite
    <3>3. \A k \in theirs : k.created \in Nat
      BY <1>4 DEF GoodMedusa
    <3>4. T \subseteq Nat /\ T # {}
      BY <1>3, <3>3
    <3> QED BY <3>2, <3>4
  <2>3. PICK n \in T : \A m \in T : m <= n
    BY <2>2, GreatestOf
  <2> QED BY <2>3
<1>6. j \notin Failures(theirs, cluster.inv)
  BY <1>3
<1>7. PICK k \in theirs : k.created >= j.created /\ ~(~Going(k) /\ Complete(k, cluster.inv.dcs) = {FALSE})
  BY <1>5, <1>6 DEF Failures
<1>8. k.created \in Nat /\ j.created \in Nat /\ \A i \in theirs : i.created \in Nat
  BY <1>4 DEF GoodMedusa
<1>9. \A i \in theirs : i.created <= k.created
  BY <1>5, <1>7, <1>8
<1>10. Going(k) \/ HasItAll(k) \/ ~IsKnown(k)
  <2>1. SUFFICES ASSUME Complete(k, cluster.inv.dcs) # {FALSE} PROVE HasItAll(k) \/ ~IsKnown(k)
    BY <1>7
  <2>2. CASE Complete(k, cluster.inv.dcs) = {}
    BY <1>4, <2>2, CompleteIs
  <2>3. CASE Complete(k, cluster.inv.dcs) # {}
    <3>1. PICK x \in Complete(k, cluster.inv.dcs) : TRUE
      BY <2>3
    <3>2. Complete(k, cluster.inv.dcs) = {x} /\ x \in {TRUE, FALSE}
      BY <1>4, <3>1, CompleteIs
    <3> QED BY <1>4, <2>1, <3>2, CompleteIs
  <2> QED BY <2>2, <2>3
<1> QED BY <1>4, <1>9, <1>10

LEMMA HeadlineTrue ==
  ASSUME GoodMedusa(cluster.inv), About("medusa"), reasons = CapturesOf(cluster)
  PROVE  HeadlineIsTrue
<1>1. SUFFICES ASSUME reasons.whole = {}, NEW s \in cluster.inv.schedules, NEW last \in s.last, ~s.disabled
      PROVE  \E t \in reasons.newest :
                /\ t >= last
                /\ \/ \E j \in cluster.inv.jobs :
                         HasItAll(j) /\ (t \in j.finish \/ (j.finish = {} /\ t = j.created))
                   \/ \E b \in reasons.entries : t \in b.finish
  BY DEF HeadlineIsTrue
<1>2. /\ RestorableFindings(cluster.inv) = {} /\ reasons.newest = LastRestorable(cluster.inv)
      /\ reasons.offered = RestorableJobs(cluster.inv) /\ reasons.entries = RestorableBackups(cluster.inv)
  BY <1>1 DEF CapturesOf
<1>3. last \in Fired(cluster.inv)
  BY <1>1 DEF Fired
<1>4. /\ LastRestorable(cluster.inv) # {}
      /\ \A t \in LastRestorable(cluster.inv) : ~(last > t)
  BY <1>1, <1>2, <1>3 DEF RestorableFindings, Said
<1> DEFINE Offering == RestorableJobs(cluster.inv)
           Entry == RestorableBackups(cluster.inv)
           EndOf(j) == IF j.finish # {} THEN j.finish ELSE {j.created}
           Ends == {EndOf(j) : j \in Offering} \cup {b.finish : b \in Entry}
           ends == UNION Ends
<1>5. LastRestorable(cluster.inv) = IF ends = {} THEN {} ELSE {Max(ends)}
  BY DEF LastRestorable
<1>6. Offering \subseteq cluster.inv.jobs /\ Entry \subseteq cluster.inv.backups
  BY DEF RestorableJobs, RestorableBackups
<1>7. ends \in SUBSET Nat /\ IsFiniteSet(ends)
  <2>1. \A j \in Offering : EndOf(j) \subseteq Nat /\ \A x, y \in EndOf(j) : x = y
    BY <1>6 DEF GoodMedusa, OneOrNone
  <2>2. \A b \in Entry : b.finish \subseteq Nat /\ \A x, y \in b.finish : x = y
    BY <1>6 DEF GoodMedusa, OneOrNone
  <2>3. IsFiniteSet(Offering) /\ IsFiniteSet(Entry)
    BY <1>6, FS_Subset DEF GoodMedusa
  <2>4. IsFiniteSet({EndOf(j) : j \in Offering}) /\ IsFiniteSet({b.finish : b \in Entry})
    <3> HIDE DEF Offering, Entry, EndOf
    <3>1. PICK f, g : f = [j \in Offering |-> EndOf(j)] /\ g = [b \in Entry |-> b.finish]
      OBVIOUS
    <3>2. IsFiniteSet({f[x] : x \in DOMAIN f}) /\ {EndOf(j) : j \in Offering} = {f[x] : x \in DOMAIN f}
      BY <2>3, <3>1, ImageIsFinite
    <3>3. IsFiniteSet({g[x] : x \in DOMAIN g}) /\ {b.finish : b \in Entry} = {g[x] : x \in DOMAIN g}
      BY <2>3, <3>1, ImageIsFinite
    <3> QED BY <3>2, <3>3
  <2>5. IsFiniteSet(Ends)
    BY <2>4, FS_Union
  <2>6. \A E \in Ends : E \subseteq Nat /\ \A x, y \in E : x = y
    BY <2>1, <2>2
  <2> HIDE DEF Ends
  <2>7. \A E \in Ends : IsFiniteSet(E)
    <3>1. ASSUME NEW E \in Ends PROVE IsFiniteSet(E)
      <4>1. CASE E = {}
        BY <4>1, FS_EmptySet
      <4>2. CASE E # {}
        <5>1. PICK x \in E : TRUE
          BY <4>2
        <5>2. E = {x}
          BY <2>6, <5>1
        <5> QED BY <5>2, FS_Singleton
      <4> QED BY <4>1, <4>2
    <3> QED BY <3>1
  <2> QED BY <2>5, <2>6, <2>7, FS_UNION
<1>8. ends # {} /\ LastRestorable(cluster.inv) = {Max(ends)}
  BY <1>4, <1>5
<1>9. PICK t \in ends : t = Max(ends)
  <2> HIDE DEF ends
  <2> QED BY <1>7, <1>8, MaxOf
<1>10. t \in reasons.newest /\ ~(last > t) /\ t \in Nat /\ last \in Nat
  <2>1. t \in LastRestorable(cluster.inv)
    BY <1>8, <1>9
  <2>2. last \in Nat
    BY <1>1 DEF GoodMedusa, OneOrNone
  <2> QED BY <1>2, <1>4, <1>7, <1>9, <2>1, <2>2
<1>11. \/ \E j \in Offering : t \in EndOf(j)
       \/ \E b \in Entry : t \in b.finish
  BY <1>9
<1>12. \/ \E j \in cluster.inv.jobs : HasItAll(j) /\ (t \in j.finish \/ (j.finish = {} /\ t = j.created))
       \/ \E b \in reasons.entries : t \in b.finish
  <2>1. CASE \E j \in Offering : t \in EndOf(j)
    <3>1. PICK j \in Offering : t \in EndOf(j)
      BY <2>1
    <3>2. j \in cluster.inv.jobs /\ HasItAll(j)
      BY <1>2, <3>1, OfferedWhole
    <3> QED BY <3>1, <3>2
  <2>2. CASE \E b \in Entry : t \in b.finish
    BY <1>2, <2>2
  <2> QED BY <1>11, <2>1, <2>2
<1> QED BY <1>10, <1>12

LEMMA CapturesJudged ==
  ASSUME GoodMedusa(cluster.inv), About("medusa"), reasons = CapturesOf(cluster)
  PROVE  CapturesAreJudged
<1>1. OfferedIsWhole
  BY OfferedWhole DEF OfferedIsWhole
<1> QED BY <1>1, ShortSaid, SilenceCaptured, HeadlineTrue DEF CapturesAreJudged

-----------------------------------------------------------------------------
(* Crons.  A minute is one to fire at; the first from a minute on.         *)
IsSpec(c) == c.hours \subseteq 0..23 /\ c.minutes \subseteq 0..59 /\ "every" \notin DOMAIN c

FiresAt(c, m) ==
  /\ m \div 1440 \in 0..424 /\ DayFires(c, m \div 1440)
  /\ (m % 1440) \div 60 \in c.hours /\ m % 60 \in c.minutes

Due(c, m) == {n \in Nat : n >= m /\ FiresAt(c, n)}
FirstDue(c, m) == {n \in Due(c, m) : \A k \in Due(c, m) : n <= k}

(* What a turn of the search does, from what is known of the minutes after. *)
TurnFrom(c, from, m) ==
  IF m \div 1440 \notin 0..424 THEN {}
  ELSE IF ~DayFires(c, m \div 1440) THEN from[(m \div 1440 + 1) * 1440]
  ELSE IF (m % 1440) \div 60 \notin c.hours THEN from[(m \div 60 + 1) * 60]
  ELSE IF m % 60 \in c.minutes THEN {m}
  ELSE from[m + 1]

LEMMA CalendarDays == DOMAIN Calendar = 0..424 /\ MonthStarts[15] = 425
BY DEF Calendar, MonthStarts

LEMMA MinuteFacts ==
  ASSUME NEW m \in Nat
  PROVE  /\ m \div 1440 \in Nat /\ m % 1440 \in 0..1439 /\ (m % 1440) \div 60 \in 0..23 /\ m % 60 \in 0..59
         /\ m = 1440 * (m \div 1440) + (m % 1440)
         /\ m = 1440 * (m \div 1440) + 60 * ((m % 1440) \div 60) + (m % 60)
         /\ m \div 60 \in Nat /\ (m \div 60 + 1) * 60 \in Nat /\ (m \div 60 + 1) * 60 > m
         /\ (m \div 1440 + 1) * 1440 \in Nat /\ (m \div 1440 + 1) * 1440 > m
<1>0. PICK a \in Nat : a = m \div 1440
  OBVIOUS
<1>3. PICK s \in 0..1439 : s = m % 1440
  OBVIOUS
<1>1. a = m \div 1440 /\ s = m % 1440 /\ m = 1440 * a + s
  <2>1. m % 1440 = m - 1440 * a
    BY <1>0
  <2> QED BY <1>0, <1>3, <2>1
<1>2. PICK q \in Nat, e \in 0..59 : q = m \div 60 /\ e = m % 60 /\ m = 60 * q + e
  <2>1. PICK q \in Nat : q = m \div 60
    OBVIOUS
  <2>2. PICK e \in 0..59 : e = m % 60
    OBVIOUS
  <2>3. m % 60 = m - 60 * q
    BY <2>1
  <2>4. m = 60 * q + e
    BY <2>2, <2>3
  <2> QED BY <2>1, <2>2, <2>4
<1>4. PICK h \in 0..23, r \in 0..59 : h = s \div 60 /\ s = 60 * h + r
  <2>1. PICK h \in 0..23 : h = s \div 60
    OBVIOUS
  <2>2. PICK r \in 0..59 : r = s % 60
    OBVIOUS
  <2>3. s % 60 = s - 60 * h
    BY <2>1
  <2>4. s = 60 * h + r
    BY <2>2, <2>3
  <2> QED BY <2>1, <2>4
<1>5. m % 60 = r
  <2>1. PICK g \in Nat : g = 24 * a + h
    OBVIOUS
  <2>2. m = 60 * g + r
    BY <1>1, <1>4, <2>1
  <2> QED BY <2>2
<1>6. (m \div 60 + 1) * 60 \in Nat /\ (m \div 60 + 1) * 60 > m
  BY <1>2
<1>7. (m \div 1440 + 1) * 1440 \in Nat /\ (m \div 1440 + 1) * 1440 > m
  BY <1>1
<1>8. m = 1440 * (m \div 1440) + 60 * ((m % 1440) \div 60) + (m % 60)
  BY <1>1, <1>4, <1>5
<1>9. m % 60 \in 0..59 /\ m \div 60 \in Nat
  BY <1>2
<1> QED BY <1>1, <1>4, <1>6, <1>7, <1>8, <1>9

(* Nothing fires in what a turn skips. *)
LEMMA SkipsNothing ==
  ASSUME NEW c, NEW m \in Nat, NEW k \in Nat, k > m, \A n \in Nat : n >= m /\ n < k => ~FiresAt(c, n)
  PROVE  FirstDue(c, m) = FirstDue(c, k)
<1>1. Due(c, m) = Due(c, k)
  BY DEF Due
<1> QED BY <1>1 DEF FirstDue

LEMMA SameDay ==
  ASSUME NEW m \in Nat, NEW n \in Nat, n >= m, n < (m \div 1440 + 1) * 1440
  PROVE  n \div 1440 = m \div 1440
OBVIOUS

LEMMA SameHour ==
  ASSUME NEW m \in Nat, NEW n \in Nat, n >= m, n < (m \div 60 + 1) * 60
  PROVE  (n % 1440) \div 60 = (m % 1440) \div 60
<1>1. n \div 60 = m \div 60
  OBVIOUS
<1>2. ASSUME NEW k \in Nat PROVE (k % 1440) \div 60 = (k \div 60) % 24
  <2>1. PICK a \in Nat, h \in 0..23, r \in 0..59 : k = 1440 * a + 60 * h + r /\ h = (k % 1440) \div 60
    BY MinuteFacts
  <2>2. PICK g \in Nat : g = 24 * a + h
    OBVIOUS
  <2>3. k = 60 * g + r
    BY <2>1, <2>2
  <2>4. k \div 60 = g
    BY <2>3
  <2>5. g % 24 = h
    BY <2>2
  <2> QED BY <2>1, <2>4, <2>5
<1> QED BY <1>1, <1>2

LEMMA TurnIs ==
  ASSUME NEW c, NEW f, NEW m \in Nat, \A n \in Nat : n > m => f[n] = FirstDue(c, n)
  PROVE  TurnFrom(c, f, m) = FirstDue(c, m)
<1>1. CASE m \div 1440 \notin 0..424
  <2>1. \A n \in Nat : n >= m => n \div 1440 \notin 0..424
    BY <1>1
  <2>2. Due(c, m) = {}
    BY <2>1 DEF Due, FiresAt
  <2> QED BY <1>1, <2>2 DEF TurnFrom, FirstDue
<1>2. CASE m \div 1440 \in 0..424 /\ ~DayFires(c, m \div 1440)
  <2>1. PICK k \in Nat : k = (m \div 1440 + 1) * 1440 /\ k > m
    BY MinuteFacts
  <2>2. \A n \in Nat : n >= m /\ n < k => ~FiresAt(c, n)
    BY <1>2, <2>1, SameDay DEF FiresAt
  <2>3. FirstDue(c, m) = FirstDue(c, k)
    BY <2>1, <2>2, SkipsNothing
  <2>4. TurnFrom(c, f, m) = f[k]
    BY <1>2, <2>1 DEF TurnFrom
  <2> QED BY <2>1, <2>3, <2>4
<1>3. CASE m \div 1440 \in 0..424 /\ DayFires(c, m \div 1440) /\ (m % 1440) \div 60 \notin c.hours
  <2>1. PICK k \in Nat : k = (m \div 60 + 1) * 60 /\ k > m
    BY MinuteFacts
  <2>2. \A n \in Nat : n >= m /\ n < k => ~FiresAt(c, n)
    BY <1>3, <2>1, SameHour DEF FiresAt
  <2>3. FirstDue(c, m) = FirstDue(c, k)
    BY <2>1, <2>2, SkipsNothing
  <2>4. TurnFrom(c, f, m) = f[k]
    BY <1>3, <2>1 DEF TurnFrom
  <2> QED BY <2>1, <2>3, <2>4
<1>4. CASE m \div 1440 \in 0..424 /\ DayFires(c, m \div 1440) /\ (m % 1440) \div 60 \in c.hours
  <2>1. CASE m % 60 \in c.minutes
    <3>1. FiresAt(c, m) /\ TurnFrom(c, f, m) = {m}
      BY <1>4, <2>1 DEF FiresAt, TurnFrom
    <3>2. m \in Due(c, m) /\ \A n \in Due(c, m) : n \in Nat /\ n >= m
      BY <3>1 DEF Due
    <3>3. FirstDue(c, m) = {m}
      <4>1. m \in FirstDue(c, m)
        BY <3>2 DEF FirstDue
      <4>2. \A n \in FirstDue(c, m) : n = m
        BY <3>2 DEF FirstDue
      <4> QED BY <4>1, <4>2
    <3> QED BY <3>1, <3>3
  <2>2. CASE m % 60 \notin c.minutes
    <3>1. ~FiresAt(c, m) /\ TurnFrom(c, f, m) = f[m + 1]
      BY <1>4, <2>2 DEF FiresAt, TurnFrom
    <3>2. \A n \in Nat : n >= m /\ n < m + 1 => ~FiresAt(c, n)
      <4>1. \A n \in Nat : n >= m /\ n < m + 1 => n = m
        OBVIOUS
      <4> QED BY <3>1, <4>1
    <3>3. FirstDue(c, m) = FirstDue(c, m + 1)
      BY <3>2, SkipsNothing
    <3> QED BY <3>1, <3>3
  <2> QED BY <2>1, <2>2
<1> QED BY <1>1, <1>2, <1>3, <1>4

(* The search ends, with the first minute that is due. *)
LEMMA SearchIs ==
  ASSUME NEW c
  PROVE  \A m \in Nat : FirstFrom(c)[m] = FirstDue(c, m)
<1> DEFINE Searches(f) == f = [m \in Nat |-> TurnFrom(c, f, m)]
<1>1. FirstFrom(c) = CHOOSE f : Searches(f)
  BY CalendarDays DEF FirstFrom, TurnFrom
<1>2. \E f : Searches(f)
  <2>1. PICK f : f = [m \in Nat |-> FirstDue(c, m)]
    OBVIOUS
  <2>2. \A m \in Nat : TurnFrom(c, f, m) = FirstDue(c, m)
    BY <2>1, TurnIs
  <2>3. f = [m \in Nat |-> TurnFrom(c, f, m)]
    BY <2>1, <2>2
  <2> QED BY <2>3
<1>3. PICK f : f = FirstFrom(c) /\ Searches(f)
  <2> HIDE DEF Searches
  <2> QED BY <1>1, <1>2
<1> DEFINE Bad == {m \in Nat : f[m] # FirstDue(c, m)}
<1>4. \A m \in Nat : f[m] = TurnFrom(c, f, m)
  BY <1>3
<1>11. PICK end \in Nat : \A n \in Nat : n > end => n \div 1440 \notin 0..424
  <2>1. PICK k \in Nat : k = 425 * 1440
    BY SMT
  <2>2. \A n \in Nat : n > k => n \div 1440 \notin 0..424
    BY <2>1, SMT
  <2> DEFINE Late(e) == \A n \in Nat : n > e => n \div 1440 \notin 0..424
  <2>3. Late(k)
    BY <2>2
  <2> HIDE DEF Late
  <2>4. \E e \in Nat : Late(e)
    BY <2>3
  <2> QED BY <2>4 DEF Late
<1>5. Bad \subseteq 0..end
  <2>1. ASSUME NEW m \in Nat, m > end PROVE f[m] = FirstDue(c, m)
    <3>1. \A n \in Nat : n >= m => n \div 1440 \notin 0..424
      BY <1>11, <2>1
    <3>2. Due(c, m) = {} /\ TurnFrom(c, f, m) = {}
      BY <3>1 DEF Due, FiresAt, TurnFrom
    <3> QED BY <1>4, <3>2 DEF FirstDue
  <2> QED BY <2>1
<1>6. IsFiniteSet(Bad)
  <2>1. IsFiniteSet(0..end)
    BY FS_Interval
  <2> QED BY <1>5, <2>1, FS_Subset
<1>7. SUFFICES ASSUME Bad # {} PROVE FALSE
  BY <1>3
<1>8. PICK m \in Bad : \A n \in Bad : n <= m
  <2> HIDE DEF Bad
  <2>1. Bad \in SUBSET Nat
    BY <1>5
  <2> QED BY <1>6, <1>7, <2>1, GreatestOf
<1>9. \A n \in Nat : n > m => f[n] = FirstDue(c, n)
  BY <1>8
<1>10. TurnFrom(c, f, m) = FirstDue(c, m)
  BY <1>9, TurnIs
<1> QED BY <1>4, <1>8, <1>10

(* The instants at which a cron fires, and the least after one. *)
Firings(c) == UNION {FiringsOf(c, d) : d \in 0..424}

LEMMA FiringIs ==
  ASSUME NEW c, IsSpec(c), NEW d \in 0..424
  PROVE  \A t : t \in FiringsOf(c, d) <=> \E m \in Nat : t = 60 * m /\ FiresAt(c, m) /\ m \div 1440 = d
<1>1. ASSUME NEW t \in FiringsOf(c, d)
      PROVE  \E m \in Nat : t = 60 * m /\ FiresAt(c, m) /\ m \div 1440 = d
  <2>1. DayFires(c, d) /\ \E h \in c.hours, r \in c.minutes : t = d * Day + h * Hour + r * Minute
    BY <1>1, CalendarDays DEF FiringsOf
  <2>2. PICK h \in c.hours, r \in c.minutes : t = d * Day + h * Hour + r * Minute
    BY <2>1
  <2>3. h \in 0..23 /\ r \in 0..59
    BY DEF IsSpec
  <2>4. PICK m \in Nat : m = 1440 * d + 60 * h + r
    <3>1. PICK x \in Nat, y \in Nat, z \in Nat : x = d /\ y = h /\ z = r
      BY <2>3
    <3>2. PICK m \in Nat : m = 1440 * x + 60 * y + z
      BY SMT
    <3> QED BY <3>1, <3>2, SMT
  <2>5. t = 60 * m
    BY <2>2, <2>3, <2>4, SMT DEF Day, Hour, Minute
  <2>6. m \div 1440 = d
    BY <2>3, <2>4, SMT
  <2>7. m % 1440 = 60 * h + r
    BY <2>3, <2>4, SMT
  <2>8. (m % 1440) \div 60 = h
    BY <2>3, <2>7, SMT
  <2>9. m % 60 = r
    <3>1. PICK g \in Nat : g = 24 * d + h
      BY <2>3, SMT
    <3>2. m = 60 * g + r
      BY <2>3, <2>4, <3>1, SMT
    <3> QED BY <2>3, <3>2, SMT
  <2>10. FiresAt(c, m)
    BY <2>1, <2>6, <2>8, <2>9, SMT DEF FiresAt
  <2> QED BY <2>5, <2>6, <2>10
<1>2. ASSUME NEW m \in Nat, FiresAt(c, m), m \div 1440 = d PROVE 60 * m \in FiringsOf(c, d)
  <2>1. PICK h \in c.hours : h = (m % 1440) \div 60
    BY <1>2 DEF FiresAt
  <2>2. PICK r \in c.minutes : r = m % 60
    BY <1>2 DEF FiresAt
  <2>3. h \in 0..23 /\ r \in 0..59
    BY DEF IsSpec
  <2>4. m = 1440 * d + 60 * h + r
    BY <1>2, <2>1, <2>2, <2>3, MinuteFacts, SMT
  <2>5. 60 * m = d * Day + h * Hour + r * Minute
    BY <2>3, <2>4, SMT DEF Day, Hour, Minute
  <2>6. DayFires(c, d)
    BY <1>2 DEF FiresAt
  <2> QED BY <2>5, <2>6, CalendarDays DEF FiringsOf
<1>3. ASSUME NEW t, NEW m \in Nat, t = 60 * m, FiresAt(c, m), m \div 1440 = d PROVE t \in FiringsOf(c, d)
  BY <1>2, <1>3
<1> QED BY <1>1, <1>3

LEMMA FiringDay ==
  ASSUME NEW c, IsSpec(c)
  PROVE  /\ \A t \in Firings(c) : t \in Nat /\ t \div Day \in 0..424 /\ t \in FiringsOf(c, t \div Day)
         /\ \A t : t \in Firings(c) <=> \E m \in Nat : t = 60 * m /\ FiresAt(c, m)
         /\ \A d : FiringsOf(c, d) \subseteq Firings(c)
<1>1. ASSUME NEW t \in Firings(c) PROVE t \in Nat /\ t \div Day \in 0..424 /\ t \in FiringsOf(c, t \div Day)
  <2>1. PICK d \in 0..424 : t \in FiringsOf(c, d)
    BY DEF Firings
  <2>2. PICK m \in Nat : t = 60 * m /\ m \div 1440 = d
    BY <2>1, FiringIs
  <2>3. t \in Nat
    BY <2>2, SMT
  <2>4. PICK s \in 0..1439 : m = 1440 * d + s
    BY <2>2, MinuteFacts
  <2>5. t \div Day = d
    <3>1. s \in Int /\ d \in Int /\ s >= 0 /\ s < 1440
      BY SMT
    <3>2. PICK e \in Nat : e = 60 * s /\ e < 86400
      BY <3>1, SMT
    <3>3. t = 86400 * d + e
      BY <2>2, <2>4, <3>1, <3>2, SMT
    <3> QED BY <2>3, <3>1, <3>2, <3>3, SMT DEF Day
  <2> QED BY <2>1, <2>3, <2>5
<1>2. ASSUME NEW t \in Firings(c) PROVE \E m \in Nat : t = 60 * m /\ FiresAt(c, m)
  <2>1. PICK d \in 0..424 : t \in FiringsOf(c, d)
    BY DEF Firings
  <2> QED BY <2>1, FiringIs
<1>3. ASSUME NEW m \in Nat, FiresAt(c, m) PROVE 60 * m \in Firings(c)
  <2>1. PICK d \in 0..424 : d = m \div 1440
    BY <1>3 DEF FiresAt
  <2>2. 60 * m \in FiringsOf(c, d)
    BY <1>3, <2>1, FiringIs
  <2> QED BY <2>2 DEF Firings
<1>4. ASSUME NEW t, NEW m \in Nat, t = 60 * m, FiresAt(c, m) PROVE t \in Firings(c)
  BY <1>3, <1>4
<1>5. \A d : FiringsOf(c, d) \subseteq Firings(c)
  BY CalendarDays DEF FiringsOf, Firings
<1> QED BY <1>1, <1>2, <1>4, <1>5

LEMMA FiresBetweenIs ==
  ASSUME NEW c, IsSpec(c), NEW a \in Nat, NEW b \in Int
  PROVE  FiresBetween(c, a, b) <=> \E t \in Firings(c) : a < t /\ t < b
<1>1. ASSUME FiresBetween(c, a, b) PROVE \E t \in Firings(c) : a < t /\ t < b
  <2>1. PICK d \in (a \div Day)..(b \div Day) : \E t \in FiringsOf(c, d) : a < t /\ t < b
    BY <1>1 DEF FiresBetween, IsSpec
  <2> QED BY <2>1, FiringDay
<1>2. ASSUME NEW t \in Firings(c), a < t, t < b PROVE FiresBetween(c, a, b)
  <2>1. t \in Nat /\ t \in FiringsOf(c, t \div Day)
    BY FiringDay
  <2>2. t \div Day \in (a \div Day)..(b \div Day)
    BY <1>2, <2>1, SMT DEF Day
  <2> QED BY <1>2, <2>1, <2>2 DEF FiresBetween, IsSpec
<1> QED BY <1>1, <1>2

(* The next firing is the first, and there is none only where there is none. *)
LEMMA NextIs ==
  ASSUME NEW c, IsSpec(c), NEW a \in Nat
  PROVE  \/ NextAfter(c, a) = {} /\ \A u \in Firings(c) : u <= a
         \/ \E t \in Firings(c) : /\ NextAfter(c, a) = {t} /\ a < t
                                  /\ \A u \in Firings(c) : a < u => t <= u
<1>1. PICK m \in Nat : m = a \div 60 + 1 /\ \A n \in Nat : n >= m <=> 60 * n > a
  <2>1. PICK q \in Nat, e \in 0..59 : q = a \div 60 /\ a = 60 * q + e
    <3>1. PICK q \in Nat : q = a \div 60
      OBVIOUS
    <3>2. PICK e \in 0..59 : e = a % 60
      OBVIOUS
    <3>3. a % 60 = a - 60 * q
      BY <3>1
    <3>4. a = 60 * q + e
      BY <3>2, <3>3
    <3> QED BY <3>1, <3>4
  <2>2. PICK m \in Nat : m = q + 1
    OBVIOUS
  <2>3. \A n \in Nat : n >= m <=> 60 * n > a
    BY <2>1, <2>2
  <2> QED BY <2>1, <2>2, <2>3
<1>2. NextAfter(c, a) = {n * 60 : n \in FirstDue(c, m)}
  <2>1. NextAfter(c, a) = {n * Minute : n \in FirstFrom(c)[a \div Minute + 1]}
    BY DEF NextAfter, IsSpec
  <2> QED BY <1>1, <2>1, SearchIs DEF Minute
<1>3. \A n \in Due(c, m) : n \in Nat /\ 60 * n \in Firings(c) /\ 60 * n > a
  BY <1>1, FiringDay DEF Due
<1>4. ASSUME NEW u \in Firings(c), a < u PROVE \E n \in Due(c, m) : u = 60 * n
  <2>1. PICK n \in Nat : u = 60 * n /\ FiresAt(c, n)
    BY FiringDay
  <2> QED BY <1>1, <1>4, <2>1 DEF Due
<1>5. CASE Due(c, m) = {}
  <2>1. NextAfter(c, a) = {}
    BY <1>2, <1>5 DEF FirstDue
  <2>2. \A u \in Firings(c) : ~(a < u) /\ u \in Nat
    BY <1>4, <1>5, FiringDay
  <2> QED BY <2>1, <2>2
<1>6. CASE Due(c, m) # {}
  <2>1. Due(c, m) \in SUBSET Nat
    BY DEF Due
  <2>2. PICK n \in Due(c, m) : \A k \in Due(c, m) : n <= k
    BY <1>6, <2>1, LeastOf
  <2>3. FirstDue(c, m) = {n}
    <3>1. n \in FirstDue(c, m)
      BY <2>2 DEF FirstDue
    <3>2. \A k \in FirstDue(c, m) : k = n
      BY <1>3, <2>2 DEF FirstDue
    <3> QED BY <3>1, <3>2
  <2>4. NextAfter(c, a) = {60 * n}
    <3>1. n * 60 = 60 * n
      BY <1>3
    <3> QED BY <1>2, <2>3, <3>1
  <2>5. ASSUME NEW u \in Firings(c), a < u PROVE 60 * n <= u
    <3>1. PICK k \in Due(c, m) : u = 60 * k
      BY <1>4, <2>5
    <3> QED BY <1>3, <2>2, <3>1
  <2>6. 60 * n \in Firings(c) /\ a < 60 * n
    BY <1>3
  <2> QED BY <2>4, <2>5, <2>6
<1> QED BY <1>5, <1>6

(* What is parsed is a delay that lasts, or fields within their bounds.    *)
LEMMA FieldIs ==
  ASSUME NEW field, GoodField(field), NEW lo \in Nat, NEW hi \in Nat, ParseField(field, lo, hi).ok
  PROVE  ParseField(field, lo, hi).mask \subseteq lo..hi
<1>1. \A part \in field : PartOk(part, lo, hi)
  BY DEF ParseField
<1>2. ASSUME NEW part \in field, NEW v \in PartRange(part, lo, hi).lo..PartRange(part, lo, hi).hi
      PROVE  v \in lo..hi
  <2>1. PICK r : r = PartRange(part, lo, hi)
    OBVIOUS
  <2>2. r.hi <= hi /\ r.lo >= lo
    BY <1>1, <2>1 DEF PartOk
  <2>3. r.lo \in Nat /\ r.hi \in Nat
    <3>1. part.from \in Seq(Nat)
      BY DEF GoodField
    <3>2. CASE part.from = << >>
      BY <2>1, <3>2 DEF PartRange
    <3>3. CASE part.from # << >> /\ Len(part.from) = 2
      BY <2>1, <3>1, <3>3 DEF PartRange
    <3>4. CASE part.from # << >> /\ Len(part.from) # 2
      BY <2>1, <3>1, <3>4 DEF PartRange
    <3> QED BY <3>2, <3>3, <3>4
  <2> QED BY <1>2, <2>1, <2>2, <2>3
<1>3. ParseField(field, lo, hi).mask
        = UNION {LET r == PartRange(part, lo, hi)
                 IN  {v \in r.lo..r.hi : (v - r.lo) % part.step = 0} : part \in field}
  BY DEF ParseField
<1>4. ASSUME NEW v \in ParseField(field, lo, hi).mask PROVE v \in lo..hi
  <2>1. PICK part \in field : v \in PartRange(part, lo, hi).lo..PartRange(part, lo, hi).hi
    BY <1>3
  <2> QED BY <1>2, <2>1
<1> QED BY <1>4

LEMMA CronIs ==
  ASSUME NEW cron, GoodCron(cron), NEW c \in ParseCron(cron)
  PROVE  /\ ParseCron(cron) = {c}
         /\ IF "every" \in DOMAIN cron THEN c = cron /\ c.every \in Nat \ {0} ELSE IsSpec(c)
<1>1. CASE "every" \in DOMAIN cron
  BY <1>1 DEF ParseCron, GoodCron
<1>2. CASE "every" \notin DOMAIN cron
  <2>1. PICK minutes, hours, doms, months, dows :
           /\ minutes = ParseField(cron.minutes, 0, 59) /\ hours = ParseField(cron.hours, 0, 23)
           /\ doms = ParseField(cron.doms, 1, 31) /\ months = ParseField(cron.months, 1, 12)
           /\ dows = ParseField(cron.dows, 0, 6)
    OBVIOUS
  <2>2. PICK e : e = [minutes |-> minutes.mask, hours |-> hours.mask, doms |-> doms.mask,
                      months |-> months.mask, dows |-> dows.mask,
                      domStar |-> doms.star, dowStar |-> dows.star]
    OBVIOUS
  <2>3. ParseCron(cron) = {x \in {e} : \A f \in {minutes, hours, doms, months, dows} : f.ok}
    BY <1>2, <2>1, <2>2 DEF ParseCron
  <2>4. c = e /\ minutes.ok /\ hours.ok /\ ParseCron(cron) = {c}
    BY <2>3
  <2>5. GoodField(cron.minutes) /\ GoodField(cron.hours)
    BY <1>2 DEF GoodCron
  <2>6. minutes.mask \subseteq 0..59 /\ hours.mask \subseteq 0..23
    BY <2>1, <2>4, <2>5, FieldIs
  <2>7. "every" \notin DOMAIN e /\ e.minutes = minutes.mask /\ e.hours = hours.mask
    BY <2>2
  <2> QED BY <1>2, <2>4, <2>6, <2>7 DEF IsSpec
<1> QED BY <1>1, <1>2

-----------------------------------------------------------------------------
(* What is said of schedules. *)
LEMMA TellIs == ASSUME NEW c, NEW f, NEW g PROVE g \in Tell(c, f) <=> c /\ g = f
BY DEF Tell

PeriodsOf(s) ==
  UNION {Period(c, Max(s.last \cup Tell(s.last = {}, s.created))) : c \in ParseCron(s.cron)}

LEMMA ScheduleSays ==
  ASSUME NEW s, NEW stock, NEW now
  PROVE  /\ "CronInvalid" \notin ScheduleFindings(s, stock, now) => ParseCron(s.cron) # {}
         /\ "Invalid" \notin ScheduleFindings(s, stock, now) => s.phase # "FailedValidation"
         /\ "Overdue" \in ScheduleFindings(s, stock, now)
              <=> (/\ ~s.paused /\ s.phase # "FailedValidation"
                   /\ \E next \in NextRun(s) : now > next + OVERDUE_GRACE_SECS
                   /\ ~\E b \in Mine(s, stock.backups) : BackupRunning(b))
         /\ "TtlShort" \in ScheduleFindings(s, stock, now)
              <=> \E t \in s.ttl, p \in PeriodsOf(s) : t < p
<1> DEFINE mine == Mine(s, stock.backups)
           late == /\ ~s.paused /\ s.phase # "FailedValidation"
                   /\ \E next \in NextRun(s) : now > next + OVERDUE_GRACE_SECS
                   /\ ~\E b \in mine : BackupRunning(b)
           short == \E t \in s.ttl, p \in PeriodsOf(s) : t < p
           never == /\ s.last = {} /\ ~s.paused /\ ~\E b \in mine : Usable(b)
                    /\ \E p \in PeriodsOf(s) : now > s.created + p
           failed == \E b \in NewestOf(mine) : PartiallyFailed(b) \/ BackupFailed(b)
<1>1. RunFindings(s, mine, now)
        = Tell(ParseCron(s.cron) = {}, "CronInvalid") \cup Tell(s.phase = "FailedValidation", "Invalid")
          \cup Tell(s.paused /\ mine = {}, "PausedEmpty") \cup Tell(s.paused /\ mine # {}, "Paused")
          \cup Tell(late, "Overdue") \cup Tell(never, "NeverRan") \cup Tell(short, "TtlShort")
          \cup Tell(failed, "LastFailed")
  BY DEF RunFindings, PeriodsOf
<1>2. ScopeFindings(s, mine, stock)
        \subseteq {"LocationMissing", "NoDefaultLocation", "VolumesOff", "VolumesUnclear", "NodeAgentDown"}
  BY DEF ScopeFindings, Tell
<1>3. ScheduleFindings(s, stock, now) = RunFindings(s, mine, now) \cup ScopeFindings(s, mine, stock)
  BY DEF ScheduleFindings
<1>4. \A g \in {"CronInvalid", "Invalid", "Overdue", "TtlShort"} :
         g \in ScheduleFindings(s, stock, now) <=> g \in RunFindings(s, mine, now)
  BY <1>2, <1>3
<1>5. ASSUME NEW g \in {"CronInvalid", "Invalid", "Overdue", "TtlShort"}
      PROVE  g \in RunFindings(s, mine, now)
               <=> \/ g = "CronInvalid" /\ ParseCron(s.cron) = {}
                   \/ g = "Invalid" /\ s.phase = "FailedValidation"
                   \/ g = "Overdue" /\ late
                   \/ g = "TtlShort" /\ short
  <2> HIDE DEF late, never, short, failed, mine
  <2> QED BY <1>1 DEF Tell
<1>6. /\ "CronInvalid" \in ScheduleFindings(s, stock, now) <=> ParseCron(s.cron) = {}
      /\ "Invalid" \in ScheduleFindings(s, stock, now) <=> s.phase = "FailedValidation"
      /\ "Overdue" \in ScheduleFindings(s, stock, now) <=> late
      /\ "TtlShort" \in ScheduleFindings(s, stock, now) <=> short
  <2> HIDE DEF late, never, short, failed, mine
  <2> QED BY <1>4, <1>5
<1> QED BY <1>6

LEMMA OneIsFinite ==
  ASSUME NEW T, OneOrNone(T)
  PROVE  IsFiniteSet(T) /\ T \subseteq Nat
<1>1. T \subseteq Nat /\ \A x, y \in T : x = y
  BY DEF OneOrNone
<1>2. CASE T = {}
  BY <1>2, FS_EmptySet
<1>3. CASE T # {}
  <2>1. PICK x \in T : T = {x}
    BY <1>1, <1>3
  <2>2. IsFiniteSet(T)
    BY <2>1, FS_Singleton
  <2> QED BY <1>1, <2>2
<1> QED BY <1>2, <1>3

GoodSchedule(s) ==
  /\ GoodCron(s.cron) /\ s.created \in Nat
  /\ OneOrNone(s.last) /\ OneOrNone(s.skipped) /\ OneOrNone(s.ttl)

LEMMA Stamps ==
  ASSUME NEW s, GoodSchedule(s)
  PROVE  /\ Since(s) \in Nat /\ LastRun(s) \in Nat
         /\ NextRun(s) = UNION {NextAfter(c, Since(s)) : c \in ParseCron(s.cron)}
         /\ PeriodsOf(s) = UNION {Period(c, LastRun(s)) : c \in ParseCron(s.cron)}
<1> DEFINE T == IF s.last = {} THEN {s.created} ELSE s.last
<1>1. IsFiniteSet(T) /\ T \in SUBSET Nat /\ T # {}
  BY OneIsFinite, FS_Singleton DEF GoodSchedule
<1>2. IsFiniteSet(T \cup s.skipped) /\ T \cup s.skipped \in SUBSET Nat /\ T \cup s.skipped # {}
  <2>1. IsFiniteSet(s.skipped) /\ s.skipped \subseteq Nat
    BY OneIsFinite DEF GoodSchedule
  <2> HIDE DEF T
  <2> QED BY <1>1, <2>1, FS_Union
<1>3. s.last \cup Tell(s.last = {}, s.created) = T
  BY DEF Tell
<1>4. Since(s) = Max(T \cup s.skipped) /\ LastRun(s) = Max(T)
  BY DEF Since, LastRun
<1>5. Max(T) \in Nat /\ Max(T \cup s.skipped) \in Nat
  <2> HIDE DEF T
  <2> QED BY <1>1, <1>2, MaxOf
<1>6. NextRun(s) = UNION {NextAfter(c, Since(s)) : c \in ParseCron(s.cron)}
  <2>1. NextRun(s) = UNION {NextAfter(c, Max(s.last \cup Tell(s.last = {}, s.created) \cup s.skipped)) :
                             c \in ParseCron(s.cron)}
    BY DEF NextRun
  <2>2. Since(s) = Max(s.last \cup Tell(s.last = {}, s.created) \cup s.skipped)
    <3> HIDE DEF T
    <3> QED BY <1>3, <1>4
  <2> QED BY <2>1, <2>2
<1>7. PeriodsOf(s) = UNION {Period(c, LastRun(s)) : c \in ParseCron(s.cron)}
  <2> HIDE DEF T
  <2> QED BY <1>3, <1>4 DEF PeriodsOf
<1> QED BY <1>4, <1>5, <1>6, <1>7

LEMMA DelayIs ==
  ASSUME NEW c, "every" \in DOMAIN c, c.every \in Nat \ {0}, NEW a \in Nat
  PROVE  /\ NextAfter(c, a) = {a + c.every} /\ Period(c, a) = {c.every}
         /\ \A b : FiresBetween(c, a, b) <=> a + c.every < b
         /\ Followed(c, a) = {a}
<1>1. PICK e \in Nat : e = c.every /\ e >= 1
  OBVIOUS
<1>2. Max({c.every, 1}) = c.every
  <2>0. {e, 1} \in SUBSET Nat
    OBVIOUS
  <2>1. PICK T \in SUBSET Nat : T = {e, 1}
    BY <2>0
  <2>2. \E n \in T : \A m \in T : n >= m
    BY <1>1, <2>1
  <2>3. Max(T) \in T /\ \A m \in T : Max(T) >= m
    BY <2>2 DEF Max
  <2>4. Max(T) = e
    BY <1>1, <2>1, <2>3
  <2> QED BY <1>1, <2>1, <2>4
<1> QED BY <1>2 DEF NextAfter, Period, FiresBetween, Followed

LEMMA LateIs ==
  ASSUME NEW s, GoodSchedule(s), NEW now \in Nat
  PROVE  (\E next \in NextRun(s) : now > next + OVERDUE_GRACE_SECS) <=> Missed(s, now)
<1>1. ASSUME NEW c \in ParseCron(s.cron), NEW a \in Nat
      PROVE  (\E next \in NextAfter(c, a) : now > next + OVERDUE_GRACE_SECS)
               <=> FiresBetween(c, a, now - OVERDUE_GRACE_SECS)
  <2>0. PICK b \in Int : b = now - OVERDUE_GRACE_SECS /\ \A t \in Nat : now > t + OVERDUE_GRACE_SECS <=> t < b
    <3>1. PICK b \in Int : b = now - 120
      OBVIOUS
    <3>2. \A t \in Nat : now > t + 120 <=> t < b
      BY <3>1
    <3> QED BY <3>1, <3>2 DEF OVERDUE_GRACE_SECS
  <2>1. CASE "every" \in DOMAIN s.cron
    <3>1. c = s.cron /\ c.every \in Nat \ {0}
      BY <2>1, CronIs DEF GoodSchedule
    <3>2. NextAfter(c, a) = {a + c.every} /\ (FiresBetween(c, a, b) <=> a + c.every < b)
      BY <2>1, <3>1, DelayIs
    <3>3. a + c.every \in Nat
      BY <3>1
    <3> QED BY <2>0, <3>2, <3>3
  <2>2. CASE "every" \notin DOMAIN s.cron
    <3>1. IsSpec(c)
      BY <2>2, CronIs DEF GoodSchedule
    <3>2. FiresBetween(c, a, b) <=> \E t \in Firings(c) : a < t /\ t < b
      BY <3>1, FiresBetweenIs
    <3>3. \A t \in Firings(c) : t \in Nat
      BY <3>1, FiringDay
    <3>4. CASE NextAfter(c, a) = {} /\ \A u \in Firings(c) : u <= a
      BY <2>0, <3>2, <3>3, <3>4
    <3>5. CASE \E t \in Firings(c) : /\ NextAfter(c, a) = {t} /\ a < t
                                     /\ \A u \in Firings(c) : a < u => t <= u
      <4>1. PICK t \in Firings(c) : /\ NextAfter(c, a) = {t} /\ a < t
                                    /\ \A u \in Firings(c) : a < u => t <= u
        BY <3>5
      <4>2. t < b <=> \E u \in Firings(c) : a < u /\ u < b
        BY <3>3, <4>1
      <4>3. (\E next \in NextAfter(c, a) : now > next + OVERDUE_GRACE_SECS) <=> t < b
        BY <2>0, <3>3, <4>1
      <4> QED BY <2>0, <3>2, <4>2, <4>3
    <3> QED BY <3>1, <3>4, <3>5, NextIs
  <2> QED BY <2>1, <2>2
<1>2. Since(s) \in Nat /\ NextRun(s) = UNION {NextAfter(c, Since(s)) : c \in ParseCron(s.cron)}
  BY Stamps
<1>3. (\E next \in NextRun(s) : now > next + OVERDUE_GRACE_SECS)
        <=> \E c \in ParseCron(s.cron) : \E next \in NextAfter(c, Since(s)) : now > next + OVERDUE_GRACE_SECS
  BY <1>2
<1> QED BY <1>1, <1>2, <1>3 DEF Missed

(* A firing that another follows, and the first of those to come.          *)
LEMMA FollowedIs ==
  ASSUME NEW c, IsSpec(c), NEW a \in Nat
  PROVE  /\ \A t : t \in Followed(c, a) <=> /\ t \in Firings(c) /\ a < t
                                            /\ \E u \in Firings(c) : t < u
         /\ \/ Period(c, a) = {} /\ Followed(c, a) = {}
            \/ \E t \in Followed(c, a), u \in Firings(c) :
                  /\ Period(c, a) = {u - t} /\ t < u
                  /\ \A v \in Firings(c) : t < v => u <= v
<1> DEFINE later == UNION {FiringsOf(c, d) : d \in {e \in DOMAIN Calendar : e >= a \div Day}}
<1>1. \A t \in Firings(c) : t \in Nat /\ t \div Day \in 0..424 /\ t \in FiringsOf(c, t \div Day)
  BY FiringDay
<1>2. later \subseteq Firings(c)
  BY FiringDay
<1>3. ASSUME NEW t \in Firings(c), a < t PROVE t \in later
  <2>1. t \div Day >= a \div Day
    BY <1>1, <1>3, SMT DEF Day
  <2> QED BY <1>1, <2>1, CalendarDays
<1>4. \A t : t \in Followed(c, a) <=> t \in later /\ a < t /\ \E u \in later : t < u
  BY DEF Followed, IsSpec
<1>5. ASSUME NEW t PROVE t \in Followed(c, a) <=> /\ t \in Firings(c) /\ a < t
                                                 /\ \E u \in Firings(c) : t < u
  <2> HIDE DEF later
  <2>1. ASSUME t \in Firings(c), a < t, NEW u \in Firings(c), t < u PROVE u \in later
    <3>1. a < u
      BY <1>1, <2>1
    <3> QED BY <1>3, <3>1
  <2> QED BY <1>2, <1>3, <1>4, <2>1
<1>6. Period(c, a) = UNION {{b - t : b \in NextAfter(c, t)} : t \in NextAfter(c, a)}
  BY DEF Period, IsSpec
<1>7. CASE NextAfter(c, a) = {} /\ \A u \in Firings(c) : u <= a
  <2>1. Period(c, a) = {}
    BY <1>6, <1>7
  <2>2. \A t \in Firings(c) : ~(a < t)
    BY <1>1, <1>7
  <2> QED BY <1>5, <2>1, <2>2
<1>8. CASE \E t \in Firings(c) : NextAfter(c, a) = {t} /\ a < t /\ \A u \in Firings(c) : a < u => t <= u
  <2>1. PICK t \in Firings(c) : NextAfter(c, a) = {t} /\ a < t /\ \A u \in Firings(c) : a < u => t <= u
    BY <1>8
  <2>2. Period(c, a) = {b - t : b \in NextAfter(c, t)} /\ t \in Nat
    BY <1>1, <1>6, <2>1
  <2>3. CASE NextAfter(c, t) = {} /\ \A u \in Firings(c) : u <= t
    <3>1. Period(c, a) = {}
      BY <2>2, <2>3
    <3>2. ASSUME NEW v \in Followed(c, a) PROVE FALSE
      <4>1. PICK u \in Firings(c) : v \in Firings(c) /\ a < v /\ v < u
        BY <1>5
      <4>2. t <= v /\ u <= t /\ v \in Nat /\ u \in Nat
        BY <1>1, <2>1, <2>3, <4>1
      <4> QED BY <2>2, <4>1, <4>2
    <3> QED BY <1>5, <3>1, <3>2
  <2>4. CASE \E u \in Firings(c) : NextAfter(c, t) = {u} /\ t < u /\ \A v \in Firings(c) : t < v => u <= v
    <3>1. PICK u \in Firings(c) : NextAfter(c, t) = {u} /\ t < u /\ \A v \in Firings(c) : t < v => u <= v
      BY <2>4
    <3>2. Period(c, a) = {u - t}
      BY <2>2, <3>1
    <3>3. t \in Followed(c, a)
      BY <1>5, <2>1, <3>1
    <3> QED BY <1>5, <3>1, <3>2, <3>3
  <2> QED BY <2>2, <2>3, <2>4, NextIs
<1> QED BY <1>7, <1>8, NextIs

LEMMA ShortIs ==
  ASSUME NEW s, GoodSchedule(s), NEW c \in ParseCron(s.cron), NEW ttl \in s.ttl, NEW told \in BOOLEAN,
         told = (\E t \in s.ttl, p \in PeriodsOf(s) : t < p)
  PROVE  /\ told => Gaps(c, LastRun(s), ttl) # {}
         /\ (Gaps(c, LastRun(s), ttl) # {} /\ Gaps(c, LastRun(s), ttl) = Followed(c, LastRun(s))) => told
<1>1. PICK a \in Nat : a = LastRun(s)
  BY Stamps
<1>2. ParseCron(s.cron) = {c} /\ GoodCron(s.cron)
  BY CronIs DEF GoodSchedule
<1>3. PeriodsOf(s) = Period(c, a)
  <2>1. PeriodsOf(s) = UNION {Period(x, LastRun(s)) : x \in ParseCron(s.cron)}
    BY Stamps
  <2> QED BY <1>1, <1>2, <2>1
<1>4. ttl \in Nat /\ s.ttl = {ttl}
  BY DEF GoodSchedule, OneOrNone
<1>5. told <=> \E p \in Period(c, a) : ttl < p
  BY <1>3, <1>4
<1>6. \A t : t \in Gaps(c, a, ttl) <=> t \in Followed(c, a) /\ ~FiresBetween(c, t, t + ttl + 1)
  BY DEF Gaps
<1>7. CASE "every" \in DOMAIN s.cron
  <2>1. c = s.cron /\ c.every \in Nat \ {0}
    BY <1>2, <1>7, CronIs
  <2>2. PICK e \in Nat : e = c.every
    BY <2>1
  <2>3. Period(c, a) = {e} /\ Followed(c, a) = {a} /\ (FiresBetween(c, a, a + ttl + 1) <=> a + e < a + ttl + 1)
    BY <1>7, <2>1, <2>2, DelayIs
  <2>4. a + e < a + ttl + 1 <=> ~(ttl < e)
    BY <1>4, <2>2
  <2>5. told <=> a \in Gaps(c, a, ttl)
    BY <1>5, <1>6, <2>3, <2>4
  <2> QED BY <1>1, <1>6, <2>3, <2>5
<1>8. CASE "every" \notin DOMAIN s.cron
  <2>1. IsSpec(c)
    BY <1>2, <1>8, CronIs
  <2>2. CASE Period(c, a) = {} /\ Followed(c, a) = {}
    BY <1>1, <1>5, <1>6, <2>2
  <2>3. CASE \E t \in Followed(c, a), u \in Firings(c) :
                  /\ Period(c, a) = {u - t} /\ t < u
                  /\ \A v \in Firings(c) : t < v => u <= v
    <3>1. PICK t \in Followed(c, a), u \in Firings(c) :
                  /\ Period(c, a) = {u - t} /\ t < u
                  /\ \A v \in Firings(c) : t < v => u <= v
      BY <2>3
    <3>2. \A v \in Firings(c) : v \in Nat
      BY <2>1, FiringDay
    <3>3. t \in Firings(c)
      BY <2>1, FollowedIs
    <3>4. t \in Nat /\ u \in Nat /\ t + ttl + 1 \in Int
      BY <1>4, <3>2, <3>3
    <3>5. FiresBetween(c, t, t + ttl + 1) <=> \E v \in Firings(c) : t < v /\ v < t + ttl + 1
      BY <2>1, <3>4, FiresBetweenIs
    <3>6. (\E v \in Firings(c) : t < v /\ v < t + ttl + 1) <=> u < t + ttl + 1
      <4>1. PICK z \in Int : z = t + ttl + 1
        BY <3>4
      <4>2. ASSUME NEW v \in Firings(c), t < v, v < z PROVE u < z
        BY <3>1, <3>2, <3>4, <4>2
      <4>3. (\E v \in Firings(c) : t < v /\ v < z) <=> u < z
        BY <3>1, <4>2
      <4> QED BY <4>1, <4>3
    <3>7. u < t + ttl + 1 <=> ~(ttl < u - t)
      BY <1>4, <3>4
    <3>8. told <=> ttl < u - t
      BY <1>5, <3>1
    <3>9. told <=> t \in Gaps(c, a, ttl)
      BY <1>6, <3>1, <3>5, <3>6, <3>7, <3>8
    <3> QED BY <1>1, <3>1, <3>9
  <2> QED BY <2>1, <2>2, <2>3, FollowedIs
<1> QED BY <1>7, <1>8

-----------------------------------------------------------------------------
(* What is said of the cluster, and of all this. *)
LEMMA BusyIs ==
  ASSUME NEW s
  PROVE  Busy(s) <=> \E b \in Mine(s, cluster.inv.backups) : BackupRunning(b)
BY DEF Busy, Mine

LEMMA UncoveredSaid ==
  ASSUME "Uncovered" \notin ClusterFindings(cluster.inv)
  PROVE  Uncovered(cluster.inv) = {}
<1>1. ASSUME Uncovered(cluster.inv) # {} PROVE "Uncovered" \in ClusterFindings(cluster.inv)
  <2>1. "Uncovered" \in Tell(Uncovered(cluster.inv) # {}, "Uncovered")
    BY <1>1 DEF Tell
  <2> QED BY <2>1 DEF ClusterFindings
<1> QED BY <1>1

LEMMA CronsJudged ==
  ASSUME GoodCopies(cluster), About("cron"), reasons = NextRunsOf(cluster)
  PROVE  NextIsTheFirst
<1>1. cluster.from \in Nat /\ GoodCron(cluster.cron) /\ "every" \notin DOMAIN cluster.cron
  BY DEF GoodCopies, About
<1>2. ASSUME NEW r \in reasons
      PROVE  /\ r.next = {} => ~FiresBetween(r.parsed, cluster.from, MonthStarts[15] * Day)
             /\ \A t \in r.next :
                  /\ t \in FiringsOf(r.parsed, t \div Day) /\ cluster.from < t
                  /\ ~FiresBetween(r.parsed, cluster.from, t)
  <2>1. PICK c \in ParseCron(cluster.cron) : r.parsed = c /\ r.next = NextAfter(c, cluster.from)
    BY <1>2 DEF NextRunsOf
  <2>2. IsSpec(c)
    BY <1>1, CronIs
  <2>3. PICK a \in Nat : a = cluster.from
    BY <1>1
  <2>4. PICK end \in Int : end = MonthStarts[15] * Day
    BY CalendarDays, SMT DEF Day
  <2>5. \A b \in Int : FiresBetween(c, a, b) <=> \E t \in Firings(c) : a < t /\ t < b
    BY <2>2, FiresBetweenIs
  <2>6. \A t \in Firings(c) : t \in Nat /\ t \in FiringsOf(c, t \div Day)
    BY <2>2, FiringDay
  <2>7. CASE NextAfter(c, a) = {} /\ \A u \in Firings(c) : u <= a
    <3>1. ~FiresBetween(c, a, end)
      BY <2>5, <2>6, <2>7
    <3> QED BY <2>1, <2>3, <2>4, <2>7, <3>1
  <2>8. CASE \E t \in Firings(c) : NextAfter(c, a) = {t} /\ a < t /\ \A u \in Firings(c) : a < u => t <= u
    <3>1. PICK t \in Firings(c) : NextAfter(c, a) = {t} /\ a < t /\ \A u \in Firings(c) : a < u => t <= u
      BY <2>8
    <3>2. ~FiresBetween(c, a, t)
      BY <2>5, <2>6, <3>1
    <3> QED BY <2>1, <2>3, <2>6, <3>1, <3>2
  <2> QED BY <2>2, <2>7, <2>8, NextIs
<1> QED BY <1>2 DEF NextIsTheFirst

LEMMA SchedulesJudged ==
  ASSUME GoodCopies(cluster), About("backups"), reasons = FindingsOf(cluster)
  PROVE  OverdueIsMissed /\ TtlHintIsTrue /\ SilenceMeansProtected
<1>1. cluster.now \in Nat /\ \A s \in cluster.inv.schedules : GoodSchedule(s)
  BY DEF GoodCopies, About, GoodSchedule
<1>2. \A s \in cluster.inv.schedules :
         reasons.schedules[s] = ScheduleFindings(s, cluster.inv, cluster.now)
  BY DEF FindingsOf
<1>3. ASSUME NEW s \in cluster.inv.schedules
      PROVE  "Overdue" \in reasons.schedules[s]
               <=> (~s.paused /\ s.phase # "FailedValidation" /\ Missed(s, cluster.now) /\ ~Busy(s))
  <2>1. GoodSchedule(s)
    BY <1>1
  <2>2. (\E next \in NextRun(s) : cluster.now > next + OVERDUE_GRACE_SECS) <=> Missed(s, cluster.now)
    BY <1>1, <2>1, LateIs
  <2>3. "Overdue" \in reasons.schedules[s]
              <=> (/\ ~s.paused /\ s.phase # "FailedValidation"
                   /\ \E next \in NextRun(s) : cluster.now > next + OVERDUE_GRACE_SECS
                   /\ ~\E b \in Mine(s, cluster.inv.backups) : BackupRunning(b))
    BY <1>2, ScheduleSays
  <2> QED BY <2>2, <2>3, BusyIs
<1>4. OverdueIsMissed
  BY <1>3 DEF OverdueIsMissed
<1>5. TtlHintIsTrue
  <2>1. ASSUME NEW s \in cluster.inv.schedules, NEW c \in ParseCron(s.cron), NEW ttl \in s.ttl
        PROVE  /\ "TtlShort" \in reasons.schedules[s] => Gaps(c, LastRun(s), ttl) # {}
               /\ (Gaps(c, LastRun(s), ttl) # {} /\ Gaps(c, LastRun(s), ttl) = Followed(c, LastRun(s)))
                    => "TtlShort" \in reasons.schedules[s]
    <3>1. PICK told \in BOOLEAN : told = (\E t \in s.ttl, p \in PeriodsOf(s) : t < p)
      OBVIOUS
    <3>2. "TtlShort" \in reasons.schedules[s] <=> told
      BY <1>2, <3>1, ScheduleSays
    <3>3. GoodSchedule(s)
      BY <1>1
    <3> QED BY <3>1, <3>2, <3>3, ShortIs
  <2> QED BY <2>1 DEF TtlHintIsTrue
<1>6. SilenceMeansProtected
  <2>1. SUFFICES ASSUME Dangers \cap (reasons.whole \cup UNION {reasons.schedules[s] : s \in cluster.inv.schedules}) = {},
                        NEW nss \in cluster.inv.dataNamespaces, NEW ns \in nss \ {cluster.inv.serverNamespace}
        PROVE \E s \in cluster.inv.schedules :
              /\ ~s.paused /\ s.phase # "FailedValidation" /\ ParseCron(s.cron) # {}
              /\ ns \notin UNION s.excluded /\ (s.included = {} \/ ns \in UNION s.included)
              /\ Busy(s) \/ ~Missed(s, cluster.now)
    BY DEF SilenceMeansProtected
  <2>2. \A g \in Dangers : g \notin reasons.whole /\ \A s \in cluster.inv.schedules : g \notin reasons.schedules[s]
    BY <2>1
  <2>3. reasons.whole = ClusterFindings(cluster.inv)
    BY DEF FindingsOf
  <2>4. Uncovered(cluster.inv) = {}
    BY <2>2, <2>3, UncoveredSaid DEF Dangers
  <2>5. PICK s \in cluster.inv.schedules : ~s.paused /\ CoversNamespace(s, ns)
    BY <2>1, <2>4 DEF Uncovered
  <2>6. "CronInvalid" \notin reasons.schedules[s] /\ "Invalid" \notin reasons.schedules[s]
        /\ "Overdue" \notin reasons.schedules[s]
    BY <2>2 DEF Dangers
  <2>7. ParseCron(s.cron) # {} /\ s.phase # "FailedValidation"
    BY <1>2, <2>6, ScheduleSays
  <2>8. Busy(s) \/ ~Missed(s, cluster.now)
    BY <1>3, <2>5, <2>6, <2>7
  <2> QED BY <2>5, <2>7, <2>8 DEF CoversNamespace
<1> QED BY <1>4, <1>5, <1>6

LEMMA BackupsJudged ==
  ASSUME GoodCopies(cluster),
         \/ About("cron") /\ reasons = NextRunsOf(cluster)
         \/ About("backups") /\ reasons = FindingsOf(cluster)
  PROVE  BackupsAreJudged
<1>1. CASE About("cron") /\ reasons = NextRunsOf(cluster)
  <2>1. NextIsTheFirst
    BY <1>1, CronsJudged
  <2> QED BY <1>1, <2>1
          DEF BackupsAreJudged, OverdueIsMissed, TtlHintIsTrue, SilenceMeansProtected, Judged, About
<1>2. CASE About("backups") /\ reasons = FindingsOf(cluster)
  <2>1. OverdueIsMissed /\ TtlHintIsTrue /\ SilenceMeansProtected
    BY <1>2, SchedulesJudged
  <2> QED BY <1>2, <2>1 DEF BackupsAreJudged, NextIsTheFirst, Judged, About
<1> QED BY <1>1, <1>2

(* Whatever the crons, the schedules, the backups and what they cover, and  *)
(* whatever the datacenters and the runs and entries of their captures:    *)
(* the next firing is the first, in any calendar month; overdue is said of *)
(* what missed a firing, and a short retention of what leaves a hole;      *)
(* where no danger is said each namespace with data has a schedule that    *)
(* runs; and what is offered for a restore, or left without a word, covers *)
(* every node (src/velero.rs:113-309, 1622-1838; src/k8ssandra.rs:396-406, *)
(* 1360-1487, 1810-1844).                                                  *)
THEOREM CopiesToldOfAll == CopySpec => []CopiesAreJudged
<1> DEFINE Good == GoodCopies(cluster) \/ (About("medusa") /\ GoodMedusa(cluster.inv))
           Inv == /\ Good /\ assessed \in BOOLEAN
                  /\ assessed => \/ GoodCopies(cluster) /\ About("cron") /\ reasons = NextRunsOf(cluster)
                                 \/ GoodCopies(cluster) /\ About("backups") /\ reasons = FindingsOf(cluster)
                                 \/ /\ About("medusa") /\ GoodMedusa(cluster.inv)
                                    /\ reasons = CapturesOf(cluster)
           Judging == /\ ~assessed /\ assessed' = TRUE
                      /\ (CollectCron \/ CollectBackups \/ CollectMedusa) /\ UNCHANGED cluster
           seen == <<cluster, reasons, assessed>>
<1>0. GoodCopies(cluster) => ~About("medusa")
  BY DEF GoodCopies, About
<1>1. (Good /\ assessed = FALSE) => Inv
  OBVIOUS
<1>2. Inv /\ [Judging]_seen => Inv'
  <2>1. ASSUME Inv, Judging PROVE Inv'
    <3>0. cluster' = cluster /\ assessed' = TRUE
      BY <2>1
    <3>1. CASE CollectCron
      <4>1. About("cron")' /\ reasons' = NextRunsOf(cluster') /\ GoodCopies(cluster')
        BY <2>1, <3>0, <3>1 DEF CollectCron, About
      <4> QED BY <3>0, <4>1
    <3>2. CASE CollectBackups
      <4>1. About("backups")' /\ reasons' = FindingsOf(cluster') /\ GoodCopies(cluster')
        BY <2>1, <3>0, <3>2 DEF CollectBackups, About
      <4> QED BY <3>0, <4>1
    <3>3. CASE CollectMedusa
      <4>1. About("medusa")' /\ reasons' = CapturesOf(cluster') /\ GoodMedusa(cluster'.inv)
        BY <1>0, <2>1, <3>0, <3>3 DEF CollectMedusa, About
      <4> QED BY <3>0, <4>1
    <3> QED BY <2>1, <3>1, <3>2, <3>3
  <2>2. ASSUME Inv, UNCHANGED seen PROVE Inv'
    <3>1. cluster' = cluster /\ reasons' = reasons /\ assessed' = assessed
      BY <2>2
    <3> QED BY <2>2, <3>1 DEF About
  <2> QED BY <2>1, <2>2
<1>3. Inv => CopiesAreJudged
  <2>1. CASE ~assessed
    BY <2>1 DEF CopiesAreJudged, BackupsAreJudged, NextIsTheFirst, OverdueIsMissed, TtlHintIsTrue,
                SilenceMeansProtected, CapturesAreJudged, OfferedIsWhole, ShortIsSaid,
                SilenceMeansCaptured, HeadlineIsTrue, Judged
  <2>2. ASSUME GoodCopies(cluster),
               \/ About("cron") /\ reasons = NextRunsOf(cluster)
               \/ About("backups") /\ reasons = FindingsOf(cluster)
        PROVE  CopiesAreJudged
    <3>1. BackupsAreJudged
      BY <2>2, BackupsJudged
    <3> QED BY <1>0, <2>2, <3>1 DEF CopiesAreJudged, CapturesAreJudged, OfferedIsWhole, ShortIsSaid,
                SilenceMeansCaptured, HeadlineIsTrue, Judged
  <2>3. ASSUME About("medusa"), GoodMedusa(cluster.inv), reasons = CapturesOf(cluster)
        PROVE  CopiesAreJudged
    <3>1. CapturesAreJudged
      BY <2>3, CapturesJudged
    <3>2. ~Judged("cron") /\ ~Judged("backups")
      BY <2>3 DEF Judged, About
    <3> QED BY <3>1, <3>2 DEF CopiesAreJudged, BackupsAreJudged, NextIsTheFirst, OverdueIsMissed,
                TtlHintIsTrue, SilenceMeansProtected
  <2> QED BY <2>1, <2>2, <2>3
<1> QED BY <1>1, <1>2, <1>3, PTL DEF CopySpec
=============================================================================
