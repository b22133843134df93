----------------------------- MODULE SeedProofs -----------------------------
(* What a run of the script installs, that a rerun changes nothing and that  *)
(* only departments double: for every script in order, any number of runs   *)
(* and whatever the operator does.                                          *)
EXTENDS Seed, TLAPS

\* Functions from a part of S to T.
PFuns(S, T) == UNION {[D -> T] : D \in SUBSET S}

Fields == {"value", "links"}

\* Overwritten fields of a row.
Overwritten ==
    {f \in PFuns(Fields, {"demo"} \union SUBSET RowIds) :
        /\ "value" \in DOMAIN f => f["value"] = "demo"
        /\ "links" \in DOMAIN f => f["links"] \in SUBSET RowIds}

\* Where a run is.
Phases == {"ready", "select", "insert", "committed", "failed"}

Sessions ==
    [at : Nat, phase : Phases, found : PFuns(Names, RowIds),
     pending : PFuns(RowIds, Overwritten), own : PFuns(RowIds, Rows),
     since : Nat, alone : BOOLEAN, rerun : BOOLEAN]

TypeOK ==
    /\ committed \in PFuns(RowIds, Rows)
    /\ run \in [Runners -> Sessions]
    /\ edits \in Nat
-----------------------------------------------------------------------------
(* Functions on part of a set, and rows.                                   *)

\* What PFuns holds, without its union.
LEMMA PartFacts ==
  ASSUME NEW S, NEW T, NEW f
  PROVE  f \in PFuns(S, T) <=>
           /\ f = [x \in DOMAIN f |-> f[x]] /\ DOMAIN f \subseteq S
           /\ \A x \in DOMAIN f : f[x] \in T
BY DEF PFuns

\* Over is f where f is defined, g elsewhere.
LEMMA OverFacts ==
  ASSUME NEW f, NEW g
  PROVE  /\ DOMAIN Over(f, g) = DOMAIN f \union DOMAIN g
         /\ \A x \in DOMAIN f : Over(f, g)[x] = f[x]
         /\ \A x \in DOMAIN g : x \notin DOMAIN f => Over(f, g)[x] = g[x]
BY DEF Over

\* Over keeps the type of its arguments.
LEMMA OverPart ==
  ASSUME NEW S, NEW T, NEW f \in PFuns(S, T), NEW g \in PFuns(S, T)
  PROVE  Over(f, g) \in PFuns(S, T)
<1>1. /\ DOMAIN f \subseteq S /\ \A x \in DOMAIN f : f[x] \in T
      /\ DOMAIN g \subseteq S /\ \A x \in DOMAIN g : g[x] \in T
  BY PartFacts
<1>2. Over(f, g) \in [DOMAIN f \union DOMAIN g -> T]
  BY <1>1 DEF Over
<1> QED
  BY <1>1, <1>2 DEF PFuns

\* So does Put.
LEMMA PutPart ==
  ASSUME NEW S, NEW T, NEW f \in PFuns(S, T), NEW x \in S, NEW v \in T
  PROVE  Put(x, v, f) \in PFuns(S, T)
<1>1. [y \in {x} |-> v] \in PFuns(S, T)
  BY PartFacts
<1> QED
  BY <1>1, OverPart DEF Put

\* The empty function has every such type.
LEMMA EmptyPart ==
  ASSUME NEW S, NEW T
  PROVE  <<>> \in PFuns(S, T) /\ DOMAIN <<>> = {}
<1>1. <<>> \in [{} -> T] /\ DOMAIN <<>> = {}
  OBVIOUS
<1> QED
  BY <1>1 DEF PFuns

\* Overwriting a row.
LEMMA OverRow ==
  ASSUME NEW f \in Overwritten, NEW row \in Rows
  PROVE  /\ Over(f, row) \in Rows
         /\ Over(f, row).by = row.by
         /\ Over(f, row).value = IF "value" \in DOMAIN f THEN "demo" ELSE row.value
         /\ Over(f, row).links = IF "links" \in DOMAIN f THEN f["links"] ELSE row.links
<1>1. /\ DOMAIN f \subseteq Fields
      /\ "value" \in DOMAIN f => f["value"] = "demo"
      /\ "links" \in DOMAIN f => f["links"] \in SUBSET RowIds
  BY PartFacts DEF Overwritten
<1>2. /\ DOMAIN row = {"by", "links", "value"}
      /\ row["by"] = row.by /\ row["links"] = row.links /\ row["value"] = row.value
      /\ row.by \in SUBSET RowIds /\ row.links \in SUBSET RowIds /\ row.value \in Values
  BY DEF Rows
<1>3. Over(f, row) = [by    |-> row.by,
                      links |-> IF "links" \in DOMAIN f THEN f["links"] ELSE row.links,
                      value |-> IF "value" \in DOMAIN f THEN "demo" ELSE row.value]
  <2>1. DOMAIN f \union DOMAIN row = {"by", "links", "value"} /\ "by" \notin DOMAIN f
    BY <1>1, <1>2 DEF Fields
  <2> QED
    BY <1>1, <1>2, <2>1 DEF Over
<1>4. (IF "links" \in DOMAIN f THEN f["links"] ELSE row.links) \in SUBSET RowIds
  BY <1>1, <1>2
<1>5. (IF "value" \in DOMAIN f THEN "demo" ELSE row.value) \in Values
  BY <1>2 DEF Values
<1> QED
  BY <1>2, <1>3, <1>4, <1>5 DEF Rows
-----------------------------------------------------------------------------
(* The inductive invariant.                                                *)

\* The links of a row are the script's, if it has an item of that name.
LinksScripted(name, links) ==
    \A i \in DOMAIN Script :
        Script[i].name = name => {id[1] : id \in links} = Script[i].links

\* What r looked up so far: a row it sees for every item before the one in hand.
Looked(r) ==
    Running(r) =>
        /\ run[r].at \in 1..(Len(Script) + 1)
        /\ run[r].phase = "insert" => run[r].at \in DOMAIN Script
        /\ DOMAIN run[r].found = {Script[j].name : j \in 1..(run[r].at - 1)}
        /\ \A name \in DOMAIN run[r].found :
               /\ run[r].found[name][1] = name
               /\ run[r].found[name] \in DOMAIN run[r].own \union DOMAIN committed

\* What r has not flushed: as the script says, to rows it sees.
PendingScripted(r) ==
    \A id \in DOMAIN run[r].pending :
        /\ id \in DOMAIN run[r].own \union DOMAIN committed
        /\ "links" \in DOMAIN run[r].pending[id] =>
               LinksScripted(id[1], run[r].pending[id]["links"])

\* What a run writes into a row is the script's or what is there.
Faithful(id, row) ==
    /\ \/ row.value = "demo"
       \/ id \in DOMAIN committed /\ row.value = committed[id].value
    /\ \/ LinksScripted(id[1], row.links)
       \/ id \in DOMAIN committed /\ row.links = committed[id].links

\* What r has flushed: rows of its own, and rows nobody else writes.
OwnFaithful(r) ==
    \A id \in DOMAIN run[r].own :
        /\ id[2] = r \/ id \in DOMAIN committed
        /\ Faithful(id, run[r].own[id])
        /\ \A q \in Runners \ {r} : id \notin DOMAIN run[q].own

\* A session that is not open has written nothing; its rows come with its commit.
Session(r) ==
    /\ run[r].since <= edits
    /\ ~Running(r) => DOMAIN run[r].own = {} /\ DOMAIN run[r].pending = {}
    /\ run[r].phase # "committed" => \A id \in DOMAIN committed : id[2] # r

\* While nobody edits, what r sees of the rows it looked up is what the script
\* says, or will be when it flushes.
SeesScripted(r) ==
    Running(r) /\ run[r].since = edits =>
        \A i \in 1..(run[r].at - 1) : Script[i].updates =>
            LET id  == run[r].found[Script[i].name]
                row == Visible(r)[id]
                new == IF id \in DOMAIN run[r].pending THEN DOMAIN run[r].pending[id] ELSE {}
            IN  /\ row.value = "demo" \/ "value" \in new
                /\ LinksScripted(Script[i].name, row.links) \/ "links" \in new

\* What holds of one run.
RunnerInv(r) ==
    Looked(r) /\ PendingScripted(r) /\ OwnFaithful(r) /\ Session(r) /\ SeesScripted(r)

SeedInv == TypeOK /\ \A r \in Runners : RunnerInv(r)
-----------------------------------------------------------------------------
(* Facts about the state.                                                  *)

\* The script, entry by entry: its types, its order, no item twice.
LEMMA ScriptFacts ==
  /\ Len(Script) \in Nat /\ DOMAIN Script = 1..Len(Script)
  /\ \A i \in DOMAIN Script :
        /\ Script[i].name \in Names /\ Script[i].updates \in BOOLEAN
        /\ Script[i].by \in SUBSET Names /\ Script[i].links \in SUBSET Names
        /\ \A name \in Script[i].by \union Script[i].links :
              \E j \in 1..(i - 1) : Script[j].name = name
  /\ \A i, j \in DOMAIN Script : Script[i].name = Script[j].name => i = j
<1> DEFINE Entries == [name : Names, by : SUBSET Names, links : SUBSET Names, updates : BOOLEAN]
<1>1. Script \in Seq(Entries)
  BY ScriptAssumption DEF InOrder
<1> HIDE DEF Entries
<1>2. /\ Len(Script) \in Nat /\ DOMAIN Script = 1..Len(Script)
      /\ \A i \in DOMAIN Script : Script[i] \in Entries
  BY <1>1
<1>3. \A i \in DOMAIN Script :
        /\ Script[i].name \in Names /\ Script[i].updates \in BOOLEAN
        /\ Script[i].by \in SUBSET Names /\ Script[i].links \in SUBSET Names
  BY <1>2 DEF Entries
<1> QED
  BY <1>2, <1>3, ScriptAssumption DEF InOrder

\* The types of a session.
LEMMA SessionFacts ==
  ASSUME TypeOK, NEW r \in Runners
  PROVE  /\ run[r] \in Sessions
         /\ run[r].at \in Nat /\ run[r].phase \in Phases /\ run[r].since \in Nat
         /\ run[r].found \in PFuns(Names, RowIds)
         /\ run[r].pending \in PFuns(RowIds, Overwritten)
         /\ run[r].own \in PFuns(RowIds, Rows)
         /\ run[r].alone \in BOOLEAN /\ run[r].rerun \in BOOLEAN
<1>1. run[r] \in Sessions
  BY DEF TypeOK
<1> QED
  BY <1>1 DEF Sessions

\* The row a run adds for an item.
LEMMA IdFacts ==
  ASSUME NEW name \in Names, NEW r \in Runners
  PROVE  /\ <<name, r>> \in RowIds /\ <<name, r>>[1] = name /\ <<name, r>>[2] = r
BY DEF RowIds, Authors

\* What a select sees: the run's own rows, then the committed ones.
LEMMA VisibleFacts ==
  ASSUME TypeOK, NEW r \in Runners
  PROVE  /\ Visible(r) \in PFuns(RowIds, Rows)
         /\ DOMAIN Visible(r) = DOMAIN run[r].own \union DOMAIN committed
         /\ \A id \in DOMAIN Visible(r) : id \in RowIds /\ Visible(r)[id] \in Rows
         /\ \A id \in DOMAIN run[r].own : Visible(r)[id] = run[r].own[id]
         /\ \A id \in DOMAIN committed :
               id \notin DOMAIN run[r].own => Visible(r)[id] = committed[id]
<1>1. Visible(r) \in PFuns(RowIds, Rows)
  BY SessionFacts, OverPart DEF TypeOK, Visible
<1>2. DOMAIN Visible(r) \subseteq RowIds /\ \A id \in DOMAIN Visible(r) : Visible(r)[id] \in Rows
  BY <1>1, PartFacts
<1>3. /\ DOMAIN Over(run[r].own, committed) = DOMAIN run[r].own \union DOMAIN committed
      /\ \A id \in DOMAIN run[r].own : Over(run[r].own, committed)[id] = run[r].own[id]
      /\ \A id \in DOMAIN committed :
            id \notin DOMAIN run[r].own => Over(run[r].own, committed)[id] = committed[id]
  BY OverFacts
<1> QED
  BY <1>1, <1>2, <1>3 DEF Visible

\* What a flush writes.
LEMMA FlushedFacts ==
  ASSUME TypeOK, NEW r \in Runners, PendingScripted(r)
  PROVE  /\ Flushed(r) \in PFuns(RowIds, Rows)
         /\ DOMAIN Flushed(r) = DOMAIN run[r].pending \union DOMAIN run[r].own
         /\ \A id \in DOMAIN run[r].pending :
               /\ run[r].pending[id] \in Overwritten
               /\ Flushed(r)[id] = Over(run[r].pending[id], Visible(r)[id])
         /\ \A id \in DOMAIN run[r].own :
               id \notin DOMAIN run[r].pending => Flushed(r)[id] = run[r].own[id]
<1> DEFINE new == [id \in DOMAIN run[r].pending |-> Over(run[r].pending[id], Visible(r)[id])]
<1>1. \A id \in DOMAIN run[r].pending :
        id \in RowIds /\ id \in DOMAIN Visible(r) /\ run[r].pending[id] \in Overwritten
  <2>1. /\ DOMAIN run[r].pending \subseteq RowIds
        /\ \A id \in DOMAIN run[r].pending : run[r].pending[id] \in Overwritten
    BY SessionFacts, PartFacts
  <2> QED
    BY <2>1, VisibleFacts DEF PendingScripted
<1>2. \A id \in DOMAIN run[r].pending : new[id] \in Rows
  BY <1>1, VisibleFacts, OverRow
<1>3. new \in PFuns(RowIds, Rows)
  BY <1>1, <1>2, PartFacts, SMTT(30)
<1>4. DOMAIN new = DOMAIN run[r].pending /\ Flushed(r) = Over(new, run[r].own)
  BY DEF Flushed
<1>5. \A id \in DOMAIN run[r].pending : new[id] = Over(run[r].pending[id], Visible(r)[id])
  OBVIOUS
<1> HIDE DEF new
<1>6. Flushed(r) \in PFuns(RowIds, Rows)
  BY <1>3, <1>4, SessionFacts, OverPart
<1>7. /\ DOMAIN Over(new, run[r].own) = DOMAIN new \union DOMAIN run[r].own
      /\ \A id \in DOMAIN new : Over(new, run[r].own)[id] = new[id]
      /\ \A id \in DOMAIN run[r].own :
            id \notin DOMAIN new => Over(new, run[r].own)[id] = run[r].own[id]
  BY OverFacts
<1> QED
  BY <1>1, <1>4, <1>5, <1>6, <1>7

\* The rows r sees, with what it has not flushed: what a commit would leave.
LEMMA FlushedView ==
  ASSUME TypeOK, NEW r \in Runners, PendingScripted(r)
  PROVE  LET view == Over(Flushed(r), committed)
         IN  /\ DOMAIN view = DOMAIN Visible(r)
             /\ \A id \in DOMAIN Visible(r) :
                   LET old == Visible(r)[id]
                       new == run[r].pending[id]
                       has(f) == id \in DOMAIN run[r].pending /\ f \in DOMAIN new
                   IN  /\ view[id].by = old.by
                       /\ view[id].value = IF has("value") THEN "demo" ELSE old.value
                       /\ view[id].links = IF has("links") THEN new["links"] ELSE old.links
<1> DEFINE view == Over(Flushed(r), committed)
<1>1. DOMAIN Flushed(r) = DOMAIN run[r].pending \union DOMAIN run[r].own
  BY FlushedFacts
<1>2. /\ DOMAIN view = DOMAIN Flushed(r) \union DOMAIN committed
      /\ \A id \in DOMAIN Flushed(r) : view[id] = Flushed(r)[id]
      /\ \A id \in DOMAIN committed : id \notin DOMAIN Flushed(r) => view[id] = committed[id]
  BY DEF Over
<1>3. DOMAIN Visible(r) = DOMAIN run[r].own \union DOMAIN committed
  BY VisibleFacts
<1>4. DOMAIN view = DOMAIN Visible(r)
  BY <1>1, <1>2, <1>3 DEF PendingScripted
<1> HIDE DEF view
<1>5. ASSUME NEW id \in DOMAIN Visible(r), id \in DOMAIN run[r].pending
      PROVE  /\ run[r].pending[id] \in Overwritten /\ Visible(r)[id] \in Rows
             /\ view[id] = Over(run[r].pending[id], Visible(r)[id])
  BY <1>1, <1>2, <1>5, FlushedFacts, VisibleFacts
<1>6. ASSUME NEW id \in DOMAIN Visible(r), id \notin DOMAIN run[r].pending
      PROVE  view[id] = Visible(r)[id]
  <2>1. CASE id \in DOMAIN run[r].own
    <3>1. Flushed(r)[id] = run[r].own[id]
      BY <1>6, <2>1, FlushedFacts
    <3>2. Visible(r)[id] = run[r].own[id]
      BY <2>1, VisibleFacts
    <3> QED
      BY <1>1, <1>2, <2>1, <3>1, <3>2
  <2>2. CASE id \notin DOMAIN run[r].own
    <3>1. Visible(r)[id] = committed[id]
      BY <1>3, <2>2, VisibleFacts
    <3> QED
      BY <1>1, <1>2, <1>3, <1>6, <2>2, <3>1
  <2> QED
    BY <2>1, <2>2
<1>7. ASSUME NEW id \in DOMAIN Visible(r)
      PROVE  LET old == Visible(r)[id]
                 new == run[r].pending[id]
                 has(f) == id \in DOMAIN run[r].pending /\ f \in DOMAIN new
             IN  /\ view[id].by = old.by
                 /\ view[id].value = IF has("value") THEN "demo" ELSE old.value
                 /\ view[id].links = IF has("links") THEN new["links"] ELSE old.links
  <2> DEFINE old == Visible(r)[id]
             new == run[r].pending[id]
  <2>1. CASE id \in DOMAIN run[r].pending
    <3>1. new \in Overwritten /\ old \in Rows /\ view[id] = Over(new, old)
      BY <1>5, <2>1
    <3> HIDE DEF new, old
    <3>2. /\ Over(new, old).by = old.by
          /\ Over(new, old).value = IF "value" \in DOMAIN new THEN "demo" ELSE old.value
          /\ Over(new, old).links = IF "links" \in DOMAIN new THEN new["links"] ELSE old.links
      BY <3>1, OverRow
    <3> QED
      BY <2>1, <3>1, <3>2 DEF new, old
  <2>2. CASE id \notin DOMAIN run[r].pending
    BY <1>6, <2>2
  <2> QED
    BY <2>1, <2>2
<1> QED
  BY <1>4, <1>7 DEF view

\* The item in hand refers to items looked up before.
LEMMA ItemFacts ==
  ASSUME TypeOK, NEW r \in Runners, Running(r), Looked(r), run[r].at \in DOMAIN Script
  PROVE  /\ Item(r).name \in Names /\ Item(r).name \notin DOMAIN run[r].found
         /\ \A names \in {Item(r).by, Item(r).links} :
               /\ Ids(r, names) \in SUBSET RowIds
               /\ {id[1] : id \in Ids(r, names)} = names
         /\ LinksScripted(Item(r).name, Ids(r, Item(r).links))
<1>1. /\ run[r].at \in Nat /\ DOMAIN run[r].found = {Script[j].name : j \in 1..(run[r].at - 1)}
      /\ \A name \in DOMAIN run[r].found : run[r].found[name][1] = name
      /\ \A name \in DOMAIN run[r].found : run[r].found[name] \in RowIds
  BY SessionFacts, PartFacts DEF Looked
<1> DEFINE i == run[r].at
<1>2. /\ Script[i].name \in Names
      /\ \A name \in Script[i].by \union Script[i].links :
            \E j \in 1..(i - 1) : Script[j].name = name
      /\ \A j \in 1..(i - 1) : j \in DOMAIN Script /\ j # i
      /\ \A j \in DOMAIN Script : Script[i].name = Script[j].name => i = j
  BY <1>1, ScriptFacts
<1>3. Item(r).name \in Names /\ Item(r).by \union Item(r).links \subseteq DOMAIN run[r].found
  BY <1>1, <1>2 DEF Item
<1>4. Item(r).name \notin DOMAIN run[r].found
  BY <1>1, <1>2 DEF Item
<1>5. ASSUME NEW names \in SUBSET DOMAIN run[r].found
      PROVE  /\ Ids(r, names) \in SUBSET RowIds
             /\ {id[1] : id \in Ids(r, names)} = names
  BY <1>1 DEF Ids
<1>6. LinksScripted(Item(r).name, Ids(r, Item(r).links))
  BY <1>3, <1>5, ScriptFacts DEF LinksScripted, Item
<1> QED
  BY <1>3, <1>4, <1>5, <1>6

\* What an else branch asks for: the fields that differ from the script.
LEMMA ChangesFacts ==
  ASSUME TypeOK, NEW r \in Runners, Running(r), Looked(r), run[r].at \in DOMAIN Script,
         NEW row \in Rows
  PROVE  /\ Changes(r, row) \in Overwritten
         /\ "value" \in DOMAIN Changes(r, row) <=> row.value # "demo"
         /\ "links" \in DOMAIN Changes(r, row) <=> row.links # Ids(r, Item(r).links)
         /\ "links" \in DOMAIN Changes(r, row) =>
               Changes(r, row)["links"] = Ids(r, Item(r).links)
<1> DEFINE L == Ids(r, Item(r).links)
           asked == [value |-> "demo", links |-> L]
           D == {f \in DOMAIN asked : row[f] # asked[f]}
<1>1. L \in SUBSET RowIds
  BY ItemFacts
<1>2. DOMAIN asked = Fields /\ asked["value"] = "demo" /\ asked["links"] = L
  BY DEF Fields
<1>3. row["links"] = row.links /\ row["value"] = row.value
  BY DEF Rows
<1>4. Changes(r, row) = [f \in D |-> asked[f]] /\ D \subseteq Fields
  BY <1>2 DEF Changes
<1> HIDE DEF L, asked
<1>5. /\ DOMAIN Changes(r, row) = D
      /\ "value" \in D <=> row.value # "demo"
      /\ "links" \in D <=> row.links # L
      /\ "value" \in D => Changes(r, row)["value"] = "demo"
      /\ "links" \in D => Changes(r, row)["links"] = L
  BY <1>2, <1>3, <1>4 DEF Fields
<1>6. \A f \in D : Changes(r, row)[f] \in {"demo"} \union SUBSET RowIds
  BY <1>1, <1>4, <1>5 DEF Fields
<1>7. Changes(r, row) = [f \in DOMAIN Changes(r, row) |-> Changes(r, row)[f]]
  BY <1>4
<1>8. Changes(r, row) \in PFuns(Fields, {"demo"} \union SUBSET RowIds)
  BY <1>4, <1>5, <1>6, <1>7, PartFacts
<1> QED
  BY <1>1, <1>5, <1>8 DEF L, Overwritten

\* A flush writes what the script says or leaves what is there.
LEMMA FlushedFaithful ==
  ASSUME TypeOK, NEW r \in Runners, PendingScripted(r), OwnFaithful(r),
         NEW id \in DOMAIN Flushed(r)
  PROVE  Faithful(id, Flushed(r)[id])
<1>1. CASE id \in DOMAIN run[r].pending
  <2> DEFINE new == run[r].pending[id]
             old == Visible(r)[id]
  <2>1. /\ new \in Overwritten /\ Flushed(r)[id] = Over(new, old) /\ old \in Rows
        /\ id \in DOMAIN run[r].own \union DOMAIN committed
    BY <1>1, FlushedFacts, VisibleFacts DEF PendingScripted
  <2>2. /\ Over(new, old).value = IF "value" \in DOMAIN new THEN "demo" ELSE old.value
        /\ Over(new, old).links = IF "links" \in DOMAIN new THEN new["links"] ELSE old.links
    BY <2>1, OverRow
  <2>3. Faithful(id, old)
    BY <2>1, VisibleFacts DEF OwnFaithful, Faithful
  <2>4. "links" \in DOMAIN new => LinksScripted(id[1], new["links"])
    BY <1>1 DEF PendingScripted
  <2> HIDE DEF new, old
  <2> QED
    BY <2>1, <2>2, <2>3, <2>4 DEF Faithful
<1>2. CASE id \notin DOMAIN run[r].pending
  BY <1>2, FlushedFacts DEF OwnFaithful
<1> QED
  BY <1>1, <1>2
-----------------------------------------------------------------------------
(* What a step does to the session that takes it.                          *)

\* The session of r after a step that changes no other.
Becomes(r, y) == y \in Sessions /\ run' = [run EXCEPT ![r] = y]

\* A step that makes y of the session of r touches no other session.
LEMMA BecomesFacts ==
  ASSUME TypeOK, NEW r \in Runners, NEW y, Becomes(r, y)
  PROVE  /\ run'[r] = y /\ \A q \in Runners : q # r => run'[q] = run[q]
         /\ run' \in [Runners -> Sessions]
BY DEF TypeOK, Becomes

\* A session that moves on.
After(s, a, h, f, p, o) ==
    [s EXCEPT !.at = a, !.phase = h, !.found = f, !.pending = p, !.own = o]

\* It is a session, with the fields given.
LEMMA NewSession ==
  ASSUME NEW s \in Sessions, NEW a \in Nat, NEW h \in Phases, NEW f \in PFuns(Names, RowIds),
         NEW p \in PFuns(RowIds, Overwritten), NEW o \in PFuns(RowIds, Rows)
  PROVE  LET y == After(s, a, h, f, p, o)
         IN  /\ y \in Sessions /\ y.at = a /\ y.phase = h /\ y.found = f
             /\ y.pending = p /\ y.own = o /\ y.since = s.since
             /\ y.alone = s.alone /\ y.rerun = s.rerun
<1> DEFINE y == After(s, a, h, f, p, o)
<1>1. s = [at |-> s.at, phase |-> s.phase, found |-> s.found, pending |-> s.pending,
           own |-> s.own, since |-> s.since, alone |-> s.alone, rerun |-> s.rerun]
      /\ s.since \in Nat /\ s.alone \in BOOLEAN /\ s.rerun \in BOOLEAN
  BY DEF Sessions
<1>2. ASSUME NEW z, z = [s EXCEPT !.at = a, !.phase = h, !.found = f, !.pending = p, !.own = o]
      PROVE  z = [at |-> a, phase |-> h, found |-> f, pending |-> p,
                  own |-> o, since |-> s.since, alone |-> s.alone, rerun |-> s.rerun]
  BY <1>1, <1>2
<1>3. y = [at |-> a, phase |-> h, found |-> f, pending |-> p,
           own |-> o, since |-> s.since, alone |-> s.alone, rerun |-> s.rerun]
  BY <1>2 DEF After
<1> HIDE DEF y
<1>4. /\ y \in Sessions /\ y.at = a /\ y.phase = h /\ y.found = f
      /\ y.pending = p /\ y.own = o /\ y.since = s.since
      /\ y.alone = s.alone /\ y.rerun = s.rerun
  BY <1>1, <1>3 DEF Sessions
<1> QED
  BY <1>4 DEF y

\* Reuse, as the session it leaves.
LEMMA ReuseFacts ==
  ASSUME TypeOK, NEW r \in Runners, Looked(r), Reuse(r)
  PROVE  /\ Running(r) /\ run[r].at \in DOMAIN Script
         /\ committed' = committed /\ edits' = edits
         /\ \E id \in DOMAIN Visible(r) : \E y :
              LET changes == Changes(r, Visible(r)[id])
              IN  /\ Becomes(r, y) /\ id[1] = Item(r).name
                  /\ y.at = run[r].at + 1 /\ y.phase = "select"
                  /\ y.found = Put(Item(r).name, id, run[r].found)
                  /\ y.own = run[r].own /\ y.since = run[r].since
                  /\ y.alone = run[r].alone /\ y.rerun = run[r].rerun
                  /\ y.pending = IF Item(r).updates /\ DOMAIN changes # {}
                                 THEN Put(id, changes, run[r].pending) ELSE run[r].pending
<1>1. /\ Running(r) /\ run[r].at \in DOMAIN Script
      /\ committed' = committed /\ edits' = edits
  BY SessionFacts, ScriptFacts DEF Reuse, Running, Looked
<1>2. PICK id \in Matches(r) :
        run' = [run EXCEPT ![r] =
                 [Advance(r, id) EXCEPT !.pending =
                    IF Item(r).updates /\ DOMAIN Changes(r, Visible(r)[id]) # {}
                    THEN Put(id, Changes(r, Visible(r)[id]), @) ELSE @]]
  BY DEF Reuse
<1> DEFINE changes == Changes(r, Visible(r)[id])
           f == Put(Item(r).name, id, run[r].found)
           p == IF Item(r).updates /\ DOMAIN changes # {}
                THEN Put(id, changes, run[r].pending) ELSE run[r].pending
           y == After(run[r], run[r].at + 1, "select", f, p, run[r].own)
<1>3. id \in DOMAIN Visible(r) /\ id[1] = Item(r).name /\ id \in RowIds /\ Visible(r)[id] \in Rows
  BY <1>2, VisibleFacts DEF Matches
<1>4. f \in PFuns(Names, RowIds)
  BY <1>1, <1>3, ItemFacts, SessionFacts, PutPart
<1>5. p \in PFuns(RowIds, Overwritten)
  BY <1>1, <1>3, ChangesFacts, SessionFacts, PutPart
<1>6. run' = [run EXCEPT ![r] = y]
  BY <1>2, SessionFacts DEF Advance, Sessions, After
<1> HIDE DEF f, p
<1>7. /\ y \in Sessions /\ y.at = run[r].at + 1 /\ y.phase = "select" /\ y.found = f
      /\ y.own = run[r].own /\ y.since = run[r].since
      /\ y.alone = run[r].alone /\ y.rerun = run[r].rerun /\ y.pending = p
  <2>1. run[r].at + 1 \in Nat /\ "select" \in Phases
    BY SessionFacts DEF Phases
  <2>2. run[r] \in Sessions /\ run[r].own \in PFuns(RowIds, Rows)
    BY SessionFacts
  <2> QED
    BY <1>4, <1>5, <2>1, <2>2, NewSession
<1> HIDE DEF y
<1>8. Becomes(r, y)
  BY <1>6, <1>7 DEF Becomes
<1> QED
  BY <1>1, <1>3, <1>7, <1>8 DEF f, p

\* Miss, as the session it leaves.
LEMMA MissFacts ==
  ASSUME TypeOK, NEW r \in Runners, Looked(r), Miss(r)
  PROVE  /\ Running(r) /\ run[r].at \in DOMAIN Script
         /\ committed' = committed /\ edits' = edits
         /\ \E y : /\ Becomes(r, y) /\ y.at = run[r].at /\ y.phase = "insert"
                   /\ y.found = run[r].found /\ y.pending = run[r].pending
                   /\ y.own = run[r].own /\ y.since = run[r].since
                   /\ y.alone = run[r].alone /\ y.rerun = run[r].rerun
<1>1. /\ Running(r) /\ run[r].at \in DOMAIN Script
      /\ committed' = committed /\ edits' = edits
  BY SessionFacts, ScriptFacts DEF Miss, Running, Looked
<1> DEFINE y == [run[r] EXCEPT !.phase = "insert"]
<1>2. run' = [run EXCEPT ![r] = y]
  BY DEF Miss
<1>3. /\ y \in Sessions /\ y.at = run[r].at /\ y.phase = "insert"
      /\ y.found = run[r].found /\ y.pending = run[r].pending
      /\ y.own = run[r].own /\ y.since = run[r].since
      /\ y.alone = run[r].alone /\ y.rerun = run[r].rerun
  BY SessionFacts DEF Sessions, Phases
<1> HIDE DEF y
<1> QED
  BY <1>1, <1>2, <1>3 DEF Becomes

\* Flush, as the session and the rows it leaves: it writes no row of another run.
LEMMA FlushFacts ==
  ASSUME TypeOK, NEW r \in Runners, Looked(r), PendingScripted(r), Flush(r)
  PROVE  /\ Running(r) /\ run[r].at \in DOMAIN Script
         /\ committed' = committed /\ edits' = edits
         /\ \A id \in DOMAIN run[r].pending, q \in Runners :
               q # r => id \notin DOMAIN run[q].own
         /\ \E row \in Rows : \E y :
              /\ row.value = "demo" /\ row.links = Ids(r, Item(r).links)
              /\ row.by = Ids(r, Item(r).by)
              /\ Becomes(r, y) /\ y.at = run[r].at + 1 /\ y.phase = "select"
              /\ y.found = Put(Item(r).name, <<Item(r).name, r>>, run[r].found)
              /\ y.own = Put(<<Item(r).name, r>>, row, Flushed(r)) /\ y.pending = <<>>
              /\ y.since = run[r].since
              /\ y.alone = run[r].alone /\ y.rerun = run[r].rerun
<1>1. /\ Running(r) /\ run[r].at \in DOMAIN Script
      /\ committed' = committed /\ edits' = edits
  BY SessionFacts, ScriptFacts DEF Flush, Running, Looked
<1>2. \A id \in DOMAIN run[r].pending, q \in Runners : q # r => id \notin DOMAIN run[q].own
  BY DEF Flush, Waits, Locked
<1> DEFINE id == <<Item(r).name, r>>
           row == [by |-> Ids(r, Item(r).by), links |-> Ids(r, Item(r).links), value |-> "demo"]
           f == Put(Item(r).name, id, run[r].found)
           o == Put(id, row, Flushed(r))
           y == After(run[r], run[r].at + 1, "select", f, <<>>, o)
<1>3. Item(r).name \in Names /\ id \in RowIds
  BY <1>1, ItemFacts, IdFacts
<1>4. /\ Ids(r, Item(r).by) \in SUBSET RowIds /\ Ids(r, Item(r).links) \in SUBSET RowIds
  BY <1>1, ItemFacts
<1>5. /\ row \in Rows /\ row.value = "demo"
      /\ row.links = Ids(r, Item(r).links) /\ row.by = Ids(r, Item(r).by)
  BY <1>4 DEF Rows, Values
<1>6. run' = [run EXCEPT ![r] = y]
  BY SessionFacts DEF Flush, Advance, Sessions, After
<1> HIDE DEF id, row
<1>7. f \in PFuns(Names, RowIds)
  BY <1>3, SessionFacts, PutPart
<1>8. o \in PFuns(RowIds, Rows)
  BY <1>3, <1>5, FlushedFacts, PutPart
<1>9. <<>> \in PFuns(RowIds, Overwritten)
  BY EmptyPart
<1> HIDE DEF f, o
<1>10. /\ y \in Sessions /\ y.at = run[r].at + 1 /\ y.phase = "select" /\ y.found = f
       /\ y.own = o /\ y.since = run[r].since
       /\ y.alone = run[r].alone /\ y.rerun = run[r].rerun /\ y.pending = <<>>
  <2>1. run[r].at + 1 \in Nat /\ "select" \in Phases
    BY SessionFacts DEF Phases
  <2>2. run[r] \in Sessions
    BY SessionFacts
  <2> QED
    BY <1>7, <1>8, <1>9, <2>1, <2>2, NewSession
<1> HIDE DEF y
<1>11. Becomes(r, y)
  BY <1>6, <1>10 DEF Becomes
<1> QED
  BY <1>1, <1>2, <1>5, <1>10, <1>11 DEF f, o, id

\* The end of a session, by commit or rollback.
LEMMA EndFacts ==
  ASSUME TypeOK, NEW r \in Runners, NEW h \in Phases, run' = [run EXCEPT ![r] = Ended(r, h)]
  PROVE  /\ Becomes(r, run'[r])
         /\ run'[r].at = run[r].at /\ run'[r].phase = h /\ run'[r].found = run[r].found
         /\ run'[r].pending = <<>> /\ run'[r].own = <<>> /\ run'[r].since = run[r].since
         /\ run'[r].alone = run[r].alone /\ run'[r].rerun = run[r].rerun
<1> DEFINE y == After(run[r], run[r].at, h, run[r].found, <<>>, <<>>)
<1>1. Ended(r, h) = y
  BY SessionFacts DEF Ended, After, Sessions
<1>2. /\ <<>> \in PFuns(RowIds, Overwritten) /\ <<>> \in PFuns(RowIds, Rows)
      /\ run[r] \in Sessions /\ run[r].at \in Nat /\ run[r].found \in PFuns(Names, RowIds)
  BY EmptyPart, SessionFacts
<1>3. /\ y \in Sessions /\ y.at = run[r].at /\ y.phase = h /\ y.found = run[r].found
      /\ y.pending = <<>> /\ y.own = <<>> /\ y.since = run[r].since
      /\ y.alone = run[r].alone /\ y.rerun = run[r].rerun
  BY <1>2, NewSession
<1> HIDE DEF y
<1>4. run'[r] = y
  BY <1>1 DEF TypeOK
<1> QED
  BY <1>1, <1>3, <1>4 DEF Becomes

\* A step leaves a session alone, but for what it knows of overlaps.
SameSession(q) ==
    /\ run'[q].at = run[q].at /\ run'[q].phase = run[q].phase
    /\ run'[q].found = run[q].found /\ run'[q].pending = run[q].pending
    /\ run'[q].own = run[q].own /\ run'[q].since = run[q].since

\* Start, as the session it leaves and what it tells the open ones.
LEMMA StartFacts ==
  ASSUME TypeOK, NEW r \in Runners, Start(r)
  PROVE  /\ ~Running(r) /\ run[r].phase = "ready"
         /\ run' \in [Runners -> Sessions] /\ committed' = committed /\ edits' = edits
         /\ run'[r].at = 1 /\ run'[r].phase = "select" /\ run'[r].found = <<>>
         /\ run'[r].pending = <<>> /\ run'[r].own = <<>> /\ run'[r].since = edits
         /\ run'[r].alone = \A q \in Runners : q # r => ~Running(q)
         /\ run'[r].rerun = (edits = 0 /\ \E p \in Runners : run[p].phase = "committed")
         /\ \A q \in Runners : q # r =>
               /\ SameSession(q) /\ run'[q].rerun = run[q].rerun
               /\ run'[q].alone = IF Running(q) THEN FALSE ELSE run[q].alone
<1> DEFINE others == {q \in Runners \ {r} : Running(q)}
           single == (others = {})
           again == (edits = 0 /\ \E p \in Runners : run[p].phase = "committed")
           y == [Idle EXCEPT !.at = 1, !.phase = "select", !.since = edits,
                             !.alone = single, !.rerun = again]
           z(q) == IF q = r THEN y
                   ELSE IF q \in others THEN [run[q] EXCEPT !.alone = FALSE] ELSE run[q]
<1>1. /\ run[r].phase = "ready" /\ run' = [q \in Runners |-> z(q)]
      /\ committed' = committed /\ edits' = edits
  BY DEF Start
<1>2. /\ <<>> \in PFuns(RowIds, Overwritten) /\ <<>> \in PFuns(RowIds, Rows)
      /\ <<>> \in PFuns(Names, RowIds)
  BY EmptyPart
<1>3. /\ single \in BOOLEAN /\ again \in BOOLEAN
      /\ single <=> \A q \in Runners : q # r => ~Running(q)
  OBVIOUS
<1>4. ASSUME NEW b, NEW c, NEW s, s = Idle,
             NEW x, x = [s EXCEPT !.at = 1, !.phase = "select", !.since = edits,
                                  !.alone = b, !.rerun = c]
      PROVE  x = [at |-> 1, phase |-> "select", found |-> <<>>, pending |-> <<>>, own |-> <<>>,
                  since |-> edits, alone |-> b, rerun |-> c]
  BY <1>4 DEF Idle
<1> HIDE DEF others, single, again
<1>5. y = [at |-> 1, phase |-> "select", found |-> <<>>, pending |-> <<>>, own |-> <<>>,
           since |-> edits, alone |-> single, rerun |-> again]
  BY <1>4
<1> HIDE DEF y
<1>6. /\ y.at = 1 /\ y.phase = "select" /\ y.found = <<>> /\ y.pending = <<>> /\ y.own = <<>>
      /\ y.since = edits /\ y.alone = single /\ y.rerun = again
  BY <1>5
<1>7. y \in Sessions
  BY <1>2, <1>3, <1>5 DEF Sessions, TypeOK, Phases
<1>8. ASSUME NEW q \in Runners, q # r
      PROVE  /\ run'[q] \in Sessions /\ SameSession(q) /\ run'[q].rerun = run[q].rerun
             /\ run'[q].alone = IF Running(q) THEN FALSE ELSE run[q].alone
  <2>1. /\ run[q] \in Sessions
        /\ run'[q] = IF Running(q) THEN [run[q] EXCEPT !.alone = FALSE] ELSE run[q]
    BY <1>1, <1>8 DEF TypeOK, others
  <2> QED
    BY <2>1 DEF Sessions, SameSession
<1>9. run'[r] = y
  BY <1>1
<1>10. run' \in [Runners -> Sessions]
  BY <1>1, <1>7, <1>8, <1>9
<1> QED
  BY <1>1, <1>3, <1>6, <1>8, <1>9, <1>10 DEF Running, again
-----------------------------------------------------------------------------
(* The sessions a step leaves alone.                                       *)

\* What the others may do while q has a session.
StepLeaves(q) ==
    /\ SameSession(q) /\ edits' >= edits
    /\ DOMAIN committed \subseteq DOMAIN committed'
    /\ \A id \in DOMAIN run[q].own : id \in DOMAIN committed => committed'[id] = committed[id]
    /\ \A id \in DOMAIN committed' : id \notin DOMAIN committed => id[2] # q
    /\ \A p \in Runners : p # q => \A id \in DOMAIN run[q].own : id \notin DOMAIN run'[p].own
    /\ edits' = edits => \A id \in DOMAIN committed : Faithful(id, committed'[id])

\* What a session sees next.
LEMMA VisibleNext ==
  ASSUME NEW q \in Runners
  PROVE  /\ \A id \in DOMAIN run'[q].own : Visible(q)'[id] = run'[q].own[id]
         /\ \A id \in DOMAIN committed' :
               id \notin DOMAIN run'[q].own => Visible(q)'[id] = committed'[id]
<1>1. Visible(q)' = Over(run'[q].own, committed')
  BY DEF Visible
<1>2. /\ \A id \in DOMAIN run'[q].own : Over(run'[q].own, committed')[id] = run'[q].own[id]
      /\ \A id \in DOMAIN committed' :
            id \notin DOMAIN run'[q].own => Over(run'[q].own, committed')[id] = committed'[id]
  BY OverFacts
<1> QED
  BY <1>1, <1>2, ZenonT(60)

\* Such a step keeps what holds of q.
LEMMA OthersStay ==
  ASSUME TypeOK, TypeOK', NEW q \in Runners, RunnerInv(q), StepLeaves(q)
  PROVE  RunnerInv(q)'
<1>1. Looked(q) /\ PendingScripted(q) /\ OwnFaithful(q) /\ Session(q) /\ SeesScripted(q)
  BY DEF RunnerInv
<1>2. /\ run'[q].at = run[q].at /\ run'[q].phase = run[q].phase
      /\ run'[q].found = run[q].found /\ run'[q].pending = run[q].pending
      /\ run'[q].own = run[q].own /\ run'[q].since = run[q].since
      /\ Running(q)' = Running(q)
      /\ edits' >= edits /\ edits \in Nat /\ edits' \in Nat /\ run[q].since \in Nat
      /\ DOMAIN committed \subseteq DOMAIN committed'
  BY SessionFacts DEF StepLeaves, SameSession, Running, TypeOK
<1>3. Looked(q)'
  BY <1>1, <1>2 DEF Looked
<1>4. PendingScripted(q)'
  BY <1>1, <1>2 DEF PendingScripted, LinksScripted
<1>5. OwnFaithful(q)'
  <2> SUFFICES ASSUME NEW id \in DOMAIN run[q].own
               PROVE  /\ id[2] = q \/ id \in DOMAIN committed'
                      /\ Faithful(id, run[q].own[id])'
                      /\ \A p \in Runners \ {q} : id \notin DOMAIN run'[p].own
    BY <1>2 DEF OwnFaithful
  <2>1. /\ id[2] = q \/ id \in DOMAIN committed
        /\ Faithful(id, run[q].own[id])
    BY <1>1 DEF OwnFaithful
  <2>2. id \in DOMAIN committed => id \in DOMAIN committed' /\ committed'[id] = committed[id]
    BY <1>2 DEF StepLeaves
  <2>3. Faithful(id, run[q].own[id])'
    BY <1>2, <2>1, <2>2 DEF Faithful, LinksScripted
  <2> QED
    BY <1>2, <2>1, <2>3 DEF StepLeaves
<1>6. Session(q)'
  <2>1. run[q].since <= edits'
    BY <1>1, <1>2 DEF Session
  <2>2. run[q].phase # "committed" => \A id \in DOMAIN committed' : id[2] # q
    BY <1>1, SMTT(30) DEF Session, StepLeaves
  <2> QED
    BY <1>1, <1>2, <2>1, <2>2 DEF Session
<1>7. SeesScripted(q)'
  <2> SUFFICES ASSUME Running(q), run[q].since = edits',
                      NEW i \in 1..(run[q].at - 1), Script[i].updates
               PROVE  LET id  == run[q].found[Script[i].name]
                          row == Visible(q)'[id]
                          new == IF id \in DOMAIN run[q].pending
                                 THEN DOMAIN run[q].pending[id] ELSE {}
                      IN  /\ row.value = "demo" \/ "value" \in new
                          /\ LinksScripted(Script[i].name, row.links) \/ "links" \in new
    BY <1>2 DEF SeesScripted, LinksScripted
  <2> DEFINE id  == run[q].found[Script[i].name]
             new == IF id \in DOMAIN run[q].pending THEN DOMAIN run[q].pending[id] ELSE {}
  <2>1. edits' = edits /\ run[q].since = edits
    BY <1>1, <1>2, SMTT(30) DEF Session
  <2>2. /\ Visible(q)[id].value = "demo" \/ "value" \in new
        /\ LinksScripted(Script[i].name, Visible(q)[id].links) \/ "links" \in new
    BY <1>1, <2>1 DEF SeesScripted
  <2>3. id[1] = Script[i].name /\ id \in DOMAIN run[q].own \union DOMAIN committed
    <3>1. Looked(q)
      BY <1>1
    <3> QED
      BY <3>1, SMTT(30) DEF Looked
  <2> HIDE DEF id, new
  <2>4. CASE id \in DOMAIN run[q].own
    <3>1. Visible(q)[id] = run[q].own[id]
      BY <2>4, VisibleFacts
    <3>2. Visible(q)'[id] = run[q].own[id]
      BY <1>2, <2>4, VisibleNext
    <3> QED
      BY <2>2, <3>1, <3>2 DEF id, new
  <2>5. CASE id \notin DOMAIN run[q].own
    <3>1. Visible(q)[id] = committed[id]
      BY <2>3, <2>5, VisibleFacts
    <3>2. Visible(q)'[id] = committed'[id]
      BY <1>2, <2>3, <2>5, VisibleNext
    <3>3. Visible(q)'[id] = committed'[id] /\ Visible(q)[id] = committed[id]
      BY <3>1, <3>2
    <3>4. Faithful(id, committed'[id])
      BY <2>1, <2>3, <2>5 DEF StepLeaves
    <3>5. /\ Visible(q)'[id].value = "demo" \/ Visible(q)'[id].value = Visible(q)[id].value
          /\ \/ LinksScripted(Script[i].name, Visible(q)'[id].links)
             \/ Visible(q)'[id].links = Visible(q)[id].links
      BY <2>3, <3>3, <3>4 DEF Faithful
    <3> QED
      BY <2>2, <3>5 DEF id, new
  <2> QED
    BY <2>4, <2>5, SMTT(30)
<1> QED
  BY <1>3, <1>4, <1>5, <1>6, <1>7 DEF RunnerInv
-----------------------------------------------------------------------------
(* The session that takes the step.                                        *)

\* Reuse keeps what holds of its run: a row found is overwritten as scripted.
LEMMA ReuseKeeps ==
  ASSUME TypeOK, NEW r \in Runners, RunnerInv(r), Reuse(r)
  PROVE  RunnerInv(r)'
<1>1. Looked(r) /\ PendingScripted(r) /\ OwnFaithful(r) /\ Session(r) /\ SeesScripted(r)
  BY DEF RunnerInv
<1>2. /\ Running(r) /\ run[r].at \in DOMAIN Script /\ run[r].at \in Nat
      /\ committed' = committed /\ edits' = edits
  BY <1>1, ReuseFacts, SessionFacts
<1>3. PICK id \in DOMAIN Visible(r) : \E y :
        LET changes == Changes(r, Visible(r)[id])
        IN  /\ Becomes(r, y) /\ id[1] = Item(r).name
            /\ y.at = run[r].at + 1 /\ y.phase = "select"
            /\ y.found = Put(Item(r).name, id, run[r].found)
            /\ y.own = run[r].own /\ y.since = run[r].since
            /\ y.alone = run[r].alone /\ y.rerun = run[r].rerun
            /\ y.pending = IF Item(r).updates /\ DOMAIN changes # {}
                           THEN Put(id, changes, run[r].pending) ELSE run[r].pending
  BY <1>1, ReuseFacts
<1> DEFINE name == Item(r).name
           i == run[r].at
           changes == Changes(r, Visible(r)[id])
           f == Put(name, id, run[r].found)
           p == IF Item(r).updates /\ DOMAIN changes # {}
                THEN Put(id, changes, run[r].pending) ELSE run[r].pending
<1>4. /\ id[1] = name
      /\ run'[r].at = i + 1 /\ run'[r].phase = "select" /\ run'[r].found = f
      /\ run'[r].own = run[r].own /\ run'[r].since = run[r].since /\ run'[r].pending = p
  BY <1>3, BecomesFacts
<1>5. \A q \in Runners : q # r => run'[q] = run[q]
  BY <1>3, BecomesFacts
<1>6. /\ name = Script[i].name /\ Item(r).updates = Script[i].updates
      /\ name \notin DOMAIN run[r].found
      /\ LinksScripted(name, Ids(r, Item(r).links))
      /\ DOMAIN run[r].found = {Script[j].name : j \in 1..(i - 1)}
  BY <1>1, <1>2, ItemFacts DEF Item, Looked
<1>7. /\ id \in DOMAIN run[r].own \union DOMAIN committed /\ Visible(r)[id] \in Rows
      /\ Running(r)'
  BY <1>3, <1>4, VisibleFacts DEF Running
<1>8. /\ "value" \in DOMAIN changes <=> Visible(r)[id].value # "demo"
      /\ "links" \in DOMAIN changes <=> Visible(r)[id].links # Ids(r, Item(r).links)
      /\ "links" \in DOMAIN changes => changes["links"] = Ids(r, Item(r).links)
  BY <1>1, <1>2, <1>7, ChangesFacts
<1> HIDE DEF name, changes
<1>9. /\ DOMAIN f = DOMAIN run[r].found \union {name} /\ f[name] = id
      /\ \A n \in DOMAIN run[r].found : n # name => f[n] = run[r].found[n]
  BY DEF Put, Over, f
<1>10. /\ DOMAIN p \subseteq DOMAIN run[r].pending \union {id}
       /\ \A x \in DOMAIN run[r].pending : x # id => x \in DOMAIN p /\ p[x] = run[r].pending[x]
       /\ Item(r).updates /\ DOMAIN changes # {} => id \in DOMAIN p /\ p[id] = changes
       /\ ~(Item(r).updates /\ DOMAIN changes # {}) => p = run[r].pending
  <2> DEFINE g == Put(id, changes, run[r].pending)
  <2>1. /\ DOMAIN g = DOMAIN run[r].pending \union {id} /\ g[id] = changes
        /\ \A x \in DOMAIN run[r].pending : x # id => g[x] = run[r].pending[x]
    BY DEF Put, Over
  <2> HIDE DEF g
  <2>2. p = g \/ p = run[r].pending
    BY DEF g
  <2>3. Item(r).updates /\ DOMAIN changes # {} => p = g
    BY DEF g
  <2> QED
    BY <2>1, <2>2, <2>3
<1>11. /\ Len(Script) \in Nat /\ i \in 1..Len(Script) /\ 1..((i + 1) - 1) = 1..(i - 1) \union {i}
  BY <1>2, ScriptFacts
<1> HIDE DEF i, f, p
<1>12. Looked(r)'
  <2>1. i + 1 \in 1..(Len(Script) + 1)
    BY <1>11
  <2>2. DOMAIN f = {Script[j].name : j \in 1..((i + 1) - 1)}
    BY <1>6, <1>9, <1>11
  <2>3. \A n \in DOMAIN f : f[n][1] = n /\ f[n] \in DOMAIN run[r].own \union DOMAIN committed
    BY <1>1, <1>2, <1>4, <1>7, <1>9 DEF Looked
  <2> QED
    BY <1>2, <1>4, <2>1, <2>2, <2>3 DEF Looked
<1>13. PendingScripted(r)'
  <2>1. \A x \in DOMAIN p : /\ x \in DOMAIN run[r].own \union DOMAIN committed
                            /\ "links" \in DOMAIN p[x] => LinksScripted(x[1], p[x]["links"])
    BY <1>1, <1>4, <1>6, <1>7, <1>8, <1>10 DEF PendingScripted
  <2> QED
    BY <1>2, <1>4, <2>1 DEF PendingScripted, LinksScripted
<1>14. OwnFaithful(r)'
  BY <1>1, <1>2, <1>4, <1>5 DEF OwnFaithful, Faithful, LinksScripted
<1>15. Session(r)'
  BY <1>1, <1>2, <1>4, <1>7 DEF Session, Running
<1>16. SeesScripted(r)'
  <2>1. Visible(r)' = Visible(r)
    BY <1>2, <1>4 DEF Visible
  <2> SUFFICES ASSUME run[r].since = edits, NEW j \in 1..(i - 1) \union {i}, Script[j].updates
               PROVE  LET x   == f[Script[j].name]
                          new == IF x \in DOMAIN p THEN DOMAIN p[x] ELSE {}
                      IN  /\ Visible(r)[x].value = "demo" \/ "value" \in new
                          /\ \/ LinksScripted(Script[j].name, Visible(r)[x].links)
                             \/ "links" \in new
    BY <1>2, <1>4, <1>11, <2>1 DEF SeesScripted, LinksScripted
  <2>2. CASE j = i
    <3>1. f[Script[j].name] = id /\ Item(r).updates
      BY <1>6, <1>9, <2>2
    <3>2. CASE DOMAIN changes # {}
      BY <1>6, <1>8, <1>10, <2>2, <3>1, <3>2
    <3>3. CASE DOMAIN changes = {}
      BY <1>6, <1>8, <2>2, <3>1, <3>3
    <3> QED
      BY <3>2, <3>3
  <2>3. CASE j \in 1..(i - 1)
    <3>1. Script[j].name \in DOMAIN run[r].found /\ Script[j].name # name
      BY <1>6, <2>3
    <3> DEFINE x == run[r].found[Script[j].name]
    <3>2. f[Script[j].name] = x /\ x[1] = Script[j].name /\ x # id
      BY <1>1, <1>2, <1>4, <1>9, <3>1 DEF Looked
    <3>3. /\ x \in DOMAIN p <=> x \in DOMAIN run[r].pending
          /\ x \in DOMAIN p => p[x] = run[r].pending[x]
      BY <1>10, <3>2, SMTT(30)
    <3>4. LET new == IF x \in DOMAIN run[r].pending THEN DOMAIN run[r].pending[x] ELSE {}
          IN  /\ Visible(r)[x].value = "demo" \/ "value" \in new
              /\ LinksScripted(Script[j].name, Visible(r)[x].links) \/ "links" \in new
      BY <1>1, <1>2, <2>3 DEF SeesScripted, i
    <3> HIDE DEF x
    <3> QED
      BY <3>2, <3>3, <3>4
  <2> QED
    BY <2>2, <2>3
<1> QED
  BY <1>12, <1>13, <1>14, <1>15, <1>16 DEF RunnerInv

\* Miss keeps what holds of its run.
LEMMA MissKeeps ==
  ASSUME TypeOK, NEW r \in Runners, RunnerInv(r), Miss(r)
  PROVE  RunnerInv(r)'
<1>1. Looked(r) /\ PendingScripted(r) /\ OwnFaithful(r) /\ Session(r) /\ SeesScripted(r)
  BY DEF RunnerInv
<1>2. /\ Running(r) /\ run[r].at \in DOMAIN Script
      /\ committed' = committed /\ edits' = edits
      /\ run'[r].at = run[r].at /\ run'[r].phase = "insert"
      /\ run'[r].found = run[r].found /\ run'[r].pending = run[r].pending
      /\ run'[r].own = run[r].own /\ run'[r].since = run[r].since
      /\ \A q \in Runners : q # r => run'[q] = run[q]
  BY <1>1, MissFacts, BecomesFacts
<1>3. Looked(r)' /\ PendingScripted(r)'
  BY <1>1, <1>2 DEF Looked, PendingScripted, LinksScripted
<1>4. OwnFaithful(r)'
  BY <1>1, <1>2 DEF OwnFaithful, Faithful, LinksScripted
<1>5. Session(r)'
  BY <1>1, <1>2, SMTT(30) DEF Session, Running
<1>6. SeesScripted(r)'
  <2>1. Visible(r)' = Visible(r)
    BY <1>2 DEF Visible
  <2> QED
    BY <1>1, <1>2, <2>1 DEF SeesScripted, LinksScripted
<1> QED
  BY <1>3, <1>4, <1>5, <1>6 DEF RunnerInv

\* Flush keeps what holds of its run: the row added is as scripted, and no
\* row it overwrites is another run's.
LEMMA FlushKeeps ==
  ASSUME TypeOK, NEW r \in Runners, \A q \in Runners : RunnerInv(q), Flush(r)
  PROVE  RunnerInv(r)'
<1>1. Looked(r) /\ PendingScripted(r) /\ OwnFaithful(r) /\ Session(r) /\ SeesScripted(r)
  BY DEF RunnerInv
<1>2. /\ Running(r) /\ run[r].at \in DOMAIN Script /\ run[r].at \in Nat
      /\ committed' = committed /\ edits' = edits
      /\ \A x \in DOMAIN run[r].pending, q \in Runners : q # r => x \notin DOMAIN run[q].own
  BY <1>1, FlushFacts, SessionFacts
<1>3. PICK row \in Rows : \E y :
        /\ row.value = "demo" /\ row.links = Ids(r, Item(r).links)
        /\ row.by = Ids(r, Item(r).by)
        /\ Becomes(r, y) /\ y.at = run[r].at + 1 /\ y.phase = "select"
        /\ y.found = Put(Item(r).name, <<Item(r).name, r>>, run[r].found)
        /\ y.own = Put(<<Item(r).name, r>>, row, Flushed(r)) /\ y.pending = <<>>
        /\ y.since = run[r].since
        /\ y.alone = run[r].alone /\ y.rerun = run[r].rerun
  BY <1>1, FlushFacts
<1> DEFINE name == Item(r).name
           id == <<name, r>>
           i == run[r].at
           f == Put(name, id, run[r].found)
           o == Put(id, row, Flushed(r))
<1>4. /\ row.value = "demo" /\ row.links = Ids(r, Item(r).links)
      /\ run'[r].at = i + 1 /\ run'[r].phase = "select" /\ run'[r].found = f
      /\ run'[r].own = o /\ run'[r].since = run[r].since /\ run'[r].pending = <<>>
  BY <1>3, BecomesFacts
<1>5. \A q \in Runners : q # r => run'[q] = run[q]
  BY <1>3, BecomesFacts
<1>6. /\ name = Script[i].name /\ name \notin DOMAIN run[r].found
      /\ LinksScripted(name, row.links)
      /\ DOMAIN run[r].found = {Script[j].name : j \in 1..(i - 1)}
  BY <1>1, <1>2, <1>4, ItemFacts DEF Item, Looked
<1>7. id[1] = name /\ id[2] = r /\ Running(r)' /\ DOMAIN <<>> = {}
  BY <1>4 DEF Running
<1>8. /\ DOMAIN f = DOMAIN run[r].found \union {name} /\ f[name] = id
      /\ \A n \in DOMAIN run[r].found : n # name => f[n] = run[r].found[n]
  BY DEF Put, Over
<1>9. /\ DOMAIN o = DOMAIN Flushed(r) \union {id} /\ o[id] = row
      /\ \A x \in DOMAIN Flushed(r) : x # id => o[x] = Flushed(r)[x]
  BY DEF Put, Over
<1>10. DOMAIN Flushed(r) = DOMAIN run[r].pending \union DOMAIN run[r].own
  BY <1>1, FlushedFacts
<1>11. /\ Len(Script) \in Nat /\ i \in 1..Len(Script) /\ 1..((i + 1) - 1) = 1..(i - 1) \union {i}
  BY <1>2, ScriptFacts
<1> HIDE DEF name, id, i, f, o
<1>12. Looked(r)'
  <2>1. i + 1 \in 1..(Len(Script) + 1)
    BY <1>11
  <2>2. DOMAIN f = {Script[j].name : j \in 1..((i + 1) - 1)}
    BY <1>6, <1>8, <1>11
  <2>3. \A n \in DOMAIN f : f[n][1] = n /\ f[n] \in DOMAIN o \union DOMAIN committed
    BY <1>1, <1>2, <1>7, <1>8, <1>9, <1>10 DEF Looked
  <2> QED
    BY <1>2, <1>4, <2>1, <2>2, <2>3 DEF Looked
<1>13. PendingScripted(r)'
  BY <1>4, <1>7 DEF PendingScripted
<1>14. OwnFaithful(r)'
  <2> SUFFICES ASSUME NEW x \in DOMAIN o
               PROVE  /\ x[2] = r \/ x \in DOMAIN committed
                      /\ Faithful(x, o[x])
                      /\ \A q \in Runners : q # r => x \notin DOMAIN run[q].own
    BY <1>2, <1>4, <1>5 DEF OwnFaithful, Faithful, LinksScripted
  <2>1. CASE x = id
    <3>1. Faithful(x, o[x])
      BY <1>4, <1>6, <1>7, <1>9, <2>1 DEF Faithful
    <3>2. id \notin DOMAIN committed
      BY <1>1, <1>2, <1>7 DEF Session, Running
    <3>3. \A q \in Runners : q # r => id \notin DOMAIN run[q].own
      BY <1>7, <3>2 DEF RunnerInv, OwnFaithful
    <3> QED
      BY <1>7, <2>1, <3>1, <3>3
  <2>2. CASE x # id
    <3>1. x \in DOMAIN Flushed(r) /\ o[x] = Flushed(r)[x]
      BY <1>9, <2>2
    <3>2. Faithful(x, o[x])
      BY <1>1, <3>1, FlushedFaithful
    <3> QED
      BY <1>1, <1>2, <1>10, <3>1, <3>2 DEF PendingScripted, OwnFaithful
  <2> QED
    BY <2>1, <2>2
<1>15. Session(r)'
  BY <1>1, <1>2, <1>4, <1>7 DEF Session, Running
<1>16. SeesScripted(r)'
  <2> SUFFICES ASSUME run[r].since = edits, NEW j \in 1..(i - 1) \union {i}, Script[j].updates
               PROVE  LET x   == f[Script[j].name]
                          now == Visible(r)'[x]
                      IN  now.value = "demo" /\ LinksScripted(Script[j].name, now.links)
    BY <1>2, <1>4, <1>11 DEF SeesScripted, LinksScripted
  <2>1. CASE j = i
    <3>1. f[Script[j].name] = id
      BY <1>6, <1>8, <2>1
    <3>2. Visible(r)'[id] = row
      BY <1>4, <1>9, VisibleNext
    <3> QED
      BY <1>4, <1>6, <2>1, <3>1, <3>2
  <2>2. CASE j \in 1..(i - 1)
    <3>1. Script[j].name \in DOMAIN run[r].found /\ Script[j].name # name
      BY <1>6, <2>2
    <3> DEFINE x == run[r].found[Script[j].name]
               old == Visible(r)[x]
    <3>2. /\ f[Script[j].name] = x /\ x[1] = Script[j].name /\ x # id
          /\ x \in DOMAIN run[r].own \union DOMAIN committed
      BY <1>1, <1>2, <1>7, <1>8, <3>1, SMTT(30) DEF Looked
    <3>3. LET new == IF x \in DOMAIN run[r].pending THEN DOMAIN run[r].pending[x] ELSE {}
          IN  /\ old.value = "demo" \/ "value" \in new
              /\ LinksScripted(Script[j].name, old.links) \/ "links" \in new
      BY <1>1, <1>2, <2>2 DEF SeesScripted, i
    <3> HIDE DEF x
    <3>4. CASE x \in DOMAIN run[r].pending
      <4> DEFINE new == run[r].pending[x]
      <4>1. /\ new \in Overwritten /\ Flushed(r)[x] = Over(new, old) /\ old \in Rows
            /\ "links" \in DOMAIN new => LinksScripted(x[1], new["links"])
        BY <1>1, <3>2, <3>4, FlushedFacts, VisibleFacts DEF PendingScripted
      <4>2. Visible(r)'[x] = Over(new, old)
        BY <1>4, <1>9, <1>10, <3>2, <3>4, <4>1, VisibleNext
      <4> HIDE DEF new, old
      <4>3. /\ Over(new, old).value = IF "value" \in DOMAIN new THEN "demo" ELSE old.value
            /\ Over(new, old).links = IF "links" \in DOMAIN new THEN new["links"] ELSE old.links
        BY <4>1, OverRow
      <4> QED
        BY <3>2, <3>3, <3>4, <4>1, <4>2, <4>3 DEF new
    <3>5. CASE x \notin DOMAIN run[r].pending
      <4>1. old.value = "demo" /\ LinksScripted(Script[j].name, old.links)
        BY <3>3, <3>5
      <4>2. CASE x \in DOMAIN run[r].own
        <5>1. x \in DOMAIN o /\ o[x] = run[r].own[x]
          BY <1>1, <1>9, <1>10, <3>2, <3>5, <4>2, FlushedFacts
        <5>2. Visible(r)'[x] = run[r].own[x]
          BY <1>4, <5>1, VisibleNext
        <5>3. old = run[r].own[x]
          BY <4>2, VisibleFacts
        <5> QED
          BY <3>2, <4>1, <5>2, <5>3
      <4>3. CASE x \notin DOMAIN run[r].own
        <5>1. Visible(r)'[x] = committed[x]
          BY <1>2, <1>4, <1>9, <1>10, <3>2, <3>5, <4>3, VisibleNext
        <5>2. old = committed[x]
          BY <3>2, <4>3, VisibleFacts
        <5> QED
          BY <3>2, <4>1, <5>1, <5>2
      <4> QED
        BY <4>2, <4>3
    <3> QED
      BY <3>4, <3>5
  <2> QED
    BY <2>1, <2>2
<1> QED
  BY <1>12, <1>13, <1>14, <1>15, <1>16 DEF RunnerInv

\* The end of a session keeps what holds of its run.
LEMMA EndKeeps ==
  ASSUME TypeOK, NEW r \in Runners, RunnerInv(r), NEW h \in {"committed", "failed"},
         run' = [run EXCEPT ![r] = Ended(r, h)], edits' = edits,
         h = "failed" => committed' = committed /\ run[r].phase # "committed"
  PROVE  RunnerInv(r)'
<1>1. /\ run'[r].phase = h /\ run'[r].pending = <<>> /\ run'[r].own = <<>>
      /\ run'[r].since = run[r].since
  <2>1. h \in Phases
    BY DEF Phases
  <2> QED
    BY <2>1, EndFacts
<1>2. ~Running(r)' /\ DOMAIN <<>> = {}
  BY <1>1, SMTT(30) DEF Running
<1>3. Looked(r)' /\ PendingScripted(r)' /\ OwnFaithful(r)' /\ SeesScripted(r)'
  BY <1>1, <1>2 DEF Looked, PendingScripted, OwnFaithful, SeesScripted
<1>4. Session(r)'
  BY <1>1, <1>2 DEF RunnerInv, Session
<1> QED
  BY <1>3, <1>4 DEF RunnerInv

\* Start keeps what holds of its run.
LEMMA StartKeeps ==
  ASSUME TypeOK, NEW r \in Runners, RunnerInv(r), Start(r)
  PROVE  RunnerInv(r)'
<1>1. /\ run'[r].at = 1 /\ run'[r].phase = "select" /\ run'[r].found = <<>>
      /\ run'[r].pending = <<>> /\ run'[r].own = <<>> /\ run'[r].since = edits
      /\ committed' = committed /\ edits' = edits /\ run[r].phase = "ready"
  BY StartFacts
<1>2. DOMAIN <<>> = {} /\ edits \in Nat /\ Len(Script) \in Nat
  BY ScriptFacts DEF TypeOK
<1>3. Running(r)'
  BY <1>1 DEF Running
<1>4. Looked(r)'
  BY <1>1, <1>2 DEF Looked
<1>5. PendingScripted(r)' /\ OwnFaithful(r)'
  BY <1>1, <1>2 DEF PendingScripted, OwnFaithful
<1>6. SeesScripted(r)'
  BY <1>1, <1>2 DEF SeesScripted
<1>7. Session(r)'
  BY <1>1, <1>2, <1>3 DEF RunnerInv, Session
<1> QED
  BY <1>4, <1>5, <1>6, <1>7 DEF RunnerInv
-----------------------------------------------------------------------------
(* The next states.                                                        *)

\* A step of r that writes nothing committed leaves the other sessions alone.
LEMMA SessionStep ==
  ASSUME SeedInv, NEW r \in Runners, NEW y, Becomes(r, y), committed' = committed, edits' = edits,
         \A q \in Runners : q # r => \A id \in DOMAIN run[q].own : id \notin DOMAIN y.own
  PROVE  /\ TypeOK' /\ \A q \in Runners : q # r => StepLeaves(q)
<1>1. TypeOK'
  BY BecomesFacts DEF SeedInv, TypeOK
<1>2. ASSUME NEW q \in Runners, q # r
      PROVE  StepLeaves(q)
  <2>1. run'[q] = run[q] /\ run'[r] = y
    BY <1>2, BecomesFacts DEF SeedInv
  <2>2. \A p \in Runners : p # q => \A id \in DOMAIN run[q].own : id \notin DOMAIN run'[p].own
    <3> SUFFICES ASSUME NEW p \in Runners, p # q, NEW id \in DOMAIN run[q].own
                 PROVE  id \notin DOMAIN run'[p].own
      OBVIOUS
    <3>1. CASE p = r
      BY <1>2, <2>1, <3>1
    <3>2. CASE p # r
      <4>1. run'[p] = run[p]
        BY <3>2, BecomesFacts DEF SeedInv
      <4> QED
        BY <4>1 DEF SeedInv, RunnerInv, OwnFaithful
    <3> QED
      BY <3>1, <3>2
  <2>3. edits \in Nat
    BY DEF SeedInv, TypeOK
  <2> QED
    BY <2>1, <2>2, <2>3 DEF StepLeaves, SameSession, Faithful
<1> QED
  BY <1>1, <1>2

\* What a commit writes lies beside the rows of the other sessions.
LEMMA CommitStep ==
  ASSUME SeedInv, NEW r \in Runners, Commit(r)
  PROVE  /\ TypeOK' /\ \A q \in Runners : q # r => StepLeaves(q)
<1>1. /\ committed' = Over(Flushed(r), committed) /\ edits' = edits
      /\ run' = [run EXCEPT ![r] = Ended(r, "committed")]
      /\ \A id \in DOMAIN run[r].pending, q \in Runners : q # r => id \notin DOMAIN run[q].own
  BY DEF Commit, Locked
<1>2. TypeOK /\ PendingScripted(r) /\ OwnFaithful(r)
  BY DEF SeedInv, RunnerInv
<1> DEFINE y == run'[r]
<1>3. Becomes(r, y) /\ y.own = <<>>
  <2>1. "committed" \in Phases
    BY DEF Phases
  <2> QED
    BY <1>1, <1>2, <2>1, EndFacts
<1>4. TypeOK'
  <2>1. committed' \in PFuns(RowIds, Rows)
    BY <1>1, <1>2, FlushedFacts, OverPart DEF TypeOK
  <2> QED
    BY <1>1, <1>2, <1>3, <2>1, BecomesFacts DEF TypeOK
<1>5. /\ DOMAIN committed' = DOMAIN Flushed(r) \union DOMAIN committed
      /\ \A id \in DOMAIN Flushed(r) : committed'[id] = Flushed(r)[id]
      /\ \A id \in DOMAIN committed : id \notin DOMAIN Flushed(r) => committed'[id] = committed[id]
  BY <1>1 DEF Over
<1>6. DOMAIN Flushed(r) = DOMAIN run[r].pending \union DOMAIN run[r].own
  BY <1>2, FlushedFacts
<1>7. ASSUME NEW q \in Runners, q # r
      PROVE  StepLeaves(q)
  <2>1. run'[q] = run[q] /\ run'[r] = y
    BY <1>2, <1>3, <1>7, BecomesFacts
  <2>2. \A id \in DOMAIN run[q].own : id \in DOMAIN committed => committed'[id] = committed[id]
    BY <1>1, <1>2, <1>5, <1>6, <1>7 DEF OwnFaithful
  <2>3. \A id \in DOMAIN committed' : id \notin DOMAIN committed => id[2] # q
    BY <1>2, <1>5, <1>6, <1>7 DEF OwnFaithful, PendingScripted
  <2>4. \A p \in Runners : p # q => \A id \in DOMAIN run[q].own : id \notin DOMAIN run'[p].own
    <3> SUFFICES ASSUME NEW p \in Runners, p # q, NEW id \in DOMAIN run[q].own
                 PROVE  id \notin DOMAIN run'[p].own
      OBVIOUS
    <3>1. CASE p = r
      BY <1>3, <2>1, <3>1
    <3>2. CASE p # r
      <4>1. run'[p] = run[p]
        BY <1>2, <1>3, <3>2, BecomesFacts
      <4> QED
        BY <4>1 DEF SeedInv, RunnerInv, OwnFaithful
    <3> QED
      BY <3>1, <3>2
  <2>5. \A id \in DOMAIN committed : Faithful(id, committed'[id])
    <3> SUFFICES ASSUME NEW id \in DOMAIN committed
                 PROVE  Faithful(id, committed'[id])
      OBVIOUS
    <3>1. CASE id \in DOMAIN Flushed(r)
      BY <1>2, <1>5, <3>1, FlushedFaithful
    <3>2. CASE id \notin DOMAIN Flushed(r)
      BY <1>5, <3>2 DEF Faithful
    <3> QED
      BY <3>1, <3>2
  <2>6. edits \in Nat /\ DOMAIN committed \subseteq DOMAIN committed'
    BY <1>2, <1>5 DEF TypeOK
  <2> QED
    BY <1>1, <2>1, <2>2, <2>3, <2>4, <2>5, <2>6 DEF StepLeaves, SameSession
<1> QED
  BY <1>4, <1>7

\* What the operator does leaves every session alone.
LEMMA OperatorStep ==
  ASSUME SeedInv, Edit \/ Assign
  PROVE  /\ TypeOK' /\ \A q \in Runners : StepLeaves(q)
<1>1. /\ edits' = edits + 1 /\ run' = run /\ edits \in Nat
      /\ committed \in PFuns(RowIds, Rows) /\ run \in [Runners -> Sessions]
      /\ \A id \in DOMAIN committed : id \in RowIds /\ committed[id] \in Rows
  BY PartFacts DEF Edit, Assign, SeedInv, TypeOK
<1>2. \A q \in Runners : OwnFaithful(q)
  BY DEF SeedInv, RunnerInv
<1>3. PICK id, row : /\ id \in RowIds /\ row \in Rows /\ committed' = Put(id, row, committed)
                     /\ \A q \in Runners : id \notin DOMAIN run[q].own
                     /\ id \notin DOMAIN committed => id[2] \notin Runners
  <2>1. CASE Edit
    <3>1. PICK id \in DOMAIN committed :
            /\ id \notin UNION {DOMAIN run[r].own : r \in Runners}
            /\ committed' = [committed EXCEPT ![id].value = "edited"]
      BY <2>1 DEF Edit
    <3> DEFINE row == [committed[id] EXCEPT !.value = "edited"]
    <3>2. row \in Rows
      BY <1>1 DEF Rows, Values
    <3>3. committed' = [committed EXCEPT ![id] = row]
      BY <3>1
    <3> HIDE DEF row
    <3>4. committed = [x \in DOMAIN committed |-> committed[x]]
      BY <1>1, PartFacts
    <3>5. committed' = Put(id, row, committed)
      BY <3>3, <3>4 DEF Put, Over
    <3> QED
      BY <1>1, <3>1, <3>2, <3>5
  <2>2. CASE Assign
    <3>1. PICK id \in DOMAIN committed, user \in DOMAIN committed :
            /\ <<id[1], Operator>> \notin DOMAIN committed
            /\ committed' = Put(<<id[1], Operator>>,
                                [committed[id] EXCEPT !.links = {user}], committed)
      BY <2>2 DEF Assign
    <3> DEFINE extra == <<id[1], Operator>>
               row == [committed[id] EXCEPT !.links = {user}]
    <3>2. row \in Rows
      BY <1>1 DEF Rows
    <3>3. extra \in RowIds /\ extra[2] \notin Runners
      BY <1>1, RunnersAssumption DEF RowIds, Authors
    <3>4. \A q \in Runners : extra \notin DOMAIN run[q].own
      BY <1>2, <3>1, <3>3 DEF OwnFaithful
    <3> QED
      BY <3>1, <3>2, <3>3, <3>4
  <2> QED
    BY <2>1, <2>2
<1>4. TypeOK'
  BY <1>1, <1>3, PutPart DEF TypeOK
<1>5. /\ DOMAIN committed' = DOMAIN committed \union {id}
      /\ \A x \in DOMAIN committed : x # id => committed'[x] = committed[x]
  BY <1>3 DEF Put, Over
<1>6. ASSUME NEW q \in Runners
      PROVE  StepLeaves(q)
  <2>1. \A x \in DOMAIN run[q].own : x \in DOMAIN committed => committed'[x] = committed[x]
    BY <1>3, <1>5
  <2>2. \A x \in DOMAIN committed' : x \notin DOMAIN committed => x[2] # q
    BY <1>3, <1>5
  <2>3. \A p \in Runners : p # q => \A x \in DOMAIN run[q].own : x \notin DOMAIN run'[p].own
    BY <1>1, <1>2 DEF OwnFaithful
  <2> QED
    BY <1>1, <1>5, <2>1, <2>2, <2>3 DEF StepLeaves, SameSession
<1> QED
  BY <1>4, <1>6

\* Every step keeps the invariant.
LEMMA SeedNext ==
  ASSUME SeedInv, [Next]_vars
  PROVE  SeedInv'
<1>1. TypeOK /\ \A q \in Runners : RunnerInv(q) /\ Looked(q) /\ PendingScripted(q) /\ OwnFaithful(q)
  BY DEF SeedInv, RunnerInv
<1>2. ASSUME TypeOK', NEW r \in Runners, RunnerInv(r)', \A q \in Runners : q # r => StepLeaves(q)
      PROVE  SeedInv'
  BY <1>1, <1>2, OthersStay DEF SeedInv
<1>3. ASSUME NEW r \in Runners, Reuse(r)
      PROVE  SeedInv'
  <2>1. PICK y : Becomes(r, y) /\ y.own = run[r].own /\ committed' = committed /\ edits' = edits
    BY <1>1, <1>3, ReuseFacts
  <2>2. \A q \in Runners : q # r => \A id \in DOMAIN run[q].own : id \notin DOMAIN y.own
    BY <1>1, <2>1 DEF OwnFaithful
  <2> QED
    BY <1>1, <1>2, <1>3, <2>1, <2>2, ReuseKeeps, SessionStep
<1>4. ASSUME NEW r \in Runners, Miss(r)
      PROVE  SeedInv'
  <2>1. PICK y : Becomes(r, y) /\ y.own = run[r].own /\ committed' = committed /\ edits' = edits
    BY <1>1, <1>4, MissFacts
  <2>2. \A q \in Runners : q # r => \A id \in DOMAIN run[q].own : id \notin DOMAIN y.own
    BY <1>1, <2>1 DEF OwnFaithful
  <2> QED
    BY <1>1, <1>2, <1>4, <2>1, <2>2, MissKeeps, SessionStep
<1>5. ASSUME NEW r \in Runners, Flush(r)
      PROVE  SeedInv'
  <2>1. RunnerInv(r)'
    BY <1>1, <1>5, FlushKeeps
  <2>2. PICK y : Becomes(r, y) /\ committed' = committed /\ edits' = edits
    BY <1>1, <1>5, FlushFacts
  <2>3. y = run'[r]
    BY <1>1, <2>2, BecomesFacts
  <2>4. ASSUME NEW q \in Runners, q # r, NEW id \in DOMAIN run[q].own
        PROVE  id \notin DOMAIN y.own
    <3>1. \A x \in DOMAIN y.own : x \notin DOMAIN run'[q].own
      BY <2>1, <2>3, <2>4 DEF RunnerInv, OwnFaithful
    <3>2. run'[q] = run[q]
      BY <1>1, <2>2, <2>4, BecomesFacts
    <3> QED
      BY <2>4, <3>1, <3>2
  <2> QED
    BY <1>2, <2>1, <2>2, <2>4, SessionStep
<1>6. ASSUME NEW r \in Runners, Refused(r) \/ Die(r)
      PROVE  SeedInv'
  <2>1. /\ run' = [run EXCEPT ![r] = Ended(r, "failed")] /\ run[r].phase # "committed"
        /\ committed' = committed /\ edits' = edits /\ "failed" \in Phases
    BY <1>6 DEF Refused, Die, Running, Phases
  <2>2. Becomes(r, run'[r]) /\ run'[r].own = <<>>
    BY <1>1, <2>1, EndFacts
  <2>3. DOMAIN <<>> = {}
    OBVIOUS
  <2>4. RunnerInv(r)'
    BY <1>1, <2>1, EndKeeps
  <2> QED
    BY <1>2, <2>1, <2>2, <2>3, <2>4, SessionStep
<1>7. ASSUME NEW r \in Runners, Commit(r)
      PROVE  SeedInv'
  <2>1. RunnerInv(r)'
    BY <1>1, <1>7, EndKeeps DEF Commit
  <2> QED
    BY <1>2, <1>7, <2>1, CommitStep
<1>8. ASSUME NEW r \in Runners, Start(r)
      PROVE  SeedInv'
  <2>1. RunnerInv(r)'
    BY <1>1, <1>8, StartKeeps
  <2>2. /\ run' \in [Runners -> Sessions] /\ committed' = committed /\ edits' = edits
        /\ run'[r].own = <<>> /\ \A q \in Runners : q # r => SameSession(q)
    BY <1>1, <1>8, StartFacts
  <2>3. /\ run' \in [Runners -> Sessions] /\ committed' = committed /\ edits' = edits
        /\ run'[r].own = <<>> /\ DOMAIN <<>> = {} /\ edits \in Nat
        /\ \A q \in Runners : q # r => SameSession(q)
    BY <1>1, <2>2 DEF TypeOK
  <2>4. TypeOK'
    BY <1>1, <2>3 DEF TypeOK
  <2>5. ASSUME NEW q \in Runners, q # r
        PROVE  StepLeaves(q)
    <3>1. \A p \in Runners : p # q => \A id \in DOMAIN run[q].own : id \notin DOMAIN run'[p].own
      <4> SUFFICES ASSUME NEW p \in Runners, p # q, p # r
                   PROVE  \A id \in DOMAIN run[q].own : id \notin DOMAIN run'[p].own
        BY <2>3
      <4>1. run'[p].own = run[p].own
        BY <2>3 DEF SameSession
      <4> QED
        BY <1>1, <4>1 DEF OwnFaithful
    <3> QED
      BY <2>3, <2>5, <3>1 DEF StepLeaves, Faithful
  <2> QED
    BY <1>2, <2>1, <2>4, <2>5
<1>9. ASSUME Edit \/ Assign
      PROVE  SeedInv'
  BY <1>1, <1>9, OperatorStep, OthersStay DEF SeedInv
<1>10. ASSUME UNCHANGED vars
       PROVE  SeedInv'
  <2>1. /\ run' = run /\ committed' = committed /\ edits' = edits /\ edits \in Nat
    BY <1>1, <1>10 DEF vars, TypeOK
  <2>2. TypeOK'
    BY <1>1, <2>1 DEF TypeOK
  <2>3. ASSUME NEW q \in Runners
        PROVE  StepLeaves(q)
    BY <1>1, <2>1 DEF StepLeaves, SameSession, Faithful, OwnFaithful
  <2> QED
    BY <1>1, <2>2, <2>3, OthersStay DEF SeedInv
<1> QED
  BY <1>3, <1>4, <1>5, <1>6, <1>7, <1>8, <1>9, <1>10 DEF Next, Step, Finished

\* It holds at first: the rows found are nobody's among the runs.
LEMMA SeedStart == Init => SeedInv
<1> SUFFICES ASSUME Init
             PROVE  SeedInv
  OBVIOUS
<1>1. /\ committed = [id \in DOMAIN committed |-> committed[id]]
      /\ \A id \in DOMAIN committed :
            id \in RowIds /\ id[2] \notin Runners /\ committed[id] \in Rows
  BY InitialAssumption DEF Init
<1>2. committed \in PFuns(RowIds, Rows)
  BY <1>1, PartFacts
<1>3. /\ <<>> \in PFuns(RowIds, Overwritten) /\ <<>> \in PFuns(RowIds, Rows)
      /\ <<>> \in PFuns(Names, RowIds) /\ DOMAIN <<>> = {}
  BY EmptyPart
<1>4. Idle \in Sessions
  BY <1>3 DEF Idle, Sessions, Phases
<1>5. TypeOK
  BY <1>2, <1>4 DEF Init, TypeOK
<1>6. ASSUME NEW r \in Runners
      PROVE  RunnerInv(r)
  <2>1. /\ run[r].phase = "ready" /\ run[r].pending = <<>> /\ run[r].own = <<>>
        /\ run[r].since = 0 /\ edits = 0
    BY DEF Init, Idle
  <2>2. ~Running(r)
    BY <2>1 DEF Running
  <2> QED
    BY <1>1, <1>3, <2>1, <2>2
       DEF RunnerInv, Looked, PendingScripted, OwnFaithful, Session, SeesScripted
<1> QED
  BY <1>5, <1>6 DEF SeedInv

\* The invariant of seed.py's sessions, for every script in order, every set of
\* runs and every contents they may find: what is looked up is seen, what is
\* written is the script's or what was there, and until somebody edits it stays so.
THEOREM SeedInvariant == Spec => []SeedInv
BY SeedStart, SeedNext, PTL DEF Spec

\* Only a commit makes a session committed.
LEMMA OnlyCommits ==
  ASSUME SeedInv, [Next]_vars, NEW r \in Runners, Commits(r)
  PROVE  Commit(r)
<1>1. TypeOK /\ Looked(r) /\ PendingScripted(r)
      /\ \A q \in Runners : Looked(q) /\ PendingScripted(q)
  BY DEF SeedInv, RunnerInv
<1>2. run'[r] # run[r] /\ run'[r].phase = "committed" /\ run[r].phase # "committed"
  BY DEF Commits
<1>3. ASSUME NEW q \in Runners, q # r
      PROVE  ~Start(q) /\ ~Step(q) /\ ~Die(q)
  <2>1. Start(q) => run'[r].phase = run[r].phase
    <3>1. Start(q) => SameSession(r)
      BY <1>1, <1>3, StartFacts
    <3> QED
      BY <3>1 DEF SameSession
  <2>2. Step(q) \/ Die(q) => run'[r] = run[r]
    BY <1>1, <1>3 DEF Step, Reuse, Miss, Flush, Refused, Commit, Die, TypeOK
  <2> QED
    BY <1>2, <2>1, <2>2
<1>4. ~Start(r) /\ ~Reuse(r) /\ ~Miss(r) /\ ~Flush(r) /\ ~Refused(r) /\ ~Die(r)
  <2>1. Start(r) => run'[r].phase = "select"
    BY <1>1, StartFacts
  <2>2. Reuse(r) => run'[r].phase = "select"
    BY <1>1, ReuseFacts, BecomesFacts
  <2>3. Miss(r) => run'[r].phase = "insert"
    BY <1>1, MissFacts, BecomesFacts
  <2>4. Flush(r) => run'[r].phase = "select"
    <3>1. Flush(r) => \E y : Becomes(r, y) /\ y.phase = "select"
      BY <1>1, FlushFacts
    <3> QED
      BY <1>1, <3>1, BecomesFacts
  <2>5. "failed" \in Phases
    BY DEF Phases
  <2>6. Refused(r) \/ Die(r) => run'[r].phase = "failed"
    BY <1>1, <2>5, EndFacts DEF Refused, Die
  <2> QED
    BY <1>2, <2>1, <2>2, <2>3, <2>4, <2>6
<1> QED
  BY <1>2, <1>3, <1>4 DEF Next, Step, Edit, Assign, Finished, vars

\* What a run commits for an item, with no edit since it started.
LEMMA CommitInstalls ==
  ASSUME SeedInv, NEW r \in Runners, Commit(r), edits = run[r].since,
         NEW i \in DOMAIN Script, Script[i].updates
  PROVE  AsScripted(Script[i], committed'[run[r].found[Script[i].name]])
<1>1. TypeOK /\ Looked(r) /\ PendingScripted(r) /\ SeesScripted(r)
  BY DEF SeedInv, RunnerInv
<1>2. /\ Running(r) /\ i \in 1..(run[r].at - 1)
      /\ committed' = Over(Flushed(r), committed)
  BY <1>1, ScriptFacts, SessionFacts DEF Commit, Running
<1> DEFINE id  == run[r].found[Script[i].name]
           old == Visible(r)[id]
           new == run[r].pending[id]
<1>3. id \in DOMAIN Visible(r) /\ id[1] = Script[i].name
  BY <1>1, <1>2, VisibleFacts DEF Looked
<1>4. /\ old.value = "demo" \/ (id \in DOMAIN run[r].pending /\ "value" \in DOMAIN new)
      /\ \/ LinksScripted(Script[i].name, old.links)
         \/ id \in DOMAIN run[r].pending /\ "links" \in DOMAIN new
  BY <1>1, <1>2 DEF SeesScripted
<1>5. id \in DOMAIN run[r].pending /\ "links" \in DOMAIN new
        => LinksScripted(Script[i].name, new["links"])
  BY <1>1, <1>3 DEF PendingScripted
<1> HIDE DEF id
<1>6. committed'[id].value = "demo" /\ LinksScripted(Script[i].name, committed'[id].links)
  BY <1>1, <1>2, <1>3, <1>4, <1>5, FlushedView
<1> QED
  BY <1>6 DEF AsScripted, LinksScripted, id

\* seed.py:461, for every script in order and any number of runs: what a run commits,
\* with no edit since it started, is what the script says.
THEOREM RunsInstall == Spec => SeedInstalls
<1>1. SeedInv /\ [Next]_vars
        => [\A r \in Runners : Commits(r) /\ edits = run[r].since =>
              \A i \in DOMAIN Script : Script[i].updates =>
                  AsScripted(Script[i], committed'[run[r].found[Script[i].name]])]_vars
  BY OnlyCommits, CommitInstalls
<1> QED
  BY <1>1, SeedInvariant, PTL DEF Spec, SeedInstalls
-----------------------------------------------------------------------------
(* Runs one after the other.                                               *)

\* Nobody has edited and no two runs have overlapped.
Serial == edits = 0 /\ \A q \in Runners : run[q].alone

\* A run has committed.
Done == \E p \in Runners : run[p].phase = "committed"

\* Every item is there, as the script says.
Installed(rows) ==
    \A i \in DOMAIN Script : \E x \in DOMAIN rows :
        /\ x[1] = Script[i].name
        /\ Script[i].updates =>
              rows[x].value = "demo" /\ Refers(rows, Script[i].links, rows[x].links)

\* The rows r looked up link to rows it looked up.
LinksFound(r) ==
    \A i \in 1..(run[r].at - 1) : Script[i].updates =>
        LET x     == run[r].found[Script[i].name]
            links == Ids(r, Script[i].links)
        IN  IF x \in DOMAIN run[r].pending /\ "links" \in DOMAIN run[r].pending[x]
            THEN run[r].pending[x]["links"] = links
            ELSE Visible(r)[x].links = links

\* A run of a serial history: on what an earlier run left it writes nothing.
SerialRun(r) ==
    /\ Tidy(Visible(r)) /\ LinksFound(r)
    /\ \A x \in DOMAIN run[r].pending : x[1] \in DOMAIN run[r].found
    /\ run[r].phase = "insert" => Matches(r) = {}
    /\ run[r].rerun <=> Done
    /\ run[r].rerun => DOMAIN run[r].own = {} /\ DOMAIN run[r].pending = {}

\* What the runs know of overlaps.
Flags ==
    /\ \A r \in Runners : run[r].phase = "ready" => run[r].alone
    /\ \A q, r \in Runners : q # r /\ Running(q) /\ Running(r) => ~run[q].alone

\* A serial history: after its first commit everything is installed.
SerialInv ==
    Serial => /\ Tidy(committed)
              /\ Done => Installed(committed)
              /\ \A r \in Runners : Running(r) => SerialRun(r)

RerunInv == SeedInv /\ Flags /\ SerialInv

\* Where a name is there once, references by name are references.
LEMMA SameRows ==
  ASSUME NEW rows, NamedOnce(rows), NEW names, NEW A, NEW B,
         Refers(rows, names, A), Refers(rows, names, B)
  PROVE  A = B
BY DEF NamedOnce, Refers

\* Rows stay tidy when their parents stay.
LEMMA TidySame ==
  ASSUME NEW rows, NEW more, DOMAIN more = DOMAIN rows,
         \A x \in DOMAIN rows : more[x].by = rows[x].by, Tidy(rows)
  PROVE  Tidy(more)
BY DEF Tidy, NamedOnce, Refers

\* One more row, of an item that had none, keeps them tidy.
LEMMA TidyMore ==
  ASSUME NEW rows, NEW more, NEW id, DOMAIN more = DOMAIN rows \union {id},
         \A x \in DOMAIN rows : x # id => more[x].by = rows[x].by, Tidy(rows),
         \A x \in DOMAIN rows : x[1] # id[1],
         \A i \in DOMAIN Script : id[1] = Script[i].name => Refers(more, Script[i].by, more[id].by)
  PROVE  Tidy(more)
<1>1. NamedOnce(more)
  BY DEF Tidy, NamedOnce
<1>2. ASSUME NEW i \in DOMAIN Script, NEW x \in DOMAIN more, x[1] = Script[i].name
      PROVE  Refers(more, Script[i].by, more[x].by)
  BY <1>2 DEF Tidy, Refers
<1> QED
  BY <1>1, <1>2 DEF Tidy

\* A run that has flushed nothing sees what is committed.
LEMMA NoOwnRows ==
  ASSUME TypeOK, NEW r \in Runners, DOMAIN run[r].own = {}
  PROVE  Visible(r) = committed
<1>1. committed = [x \in DOMAIN committed |-> committed[x]]
  BY PartFacts DEF TypeOK
<1> QED
  BY <1>1 DEF Visible, Over

\* The rows the item in hand refers to are rows r sees.
LEMMA IdsVisible ==
  ASSUME TypeOK, NEW r \in Runners, Running(r), Looked(r), run[r].at \in DOMAIN Script,
         NEW names \in {Item(r).by, Item(r).links}
  PROVE  Refers(Visible(r), names, Ids(r, names))
<1>1. names \subseteq DOMAIN run[r].found
  <2>1. \A n \in Script[run[r].at].by \union Script[run[r].at].links :
          \E j \in 1..(run[r].at - 1) : Script[j].name = n
    BY ScriptFacts
  <2> QED
    BY <2>1 DEF Looked, Item
<1>2. \A n \in names : run[r].found[n] \in DOMAIN Visible(r)
  BY <1>1, VisibleFacts DEF Looked
<1>3. {x[1] : x \in Ids(r, names)} = names
  BY ItemFacts
<1> QED
  BY <1>2, <1>3 DEF Refers, Ids

\* Among tidy rows the lookup finds every row of the item's name.
LEMMA TidyMatch ==
  ASSUME TypeOK, NEW r \in Runners, Running(r), Looked(r), run[r].at \in DOMAIN Script,
         Tidy(Visible(r)), NEW x \in DOMAIN Visible(r), x[1] = Item(r).name
  PROVE  x \in Matches(r)
<1>1. Refers(Visible(r), Item(r).by, Visible(r)[x].by) /\ NamedOnce(Visible(r))
  BY DEF Tidy, Item
<1>2. Refers(Visible(r), Item(r).by, Ids(r, Item(r).by))
  BY IdsVisible
<1>3. Visible(r)[x].by = Ids(r, Item(r).by)
  BY <1>1, <1>2, SameRows
<1> QED
  BY <1>3 DEF Matches

\* What was looked up before stays looked up.
LEMMA IdsStay ==
  ASSUME NEW r \in Runners, NEW names \in SUBSET DOMAIN run[r].found,
         \A n \in DOMAIN run[r].found : run'[r].found[n] = run[r].found[n]
  PROVE  Ids(r, names)' = Ids(r, names)
BY DEF Ids

\* A running session in a serial state is alone: the others have written nothing.
LEMMA AloneRunning ==
  ASSUME SeedInv, Flags, Serial, NEW r \in Runners, Running(r), NEW q \in Runners, q # r
  PROVE  ~Running(q) /\ DOMAIN run[q].own = {}
BY DEF SeedInv, RunnerInv, Session, Flags, Serial

\* A rerun finds every item as the script says.
LEMMA RerunFinds ==
  ASSUME RerunInv, Serial, NEW r \in Runners, Running(r), run[r].rerun,
         run[r].at \in DOMAIN Script
  PROVE  /\ Matches(r) # {}
         /\ \A id \in Matches(r) : Item(r).updates => DOMAIN Changes(r, Visible(r)[id]) = {}
<1>1. TypeOK /\ Looked(r) /\ SerialRun(r) /\ Tidy(committed) /\ Installed(committed)
  BY DEF RerunInv, SeedInv, RunnerInv, SerialInv, SerialRun
<1>2. Visible(r) = committed
  BY <1>1, NoOwnRows DEF SerialRun
<1>3. PICK x \in DOMAIN committed :
        /\ x[1] = Item(r).name
        /\ Item(r).updates =>
              committed[x].value = "demo" /\ Refers(committed, Item(r).links, committed[x].links)
  BY <1>1 DEF Installed, Item
<1>4. x \in Matches(r)
  BY <1>1, <1>2, <1>3, TidyMatch
<1>5. ASSUME NEW id \in Matches(r), Item(r).updates
      PROVE  DOMAIN Changes(r, Visible(r)[id]) = {}
  <2>1. id = x
    BY <1>1, <1>2, <1>3, <1>5 DEF Matches, Tidy, NamedOnce
  <2>2. committed[x].links = Ids(r, Item(r).links)
    <3>1. Refers(committed, Item(r).links, Ids(r, Item(r).links))
      BY <1>1, <1>2, IdsVisible
    <3>2. Refers(committed, Item(r).links, committed[x].links) /\ NamedOnce(committed)
      BY <1>1, <1>3, <1>5 DEF Tidy
    <3> QED
      BY <3>1, <3>2, SameRows
  <2>3. committed[x] \in Rows
    BY <1>1, PartFacts DEF TypeOK
  <2>4. /\ "value" \notin DOMAIN Changes(r, committed[x])
        /\ "links" \notin DOMAIN Changes(r, committed[x])
        /\ Changes(r, committed[x]) \in Overwritten
    BY <1>1, <1>3, <1>5, <2>2, <2>3, ChangesFacts
  <2>5. DOMAIN Changes(r, committed[x]) \subseteq Fields
    BY <2>4, PartFacts DEF Overwritten
  <2> QED
    BY <1>2, <2>1, <2>4, <2>5 DEF Fields
<1> QED
  BY <1>4, <1>5

\* Reuse: on what an earlier run left, nothing differs from the script.
LEMMA ReuseSerial ==
  ASSUME RerunInv, Serial, NEW r \in Runners, Reuse(r), Done' = Done
  PROVE  SerialRun(r)'
<1>1. TypeOK /\ Looked(r) /\ Running(r) /\ SerialRun(r) /\ run[r].at \in DOMAIN Script
      /\ run[r].at \in Nat /\ committed' = committed
  BY ReuseFacts, SessionFacts DEF RerunInv, SeedInv, RunnerInv, SerialInv
<1>2. PICK id \in DOMAIN Visible(r) : \E y :
        LET changes == Changes(r, Visible(r)[id])
        IN  /\ Becomes(r, y) /\ id[1] = Item(r).name
            /\ y.at = run[r].at + 1 /\ y.phase = "select"
            /\ y.found = Put(Item(r).name, id, run[r].found)
            /\ y.own = run[r].own /\ y.since = run[r].since
            /\ y.alone = run[r].alone /\ y.rerun = run[r].rerun
            /\ y.pending = IF Item(r).updates /\ DOMAIN changes # {}
                           THEN Put(id, changes, run[r].pending) ELSE run[r].pending
  BY <1>1, ReuseFacts
<1> DEFINE name == Item(r).name
           i == run[r].at
           changes == Changes(r, Visible(r)[id])
           f == Put(name, id, run[r].found)
           p == IF Item(r).updates /\ DOMAIN changes # {}
                THEN Put(id, changes, run[r].pending) ELSE run[r].pending
<1>3. /\ id[1] = name
      /\ run'[r].at = i + 1 /\ run'[r].phase = "select" /\ run'[r].found = f
      /\ run'[r].own = run[r].own /\ run'[r].pending = p /\ run'[r].rerun = run[r].rerun
  BY <1>1, <1>2, BecomesFacts
<1>4. Visible(r)' = Visible(r)
  BY <1>1, <1>3 DEF Visible
<1>5. id \in Matches(r)
  BY <1>1, <1>2, <1>3, TidyMatch DEF SerialRun
<1>6. run[r].rerun => p = run[r].pending
  BY <1>1, <1>5, RerunFinds
<1>7. /\ name = Script[i].name /\ Item(r).updates = Script[i].updates
      /\ name \notin DOMAIN run[r].found
      /\ DOMAIN run[r].found = {Script[j].name : j \in 1..(i - 1)}
  BY <1>1, ItemFacts DEF Item, Looked
<1>8. /\ Visible(r)[id] \in Rows
      /\ "links" \in DOMAIN changes <=> Visible(r)[id].links # Ids(r, Item(r).links)
      /\ "links" \in DOMAIN changes => changes["links"] = Ids(r, Item(r).links)
  BY <1>1, <1>2, VisibleFacts, ChangesFacts
<1> HIDE DEF name, changes
<1>9. f[name] = id /\ \A n \in DOMAIN run[r].found : f[n] = run[r].found[n]
  BY <1>7 DEF Put, Over
<1>10. /\ \A x : x # id => /\ x \in DOMAIN p <=> x \in DOMAIN run[r].pending
                           /\ x \in DOMAIN p => p[x] = run[r].pending[x]
       /\ Item(r).updates /\ DOMAIN changes # {} => id \in DOMAIN p /\ p[id] = changes
       /\ ~(Item(r).updates /\ DOMAIN changes # {}) => p = run[r].pending
  <2> DEFINE g == Put(id, changes, run[r].pending)
  <2>1. /\ DOMAIN g = DOMAIN run[r].pending \union {id} /\ g[id] = changes
        /\ \A x \in DOMAIN run[r].pending : x # id => g[x] = run[r].pending[x]
    BY DEF Put, Over
  <2> HIDE DEF g
  <2>2. p = g \/ p = run[r].pending
    BY DEF g
  <2>3. Item(r).updates /\ DOMAIN changes # {} => p = g
    BY DEF g
  <2> QED
    BY <2>1, <2>2, <2>3
<1>11. /\ id \notin DOMAIN run[r].pending
       /\ \A x \in DOMAIN p : x[1] \in DOMAIN f
  <2>1. \A x \in DOMAIN run[r].pending : x[1] \in DOMAIN run[r].found
    BY <1>1 DEF SerialRun
  <2>2. DOMAIN f = DOMAIN run[r].found \union {name}
    BY DEF Put, Over
  <2>3. id \notin DOMAIN run[r].pending
    BY <1>3, <1>7, <2>1
  <2> HIDE DEF f, p
  <2>4. \A x \in DOMAIN p : x = id \/ x \in DOMAIN run[r].pending
    BY <1>10
  <2> QED
    BY <1>3, <2>1, <2>2, <2>3, <2>4
<1> HIDE DEF f, p
<1>12. LinksFound(r)'
  <2>1. /\ DOMAIN Script = 1..Len(Script) /\ Len(Script) \in Nat
        /\ 1..((i + 1) - 1) = 1..(i - 1) \union {i}
    BY <1>1, ScriptFacts
  <2>2. ASSUME NEW j \in 1..(i - 1) \union {i}
        PROVE  Ids(r, Script[j].links)' = Ids(r, Script[j].links)
    <3>1. Script[j].links \subseteq DOMAIN run[r].found
      <4>1. j \in DOMAIN Script /\ j <= i /\ j \in Nat
        BY <1>1, <2>1
      <4>2. \A n \in Script[j].links : \E k \in 1..(j - 1) : Script[k].name = n
        BY <4>1, ScriptFacts
      <4>3. \A k \in 1..(j - 1) : k \in 1..(i - 1)
        BY <1>1, <4>1
      <4> QED
        BY <1>7, <4>2, <4>3
    <3> QED
      BY <1>3, <1>9, <3>1, IdsStay
  <2> SUFFICES ASSUME NEW j \in 1..(i - 1) \union {i}, Script[j].updates
               PROVE  LET x     == f[Script[j].name]
                          links == Ids(r, Script[j].links)
                      IN  IF x \in DOMAIN p /\ "links" \in DOMAIN p[x]
                          THEN p[x]["links"] = links
                          ELSE Visible(r)[x].links = links
    BY <1>3, <1>4, <2>1, <2>2 DEF LinksFound
  <2>3. CASE j = i
    <3>1. f[Script[j].name] = id /\ Item(r).updates /\ Item(r).links = Script[j].links
      BY <1>7, <1>9, <2>3 DEF Item
    <3>2. CASE DOMAIN changes # {}
      BY <1>8, <1>10, <3>1, <3>2
    <3>3. CASE DOMAIN changes = {}
      BY <1>8, <1>10, <1>11, <3>1, <3>3
    <3> QED
      BY <3>2, <3>3
  <2>4. CASE j \in 1..(i - 1)
    <3>1. Script[j].name \in DOMAIN run[r].found /\ Script[j].name # name
      BY <1>7, <2>4
    <3> DEFINE x == run[r].found[Script[j].name]
    <3>2. f[Script[j].name] = x /\ x # id
      BY <1>1, <1>3, <1>9, <3>1 DEF Looked
    <3>3. /\ x \in DOMAIN p <=> x \in DOMAIN run[r].pending
          /\ x \in DOMAIN p => p[x] = run[r].pending[x]
      BY <1>10, <3>2, SMTT(30)
    <3>4. IF x \in DOMAIN run[r].pending /\ "links" \in DOMAIN run[r].pending[x]
          THEN run[r].pending[x]["links"] = Ids(r, Script[j].links)
          ELSE Visible(r)[x].links = Ids(r, Script[j].links)
      BY <1>1, <2>4 DEF SerialRun, LinksFound
    <3> HIDE DEF x
    <3> QED
      BY <3>2, <3>3, <3>4
  <2> QED
    BY <2>3, <2>4
<1> QED
  BY <1>1, <1>3, <1>4, <1>6, <1>11, <1>12 DEF SerialRun

\* Miss: on what an earlier run left, nothing is missing.
LEMMA MissSerial ==
  ASSUME RerunInv, Serial, NEW r \in Runners, Miss(r), Done' = Done
  PROVE  SerialRun(r)'
<1>1. TypeOK /\ Looked(r) /\ Running(r) /\ SerialRun(r) /\ committed' = committed
      /\ run[r].phase = "select"
      /\ run[r].at \in DOMAIN Script /\ Matches(r) = {}
  BY MissFacts DEF RerunInv, SeedInv, RunnerInv, SerialInv, Miss
<1>2. /\ run'[r].at = run[r].at /\ run'[r].found = run[r].found
      /\ run'[r].pending = run[r].pending /\ run'[r].own = run[r].own
      /\ run'[r].rerun = run[r].rerun
  BY <1>1, MissFacts, BecomesFacts
<1>3. Visible(r)' = Visible(r) /\ \A names : Ids(r, names)' = Ids(r, names)
  BY <1>1, <1>2 DEF Visible, Ids
<1>4. LinksFound(r)'
  BY <1>1, <1>2, <1>3 DEF SerialRun, LinksFound
<1>5. Matches(r)' = {}
  BY <1>1, <1>2, <1>3 DEF Matches, Item
<1> QED
  BY <1>1, <1>2, <1>3, <1>4, <1>5 DEF SerialRun

\* Flush: it happens only in the first run that commits, and keeps rows tidy.
LEMMA FlushSerial ==
  ASSUME RerunInv, Serial, NEW r \in Runners, Flush(r), Done' = Done
  PROVE  SerialRun(r)'
<1>1. /\ TypeOK /\ Looked(r) /\ PendingScripted(r) /\ Running(r) /\ SerialRun(r)
      /\ committed' = committed /\ run[r].phase = "insert"
      /\ run[r].at \in DOMAIN Script /\ run[r].at \in Nat
  BY FlushFacts, SessionFacts DEF RerunInv, SeedInv, RunnerInv, SerialInv, Flush
<1>2. PICK row \in Rows : \E y :
        /\ row.value = "demo" /\ row.links = Ids(r, Item(r).links)
        /\ row.by = Ids(r, Item(r).by)
        /\ Becomes(r, y) /\ y.at = run[r].at + 1 /\ y.phase = "select"
        /\ y.found = Put(Item(r).name, <<Item(r).name, r>>, run[r].found)
        /\ y.own = Put(<<Item(r).name, r>>, row, Flushed(r)) /\ y.pending = <<>>
        /\ y.since = run[r].since
        /\ y.alone = run[r].alone /\ y.rerun = run[r].rerun
  BY <1>1, FlushFacts
<1> DEFINE name == Item(r).name
           id == <<name, r>>
           i == run[r].at
           f == Put(name, id, run[r].found)
           o == Put(id, row, Flushed(r))
           view == Over(Flushed(r), committed)
<1>3. /\ row.links = Ids(r, Item(r).links) /\ row.by = Ids(r, Item(r).by)
      /\ run'[r].at = i + 1 /\ run'[r].phase = "select" /\ run'[r].found = f
      /\ run'[r].own = o /\ run'[r].pending = <<>> /\ run'[r].rerun = run[r].rerun
  BY <1>1, <1>2, BecomesFacts
<1>4. ~run[r].rerun /\ \A x \in DOMAIN Visible(r) : x[1] # name
  BY <1>1, RerunFinds, TidyMatch DEF SerialRun
<1>5. /\ name = Script[i].name /\ Item(r).links = Script[i].links /\ Item(r).by = Script[i].by
      /\ name \notin DOMAIN run[r].found /\ id[1] = name /\ DOMAIN <<>> = {}
      /\ DOMAIN run[r].found = {Script[j].name : j \in 1..(i - 1)}
  BY <1>1, ItemFacts, SMTT(30) DEF Item, Looked
<1>6. Refers(Visible(r), Item(r).by, row.by)
  BY <1>1, <1>3, IdsVisible
<1> HIDE DEF name, id
<1>7. f[name] = id /\ \A n \in DOMAIN run[r].found : f[n] = run[r].found[n]
  BY <1>5 DEF Put, Over
<1>8. /\ DOMAIN Over(o, committed) = DOMAIN view \union {id}
      /\ Over(o, committed)[id] = row
      /\ \A x \in DOMAIN view : x # id => Over(o, committed)[x] = view[x]
  BY DEF Put, Over
<1>9. Visible(r)' = Over(o, committed)
  BY <1>1, <1>3 DEF Visible
<1>10. /\ DOMAIN view = DOMAIN Visible(r)
       /\ \A x \in DOMAIN Visible(r) :
             /\ view[x].by = Visible(r)[x].by
             /\ view[x].links =
                  IF x \in DOMAIN run[r].pending /\ "links" \in DOMAIN run[r].pending[x]
                  THEN run[r].pending[x]["links"] ELSE Visible(r)[x].links
  BY <1>1, FlushedView
<1> DEFINE next == Over(o, committed)
<1> HIDE DEF i, f, o, view, next
<1>11. /\ DOMAIN next = DOMAIN Visible(r) \union {id} /\ next[id] = row
       /\ \A x \in DOMAIN Visible(r) : x # id /\ next[x] = view[x]
  BY <1>4, <1>5, <1>8, <1>10 DEF next
<1>12. Tidy(next)
  <2>1. \A x \in DOMAIN Visible(r) : x # id => next[x].by = Visible(r)[x].by
    BY <1>10, <1>11
  <2>2. ASSUME NEW j \in DOMAIN Script, id[1] = Script[j].name
        PROVE  Refers(next, Script[j].by, next[id].by)
    <3>1. j = i
      <4>1. \A k, l \in DOMAIN Script : Script[k].name = Script[l].name => k = l
        BY ScriptFacts
      <4> QED
        BY <1>1, <1>5, <2>2, <4>1 DEF i
    <3> QED
      BY <1>5, <1>6, <1>11, <3>1 DEF Refers
  <2>3. Tidy(Visible(r)) /\ \A x \in DOMAIN Visible(r) : x[1] # id[1]
    BY <1>1, <1>4, <1>5 DEF SerialRun
  <2> QED
    BY <1>11, <2>1, <2>2, <2>3, TidyMore
<1>13. LinksFound(r)'
  <2>1. /\ DOMAIN Script = 1..Len(Script) /\ Len(Script) \in Nat
        /\ 1..((i + 1) - 1) = 1..(i - 1) \union {i}
    BY <1>1, ScriptFacts DEF i
  <2>2. ASSUME NEW j \in 1..(i - 1) \union {i}
        PROVE  Ids(r, Script[j].links)' = Ids(r, Script[j].links)
    <3>1. Script[j].links \subseteq DOMAIN run[r].found
      <4>1. j \in DOMAIN Script /\ j <= i /\ j \in Nat
        BY <1>1, <2>1 DEF i
      <4>2. \A n \in Script[j].links : \E k \in 1..(j - 1) : Script[k].name = n
        BY <4>1, ScriptFacts
      <4>3. \A k \in 1..(j - 1) : k \in 1..(i - 1)
        BY <1>1, <4>1 DEF i
      <4> QED
        BY <1>5, <4>2, <4>3
    <3> QED
      BY <1>3, <1>7, <3>1, IdsStay
  <2> SUFFICES ASSUME NEW j \in 1..(i - 1) \union {i}, Script[j].updates
               PROVE  next[f[Script[j].name]].links = Ids(r, Script[j].links)
    BY <1>3, <1>5, <1>9, <2>1, <2>2 DEF LinksFound, next
  <2>3. CASE j = i
    BY <1>3, <1>5, <1>7, <1>11, <2>3
  <2>4. CASE j \in 1..(i - 1)
    <3>1. Script[j].name \in DOMAIN run[r].found
      BY <1>5, <2>4
    <3> DEFINE x == run[r].found[Script[j].name]
    <3>2. f[Script[j].name] = x /\ x \in DOMAIN Visible(r)
      BY <1>1, <1>7, <3>1, VisibleFacts DEF Looked
    <3>3. IF x \in DOMAIN run[r].pending /\ "links" \in DOMAIN run[r].pending[x]
          THEN run[r].pending[x]["links"] = Ids(r, Script[j].links)
          ELSE Visible(r)[x].links = Ids(r, Script[j].links)
      BY <1>1, <2>4 DEF SerialRun, LinksFound, i
    <3> HIDE DEF x
    <3> QED
      BY <1>10, <1>11, <3>2, <3>3
  <2> QED
    BY <2>3, <2>4
<1> QED
  BY <1>1, <1>3, <1>4, <1>5, <1>9, <1>12, <1>13 DEF SerialRun, next

\* What the first of several runs commits, the next finds installed.
LEMMA CommitSerial ==
  ASSUME RerunInv, Serial, NEW r \in Runners, Commit(r)
  PROVE  Tidy(committed)' /\ Installed(committed)'
<1>1. /\ TypeOK /\ Looked(r) /\ PendingScripted(r) /\ SerialRun(r) /\ Running(r)
      /\ run[r].at \in Nat /\ run[r].at > Len(Script)
      /\ committed' = Over(Flushed(r), committed)
  BY SessionFacts DEF RerunInv, SeedInv, RunnerInv, SerialInv, Commit, Running
<1>2. edits = run[r].since
  BY SessionFacts DEF RerunInv, SeedInv, RunnerInv, Session, Serial, TypeOK
<1>3. /\ DOMAIN committed' = DOMAIN Visible(r)
      /\ \A x \in DOMAIN Visible(r) :
            /\ committed'[x].by = Visible(r)[x].by
            /\ committed'[x].links =
                 IF x \in DOMAIN run[r].pending /\ "links" \in DOMAIN run[r].pending[x]
                 THEN run[r].pending[x]["links"] ELSE Visible(r)[x].links
  BY <1>1, FlushedView
<1>4. Tidy(committed)'
  BY <1>1, <1>3, TidySame DEF SerialRun
<1>5. ASSUME NEW i \in DOMAIN Script
      PROVE  \E x \in DOMAIN committed' :
               /\ x[1] = Script[i].name
               /\ Script[i].updates => /\ committed'[x].value = "demo"
                                       /\ Refers(committed', Script[i].links, committed'[x].links)
  <2> DEFINE x == run[r].found[Script[i].name]
  <2>1. i \in 1..(run[r].at - 1)
    BY <1>1, ScriptFacts
  <2>2. x \in DOMAIN committed' /\ x[1] = Script[i].name
    BY <1>1, <1>3, <2>1, VisibleFacts DEF Looked
  <2>3. ASSUME Script[i].updates
        PROVE  /\ committed'[x].value = "demo"
               /\ Refers(committed', Script[i].links, committed'[x].links)
    <3>1. AsScripted(Script[i], committed'[x])
      BY <1>2, <2>3, CommitInstalls DEF RerunInv
    <3>2. committed'[x].links = Ids(r, Script[i].links)
      BY <1>1, <1>3, <2>1, <2>2, <2>3 DEF SerialRun, LinksFound
    <3>3. \A n \in Script[i].links : n \in DOMAIN run[r].found
      <4>1. \A n \in Script[i].links : \E j \in 1..(i - 1) : Script[j].name = n
        BY ScriptFacts
      <4>2. \A j \in 1..(i - 1) : j \in 1..(run[r].at - 1)
        BY <1>1, <2>1
      <4> QED
        BY <1>1, <4>1, <4>2 DEF Looked
    <3>4. Ids(r, Script[i].links) \subseteq DOMAIN committed'
      <4>1. \A n \in Script[i].links : run[r].found[n] \in DOMAIN committed'
        BY <1>1, <1>3, <3>3, VisibleFacts DEF Looked
      <4> QED
        BY <4>1 DEF Ids
    <3> QED
      BY <3>1, <3>2, <3>4 DEF AsScripted, Refers
  <2> QED
    BY <2>2, <2>3
<1> QED
  BY <1>4, <1>5 DEF Installed

\* Start: a run is a rerun when one has committed.
LEMMA StartSerial ==
  ASSUME RerunInv, Serial, NEW r \in Runners, Start(r), Done' = Done
  PROVE  SerialRun(r)'
<1>1. TypeOK /\ Session(r) /\ Tidy(committed)
  BY DEF RerunInv, SeedInv, RunnerInv, SerialInv
<1>2. /\ run'[r].at = 1 /\ run'[r].phase = "select" /\ run'[r].own = <<>>
      /\ run'[r].pending = <<>> /\ committed' = committed
      /\ run'[r].rerun = (edits = 0 /\ Done)
  BY <1>1, StartFacts DEF Done
<1>3. DOMAIN <<>> = {} /\ committed = [x \in DOMAIN committed |-> committed[x]]
  BY <1>1, PartFacts DEF TypeOK
<1>4. Visible(r)' = committed
  BY <1>2, <1>3 DEF Visible, Over
<1>5. LinksFound(r)'
  BY <1>2 DEF LinksFound
<1>6. run'[r].rerun <=> Done
  BY <1>2 DEF Serial
<1> QED
  BY <1>1, <1>2, <1>3, <1>4, <1>5, <1>6 DEF SerialRun

\* A step of a running session keeps what the others know of overlaps.
LEMMA FlagsStay ==
  ASSUME TypeOK, Flags, NEW r \in Runners, Running(r), NEW y, Becomes(r, y),
         y.alone = run[r].alone, y.phase # "ready"
  PROVE  Flags' /\ (Serial' /\ edits' = edits => Serial)
<1>1. run'[r] = y /\ \A q \in Runners : q # r => run'[q] = run[q]
  BY BecomesFacts
<1>2. \A q \in Runners : run'[q].alone = run[q].alone
  BY <1>1
<1>3. \A q \in Runners : Running(q)' => Running(q)
  BY <1>1 DEF Running
<1>4. \A q \in Runners : run'[q].phase = "ready" => run[q].phase = "ready"
  BY <1>1
<1> QED
  BY <1>2, <1>3, <1>4 DEF Flags, Serial

\* Every step keeps the invariant of serial histories.
LEMMA RerunNext ==
  ASSUME RerunInv, [Next]_vars
  PROVE  RerunInv'
<1>1. /\ SeedInv /\ SeedInv' /\ Flags /\ SerialInv /\ TypeOK
      /\ \A q \in Runners : Looked(q) /\ PendingScripted(q)
  BY SeedNext DEF RerunInv, SeedInv, RunnerInv
<1>2. ASSUME NEW r \in Runners, Running(r), NEW y, Becomes(r, y), y.alone = run[r].alone,
             y.phase # "ready", edits' = edits,
             Serial => /\ Tidy(committed)'
                       /\ Done' => Installed(committed)'
                       /\ Running(r)' => SerialRun(r)'
      PROVE  RerunInv'
  <2>1. Flags' /\ (Serial' => Serial)
    BY <1>1, <1>2, FlagsStay
  <2>2. \A q \in Runners : q # r /\ Serial => ~Running(q)'
    <3>1. \A q \in Runners : q # r => run'[q] = run[q]
      BY <1>1, <1>2, BecomesFacts
    <3>2. \A q \in Runners : q # r /\ Serial => ~Running(q)
      BY <1>1, <1>2, AloneRunning
    <3> QED
      BY <3>1, <3>2 DEF Running
  <2>3. Serial' => \A q \in Runners : Running(q)' => q = r /\ SerialRun(q)'
    BY <1>2, <2>1, <2>2
  <2>4. Serial' => Tidy(committed)' /\ (Done' => Installed(committed)')
    BY <1>2, <2>1
  <2>5. SerialInv'
    BY <2>3, <2>4 DEF SerialInv
  <2> QED
    BY <1>1, <2>1, <2>5 DEF RerunInv
<1>3. ASSUME NEW r \in Runners, Running(r), NEW y, Becomes(r, y), y.phase # "committed"
      PROVE  Done' = Done
  <2>1. run'[r] = y /\ \A q \in Runners : q # r => run'[q] = run[q]
    BY <1>1, <1>3, BecomesFacts
  <2> QED
    BY <1>3, <2>1 DEF Done, Running
<1>4. ASSUME NEW r \in Runners, Reuse(r)
      PROVE  RerunInv'
  <2>1. PICK y : /\ Becomes(r, y) /\ y.alone = run[r].alone /\ y.phase = "select"
                 /\ Running(r) /\ committed' = committed /\ edits' = edits
    BY <1>1, <1>4, ReuseFacts
  <2>2. Done' = Done
    BY <1>3, <2>1
  <2>3. Serial => SerialRun(r)'
    BY <1>4, <2>2, ReuseSerial
  <2>4. Serial => Tidy(committed)' /\ (Done' => Installed(committed)')
    BY <1>1, <2>1, <2>2 DEF SerialInv
  <2> QED
    BY <1>2, <2>1, <2>3, <2>4
<1>5. ASSUME NEW r \in Runners, Miss(r)
      PROVE  RerunInv'
  <2>1. PICK y : /\ Becomes(r, y) /\ y.alone = run[r].alone /\ y.phase = "insert"
                 /\ Running(r) /\ committed' = committed /\ edits' = edits
    BY <1>1, <1>5, MissFacts
  <2>2. Done' = Done
    BY <1>3, <2>1
  <2>3. Serial => SerialRun(r)'
    BY <1>5, <2>2, MissSerial
  <2>4. Serial => Tidy(committed)' /\ (Done' => Installed(committed)')
    BY <1>1, <2>1, <2>2 DEF SerialInv
  <2> QED
    BY <1>2, <2>1, <2>3, <2>4
<1>6. ASSUME NEW r \in Runners, Flush(r)
      PROVE  RerunInv'
  <2>1. PICK y : /\ Becomes(r, y) /\ y.alone = run[r].alone /\ y.phase = "select"
                 /\ Running(r) /\ committed' = committed /\ edits' = edits
    BY <1>1, <1>6, FlushFacts
  <2>2. Done' = Done
    BY <1>3, <2>1
  <2>3. Serial => SerialRun(r)'
    BY <1>6, <2>2, FlushSerial
  <2>4. Serial => Tidy(committed)' /\ (Done' => Installed(committed)')
    BY <1>1, <2>1, <2>2 DEF SerialInv
  <2> QED
    BY <1>2, <2>1, <2>3, <2>4
<1>7. ASSUME NEW r \in Runners, Refused(r) \/ Die(r)
      PROVE  RerunInv'
  <2>1. /\ run' = [run EXCEPT ![r] = Ended(r, "failed")] /\ Running(r)
        /\ committed' = committed /\ edits' = edits /\ "failed" \in Phases
    BY <1>7 DEF Refused, Die, Running, Phases
  <2>2. Becomes(r, run'[r]) /\ run'[r].phase = "failed" /\ run'[r].alone = run[r].alone
    BY <1>1, <2>1, EndFacts
  <2>3. Done' = Done
    BY <1>3, <2>1, <2>2
  <2>4. Serial => Tidy(committed)' /\ (Done' => Installed(committed)')
    BY <1>1, <2>1, <2>3 DEF SerialInv
  <2>5. ~Running(r)'
    BY <2>2 DEF Running
  <2> QED
    BY <1>2, <2>1, <2>2, <2>4, <2>5
<1>8. ASSUME NEW r \in Runners, Commit(r)
      PROVE  RerunInv'
  <2>1. /\ run' = [run EXCEPT ![r] = Ended(r, "committed")] /\ Running(r)
        /\ edits' = edits /\ "committed" \in Phases
    BY <1>8 DEF Commit, Running, Phases
  <2>2. Becomes(r, run'[r]) /\ run'[r].phase = "committed" /\ run'[r].alone = run[r].alone
    BY <1>1, <2>1, EndFacts
  <2>3. Serial => Tidy(committed)' /\ Installed(committed)'
    BY <1>8, CommitSerial
  <2>4. ~Running(r)'
    BY <2>2 DEF Running
  <2> QED
    BY <1>2, <2>1, <2>2, <2>3, <2>4
<1>9. ASSUME NEW r \in Runners, Start(r)
      PROVE  RerunInv'
  <2>1. /\ ~Running(r) /\ run[r].phase = "ready" /\ committed' = committed /\ edits' = edits
        /\ run'[r].phase = "select"
        /\ run'[r].alone = \A q \in Runners : q # r => ~Running(q)
        /\ \A q \in Runners : q # r =>
              /\ SameSession(q) /\ run'[q].alone = IF Running(q) THEN FALSE ELSE run[q].alone
    BY <1>1, <1>9, StartFacts
  <2>2. \A q \in Runners : q # r => run'[q].phase = run[q].phase /\ Running(q)' = Running(q)
    BY <2>1 DEF SameSession, Running
  <2>3. Flags'
    <3>1. \A q \in Runners : run'[q].phase = "ready" => run'[q].alone
      <4>1. ASSUME NEW q \in Runners, q # r, run'[q].phase = "ready"
            PROVE  run'[q].alone
        <5>1. ~Running(q) /\ run[q].phase = "ready" /\ run[q].alone
          BY <1>1, <2>2, <4>1 DEF Flags, Running
        <5> QED
          BY <2>1, <4>1, <5>1
      <4> QED
        BY <2>1, <4>1
    <3>2. ASSUME NEW q \in Runners, NEW p \in Runners, q # p, Running(q)', Running(p)'
          PROVE  ~run'[q].alone
      <4>1. CASE q = r
        <5>1. p # r /\ Running(p)
          BY <2>2, <3>2, <4>1
        <5> QED
          BY <2>1, <4>1, <5>1
      <4>2. CASE q # r
        <5>1. Running(q)
          BY <2>2, <3>2, <4>2
        <5> QED
          BY <2>1, <4>2, <5>1
      <4> QED
        BY <4>1, <4>2
    <3> QED
      BY <3>1, <3>2 DEF Flags
  <2>4. Done' = Done
    BY <2>1, <2>2 DEF Done
  <2>5. Serial' => Serial /\ \A q \in Runners : q # r => ~Running(q)'
    BY <1>1, <2>1, <2>2 DEF Serial, Flags
  <2>6. Serial => SerialRun(r)'
    BY <1>9, <2>4, StartSerial
  <2>7. Serial => Tidy(committed)' /\ (Done' => Installed(committed)')
    BY <1>1, <2>1, <2>4 DEF SerialInv
  <2> QED
    BY <1>1, <2>3, <2>5, <2>6, <2>7 DEF RerunInv, SerialInv
<1>10. ASSUME Edit \/ Assign
       PROVE  RerunInv'
  <2>1. run' = run /\ edits' = edits + 1 /\ edits \in Nat
    BY <1>1, <1>10 DEF Edit, Assign, TypeOK
  <2>2. Flags' /\ ~Serial'
    BY <1>1, <2>1 DEF Flags, Running, Serial
  <2> QED
    BY <1>1, <2>2 DEF RerunInv, SerialInv
<1>11. ASSUME UNCHANGED vars
       PROVE  RerunInv'
  <2>1. run' = run /\ edits' = edits /\ committed' = committed
    BY <1>11 DEF vars
  <2>2. \A r \in Runners : Visible(r)' = Visible(r) /\ \A names : Ids(r, names)' = Ids(r, names)
    BY <2>1, SMTT(30) DEF Visible, Ids
  <2>3. \A r \in Runners : Matches(r)' = Matches(r) /\ LinksFound(r)' = LinksFound(r)
    BY <2>1, <2>2 DEF Matches, Item, LinksFound
  <2>4. Serial' = Serial /\ Done' = Done /\ \A r \in Runners : Running(r)' = Running(r)
    BY <2>1 DEF Serial, Done, Running
  <2>5. \A r \in Runners : SerialRun(r) => SerialRun(r)'
    BY <2>1, <2>2, <2>3, <2>4 DEF SerialRun
  <2> QED
    BY <1>1, <2>1, <2>4, <2>5 DEF RerunInv, SerialInv, Flags
<1> QED
  BY <1>4, <1>5, <1>6, <1>7, <1>8, <1>9, <1>10, <1>11 DEF Next, Step, Finished

\* It holds at first, when the rows found are tidy.
LEMMA RerunStart ==
  ASSUME \A rows \in Initial : Tidy(rows)
  PROVE  Init => RerunInv
<1> SUFFICES ASSUME Init
             PROVE  RerunInv
  OBVIOUS
<1>1. SeedInv /\ Tidy(committed)
  BY SeedStart DEF Init
<1>2. \A r \in Runners : run[r].phase = "ready" /\ run[r].alone
  BY DEF Init, Idle
<1>3. ~Done /\ \A r \in Runners : ~Running(r)
  BY <1>2 DEF Done, Running
<1> QED
  BY <1>1, <1>2, <1>3 DEF RerunInv, Flags, SerialInv

\* The invariant of seed.py's runs one after the other, from tidy rows.
THEOREM RerunInvariant ==
  ASSUME \A rows \in Initial : Tidy(rows)
  PROVE  Spec => []RerunInv
BY RerunStart, RerunNext, PTL DEF Spec

\* seed.py:461, "safe to run repeatedly", for every script in order and any number of
\* runs one after the other over rows that name an item once.
THEOREM RerunsChangeNothing ==
  ASSUME \A rows \in Initial : Tidy(rows)
  PROVE  Spec => RerunChangesNothing
<1>1. ASSUME RerunInv, [Next]_vars, NEW r \in Runners, Commits(r), run[r].rerun, edits = 0,
             \A q \in Runners : run[q].alone
      PROVE  committed' = committed
  <2>1. Commit(r) /\ Serial
    BY <1>1, OnlyCommits DEF RerunInv, Serial
  <2>2. /\ TypeOK /\ PendingScripted(r) /\ Running(r) /\ SerialRun(r)
        /\ committed' = Over(Flushed(r), committed)
    BY <1>1, <2>1 DEF RerunInv, SeedInv, RunnerInv, SerialInv, Commit, Running
  <2>3. DOMAIN Flushed(r) = {}
    BY <1>1, <2>2, FlushedFacts DEF SerialRun
  <2>4. committed = [x \in DOMAIN committed |-> committed[x]]
    BY <2>2, PartFacts DEF TypeOK
  <2> QED
    BY <2>2, <2>3, <2>4 DEF Over
<1>2. RerunInv /\ [Next]_vars
        => [\A r \in Runners :
              Commits(r) /\ run[r].rerun /\ edits = 0 /\ (\A q \in Runners : run[q].alone)
                  => committed' = committed]_vars
  BY <1>1
<1> QED
  BY <1>2, RerunInvariant, PTL DEF Spec, RerunChangesNothing
-----------------------------------------------------------------------------
(* What is there twice, when runs overlap.                                 *)

\* Is the item there?
Has(rows, name) == \E x \in DOMAIN rows : x[1] = name

\* Only departments, and the operator's assignments, are there twice.
Kempt(rows) ==
    /\ \A x, y \in DOMAIN rows :
          x[1] = y[1] /\ x # y =>
              /\ ~Firm(x[1])
              /\ x[1][1] = "departments" \/ Operator \in {x[2], y[2]}
    /\ \A i \in DOMAIN Script, x \in DOMAIN rows :
          x[1] = Script[i].name => Refers(rows, Script[i].by, rows[x].by)

\* A run before the first commit: what has flushed has flushed the k-th item
\* first; the others have not come past it, and have overwritten the j-th.
Ahead(r, k, j) ==
    /\ run[r].phase = "insert" => ~Has(Visible(r), Item(r).name)
    /\ Running(r) /\ DOMAIN run[r].own = {} =>
          /\ run[r].at <= k
          /\ k <= Len(Script) /\ ~Unique(Script[k].name) /\ j < run[r].at =>
                Has(run[r].pending, Script[j].name)
    /\ DOMAIN run[r].own # {} =>
          /\ k <= Len(Script) /\ Has(run[r].own, Script[k].name)
          /\ ~Unique(Script[k].name) =>
                \E x \in DOMAIN run[r].own : x \in DOMAIN committed /\ x[1] = Script[j].name

\* One of them at most has flushed anything.
Before(k, j) ==
    /\ Leads(committed, k, j)
    /\ \A r \in Runners : Ahead(r, k, j)
    /\ \A q, r \in Runners : q # r /\ DOMAIN run[r].own # {} => DOMAIN run[q].own = {}

\* A run after the first commit: what it adds is departments.
Behind(r) ==
    /\ \A x \in DOMAIN run[r].own : x \in DOMAIN committed \/ x[1][1] = "departments"
    /\ run[r].phase = "insert" => Item(r).name[1] = "departments" \/ Unique(Item(r).name)

\* After the first commit everything is there.
Afterwards ==
    /\ \A i \in DOMAIN Script : Has(committed, Script[i].name)
    /\ \A r \in Runners : Behind(r)

\* Kempt are the rows that are committed and those that each run sees.
KemptInv == Kempt(committed) /\ \A r \in Runners : Kempt(Visible(r))

\* The invariant: rows and runs, before and after the first commit.
OnceInv ==
    /\ SeedInv
    /\ KemptInv
    /\ Done => Afterwards
    /\ ~Done => \E k, j \in 1..(Len(Script) + 1) : Before(k, j)

\* Rows stay kempt when their parents stay.
LEMMA KemptSame ==
  ASSUME NEW rows, NEW more, DOMAIN more = DOMAIN rows,
         \A x \in DOMAIN rows : more[x].by = rows[x].by, Kempt(rows)
  PROVE  Kempt(more)
BY DEF Kempt, Refers

\* One more row keeps them kempt, if it may be there twice or is there once.
LEMMA KemptMore ==
  ASSUME NEW rows, NEW more, NEW id, DOMAIN more = DOMAIN rows \union {id},
         \A x \in DOMAIN rows : x # id => more[x].by = rows[x].by, Kempt(rows),
         \A x \in DOMAIN rows : x[1] = id[1] /\ x # id =>
             ~Firm(id[1]) /\ (id[1][1] = "departments" \/ id[2] = Operator),
         \A i \in DOMAIN Script : id[1] = Script[i].name => Refers(more, Script[i].by, more[id].by)
  PROVE  Kempt(more)
<1>1. ASSUME NEW x \in DOMAIN more, NEW y \in DOMAIN more, x[1] = y[1], x # y
      PROVE  ~Firm(x[1]) /\ (x[1][1] = "departments" \/ Operator \in {x[2], y[2]})
  <2>1. CASE x \in DOMAIN rows /\ y \in DOMAIN rows
    BY <1>1, <2>1 DEF Kempt
  <2>2. CASE x = id
    BY <1>1, <2>2
  <2>3. CASE y = id
    BY <1>1, <2>3
  <2> QED
    BY <2>1, <2>2, <2>3
<1>2. ASSUME NEW i \in DOMAIN Script, NEW x \in DOMAIN more, x[1] = Script[i].name
      PROVE  Refers(more, Script[i].by, more[x].by)
  BY <1>2 DEF Kempt, Refers
<1> QED
  BY <1>1, <1>2 DEF Kempt

\* Kempt rows beside kempt rows, of which only departments are new.
LEMMA KemptJoin ==
  ASSUME NEW a, NEW b, NEW more, DOMAIN more = DOMAIN a \union DOMAIN b, Kempt(a), Kempt(b),
         \A x \in DOMAIN more : \/ x \in DOMAIN a /\ more[x].by = a[x].by
                                \/ x \in DOMAIN b /\ more[x].by = b[x].by,
         \A x \in DOMAIN a : x \in DOMAIN b \/ x[1][1] = "departments"
  PROVE  Kempt(more)
<1>1. ASSUME NEW x \in DOMAIN more, NEW y \in DOMAIN more, x[1] = y[1], x # y
      PROVE  ~Firm(x[1]) /\ (x[1][1] = "departments" \/ Operator \in {x[2], y[2]})
  <2>1. CASE x[1][1] = "departments"
    BY <2>1 DEF Firm
  <2>2. CASE x[1][1] # "departments"
    <3>1. x \in DOMAIN b /\ y \in DOMAIN b
      BY <1>1, <2>2
    <3> QED
      BY <1>1, <3>1 DEF Kempt
  <2> QED
    BY <2>1, <2>2
<1>2. ASSUME NEW i \in DOMAIN Script, NEW x \in DOMAIN more, x[1] = Script[i].name
      PROVE  Refers(more, Script[i].by, more[x].by)
  <2>1. CASE x \in DOMAIN a /\ more[x].by = a[x].by
    BY <1>2, <2>1 DEF Kempt, Refers
  <2>2. CASE x \in DOMAIN b /\ more[x].by = b[x].by
    BY <1>2, <2>2 DEF Kempt, Refers
  <2> QED
    BY <2>1, <2>2
<1> QED
  BY <1>1, <1>2 DEF Kempt

\* A row of the item in hand names the parents the run has found, where both
\* see a row of each parent.
LEMMA ParentIds ==
  ASSUME TypeOK, NEW r \in Runners, Running(r), Looked(r), run[r].at \in DOMAIN Script,
         FirmParents(Script), Kempt(Visible(r)),
         NEW rows, Kempt(rows), NEW x \in DOMAIN rows, x[1] = Item(r).name,
         \A n \in Item(r).by : \E y \in DOMAIN rows : y \in DOMAIN Visible(r) /\ y[1] = n
  PROVE  rows[x].by = Ids(r, Item(r).by)
<1> DEFINE A == rows[x].by
           B == Ids(r, Item(r).by)
<1>1. /\ A \subseteq DOMAIN rows /\ {a[1] : a \in A} = Item(r).by
      /\ B \subseteq DOMAIN Visible(r) /\ {b[1] : b \in B} = Item(r).by
  BY IdsVisible DEF Kempt, Refers, Item
<1>2. \A n \in Item(r).by : Firm(n)
  BY DEF FirmParents, Item
<1> HIDE DEF A, B
<1>3. \A a \in A, b \in B : a[1] = b[1] => a = b
  <2> SUFFICES ASSUME NEW a \in A, NEW b \in B, a[1] = b[1]
               PROVE  a = b
    OBVIOUS
  <2>1. a[1] \in Item(r).by
    BY <1>1
  <2>2. PICK y \in DOMAIN rows : y \in DOMAIN Visible(r) /\ y[1] = a[1]
    BY <2>1
  <2>3. a = y
    BY <1>1, <1>2, <2>1, <2>2 DEF Kempt
  <2>4. b = y
    BY <1>1, <1>2, <2>1, <2>2 DEF Kempt
  <2> QED
    BY <2>3, <2>4
<1>4. ASSUME NEW a \in A
      PROVE  a \in B
  <2>1. PICK b \in B : b[1] = a[1]
    BY <1>1
  <2> QED
    BY <1>3, <2>1
<1>5. ASSUME NEW b \in B
      PROVE  b \in A
  <2>1. PICK a \in A : a[1] = b[1]
    BY <1>1
  <2> QED
    BY <1>3, <2>1
<1>6. A = B
  BY <1>4, <1>5
<1> QED
  BY <1>6 DEF A, B

\* A lookup finds an item by its name.
LEMMA FindsNamed ==
  ASSUME TypeOK, NEW r \in Runners, Running(r), Looked(r), run[r].at \in DOMAIN Script,
         FirmParents(Script), Kempt(Visible(r)), Has(Visible(r), Item(r).name)
  PROVE  Matches(r) # {}
<1>1. PICK x \in DOMAIN Visible(r) : x[1] = Item(r).name
  BY DEF Has
<1>2. \A n \in Item(r).by : \E y \in DOMAIN Visible(r) : y \in DOMAIN Visible(r) /\ y[1] = n
  BY <1>1 DEF Kempt, Refers, Item
<1>3. Visible(r)[x].by = Ids(r, Item(r).by)
  BY <1>1, <1>2, ParentIds
<1> QED
  BY <1>1, <1>3 DEF Matches

\* So does a unique key.
LEMMA KeyNamed ==
  ASSUME TypeOK, NEW r \in Runners, Running(r), Looked(r), run[r].at \in DOMAIN Script,
         FirmParents(Script), Kempt(Visible(r)), Unique(Item(r).name),
         NEW rows, Kempt(rows), NEW part, DOMAIN part \subseteq DOMAIN rows,
         \A x \in DOMAIN part : part[x] = rows[x], Has(part, Item(r).name),
         \A n \in Item(r).by : \E y \in DOMAIN rows : y \in DOMAIN Visible(r) /\ y[1] = n
  PROVE  SameKey(r, part) # {}
<1>1. PICK x \in DOMAIN part : x[1] = Item(r).name
  BY DEF Has
<1>2. part[x].by = Ids(r, Item(r).by)
  BY <1>1, ParentIds
<1> QED
  BY <1>1, <1>2 DEF SameKey

\* Rows the sessions see, when nothing is committed.
LEMMA KemptQuiet ==
  ASSUME OnceInv, committed' = committed,
         \A q \in Runners : run'[q].own = run[q].own \/ DOMAIN run'[q].own = {}
  PROVE  KemptInv'
<1>1. Kempt(committed)'
  BY DEF OnceInv, KemptInv
<1>2. ASSUME NEW q \in Runners
      PROVE  Kempt(Visible(q))'
  <2>1. CASE run'[q].own = run[q].own
    <3>1. Visible(q)' = Visible(q)
      BY <2>1 DEF Visible
    <3>2. Kempt(Visible(q))
      BY DEF OnceInv, KemptInv
    <3> QED
      BY <3>1, <3>2
  <2>2. CASE DOMAIN run'[q].own = {}
    <3>1. committed = [x \in DOMAIN committed |-> committed[x]]
      BY PartFacts DEF OnceInv, SeedInv, TypeOK
    <3>2. Visible(q)' = committed
      BY <2>2, <3>1 DEF Visible, Over
    <3>3. Kempt(committed)
      BY DEF OnceInv, KemptInv
    <3> QED
      BY <3>2, <3>3
  <2> QED
    BY <1>2, <2>1, <2>2
<1> QED
  BY <1>1, <1>2 DEF KemptInv

\* A session that a step leaves alone, when nothing is committed.
LEMMA AheadStays ==
  ASSUME committed' = committed, NEW q \in Runners, SameSession(q), NEW k, NEW j, Ahead(q, k, j)
  PROVE  Ahead(q, k, j)'
<1>1. Visible(q)' = Visible(q) /\ Item(q)' = Item(q) /\ Running(q)' = Running(q)
  BY DEF Visible, Item, Running, SameSession
<1> QED
  BY <1>1 DEF Ahead, SameSession

\* A step of r before the first commit.
LEMMA BeforeStep ==
  ASSUME committed' = committed, NEW r \in Runners, NEW k, NEW j, Before(k, j),
         \A q \in Runners : q # r => SameSession(q), Ahead(r, k, j)',
         DOMAIN run'[r].own # {} => \A q \in Runners : q # r => DOMAIN run[q].own = {}
  PROVE  Before(k, j)'
<1>1. Leads(committed, k, j)'
  BY DEF Before
<1>2. \A q \in Runners : Ahead(q, k, j)'
  <2>1. ASSUME NEW q \in Runners, q # r
        PROVE  Ahead(q, k, j)'
    BY <2>1, AheadStays DEF Before
  <2> QED
    BY <2>1
<1>3. \A q, p \in Runners : q # p /\ DOMAIN run'[p].own # {} => DOMAIN run'[q].own = {}
  BY DEF Before, SameSession
<1> QED
  BY <1>1, <1>2, <1>3 DEF Before

\* A step of r after the first commit: it is never about to insert.
LEMMA AfterStep ==
  ASSUME committed' = committed, NEW r \in Runners, Afterwards,
         \A q \in Runners : q # r => SameSession(q), run'[r].phase # "insert",
         \A x \in DOMAIN run'[r].own :
             x \in DOMAIN run[r].own \union DOMAIN committed \/ x[1][1] = "departments"
  PROVE  Afterwards'
<1>1. ASSUME NEW q \in Runners, q # r
      PROVE  Behind(q)'
  <2>1. SameSession(q) /\ Behind(q)
    BY <1>1 DEF Afterwards
  <2>2. Item(q)' = Item(q)
    BY <2>1 DEF Item, SameSession
  <2> QED
    BY <2>1, <2>2 DEF Behind, SameSession
<1>2. Behind(r)'
  BY DEF Behind, Afterwards
<1> QED
  BY <1>1, <1>2 DEF Afterwards

\* Before the first commit, a run that has flushed nothing finds what comes
\* before the k-th item and misses that.
LEMMA Reaches ==
  ASSUME OnceInv, NEW r \in Runners, Running(r), run[r].at \in DOMAIN Script,
         DOMAIN run[r].own = {}, NEW k \in 1..(Len(Script) + 1), NEW j, Before(k, j)
  PROVE  /\ run[r].at \in 1..k
         /\ Has(Visible(r), Item(r).name) <=> run[r].at < k
<1>1. /\ TypeOK /\ Visible(r) = committed /\ run[r].at \in 1..Len(Script) /\ Len(Script) \in Nat
  BY NoOwnRows, ScriptFacts DEF OnceInv, SeedInv
<1>2. run[r].at <= k /\ Leads(committed, k, j)
  BY DEF Before, Ahead
<1>3. CASE run[r].at < k
  <2>1. run[r].at \in 1..(k - 1)
    BY <1>1, <1>3
  <2> QED
    BY <1>1, <1>2, <1>3, <2>1 DEF Leads, Has, Item
<1>4. CASE run[r].at = k
  BY <1>1, <1>2, <1>4 DEF Leads, Has, Item
<1> QED
  BY <1>1, <1>2, <1>3, <1>4

\* What the invariant says of a run with an item in hand.
LEMMA OnceFacts ==
  ASSUME OnceInv, NEW r \in Runners
  PROVE  /\ TypeOK /\ Looked(r) /\ PendingScripted(r) /\ Kempt(Visible(r)) /\ Kempt(committed)
         /\ run[r].at \in Nat
         /\ DOMAIN Visible(r) = DOMAIN run[r].own \union DOMAIN committed
BY SessionFacts, VisibleFacts DEF OnceInv, SeedInv, RunnerInv, KemptInv

\* Reuse does not come to the k-th item, and overwrites the j-th.
LEMMA ReuseAhead ==
  ASSUME OnceInv, NEW r \in Runners, Reuse(r),
         NEW k \in 1..(Len(Script) + 1), NEW j \in 1..(Len(Script) + 1), Before(k, j)
  PROVE  Ahead(r, k, j)'
<1>1. /\ TypeOK /\ Looked(r) /\ Running(r) /\ run[r].at \in DOMAIN Script
      /\ committed' = committed /\ run[r].at \in Nat /\ j \in Nat /\ k \in Nat
  <2>1. TypeOK /\ Looked(r) /\ run[r].at \in Nat
    BY OnceFacts
  <2>2. Running(r) /\ run[r].at \in DOMAIN Script /\ committed' = committed
    BY <2>1, ReuseFacts
  <2>3. j \in Nat /\ k \in Nat
    BY ScriptFacts
  <2> QED
    BY <2>1, <2>2, <2>3
<1>2. PICK id \in DOMAIN Visible(r) : \E y :
        LET changes == Changes(r, Visible(r)[id])
        IN  /\ Becomes(r, y) /\ id[1] = Item(r).name
            /\ y.at = run[r].at + 1 /\ y.phase = "select"
            /\ y.found = Put(Item(r).name, id, run[r].found)
            /\ y.own = run[r].own /\ y.since = run[r].since
            /\ y.alone = run[r].alone /\ y.rerun = run[r].rerun
            /\ y.pending = IF Item(r).updates /\ DOMAIN changes # {}
                           THEN Put(id, changes, run[r].pending) ELSE run[r].pending
  BY <1>1, ReuseFacts
<1> DEFINE changes == Changes(r, Visible(r)[id])
<1>3. /\ id[1] = Item(r).name /\ run'[r].at = run[r].at + 1 /\ run'[r].phase = "select"
      /\ run'[r].own = run[r].own
      /\ run'[r].pending = IF Item(r).updates /\ DOMAIN changes # {}
                           THEN Put(id, changes, run[r].pending) ELSE run[r].pending
  BY <1>1, <1>2, BecomesFacts
<1>4. Item(r).updates /\ Visible(r)[id].value # "demo" => DOMAIN changes # {}
  <2>1. Visible(r)[id] \in Rows
    BY <1>1, VisibleFacts
  <2> QED
    BY <1>1, <2>1, ChangesFacts
<1> HIDE DEF changes
<1>5. /\ DOMAIN run[r].pending \subseteq DOMAIN run'[r].pending
      /\ Item(r).updates /\ DOMAIN changes # {} => id \in DOMAIN run'[r].pending
  BY <1>3 DEF Put, Over
<1>6. Ahead(r, k, j) /\ Leads(committed, k, j)
  BY DEF Before
<1>7. ASSUME DOMAIN run[r].own = {}
      PROVE  /\ run[r].at + 1 <= k
             /\ k <= Len(Script) /\ ~Unique(Script[k].name) /\ j < run[r].at + 1 =>
                   Has(run'[r].pending, Script[j].name)
  <2>1. run[r].at < k /\ Visible(r) = committed
    <3>1. Has(Visible(r), Item(r).name)
      BY <1>3 DEF Has
    <3> QED
      BY <1>1, <1>7, <3>1, Reaches, NoOwnRows
  <2>2. ASSUME k <= Len(Script), ~Unique(Script[k].name), j < run[r].at + 1
        PROVE  Has(run'[r].pending, Script[j].name)
    <3>1. CASE j < run[r].at
      <4>1. Has(run[r].pending, Script[j].name)
        BY <1>1, <1>6, <1>7, <2>2, <3>1 DEF Ahead
      <4> QED
        BY <1>5, <4>1 DEF Has
    <3>2. CASE j = run[r].at
      <4>1. /\ Script[j].updates /\ id[1] = Script[j].name /\ Item(r).updates
            /\ \A x \in DOMAIN committed : x[1] = Script[j].name => committed[x].value # "demo"
        BY <1>3, <1>6, <2>2, <3>2 DEF Leads, Item
      <4>2. id \in DOMAIN run'[r].pending
        BY <1>4, <1>5, <2>1, <4>1
      <4> QED
        BY <4>1, <4>2 DEF Has
    <3> QED
      BY <1>1, <2>2, <3>1, <3>2
  <2> QED
    BY <1>1, <2>1, <2>2
<1> QED
  BY <1>1, <1>3, <1>6, <1>7 DEF Ahead

\* Miss: what is missed has no row of that name.
LEMMA MissesName ==
  ASSUME OnceInv, FirmParents(Script), NEW r \in Runners, Miss(r)
  PROVE  ~Has(Visible(r), Item(r).name)
<1>1. /\ TypeOK /\ Looked(r) /\ Running(r) /\ run[r].at \in DOMAIN Script /\ Kempt(Visible(r))
  BY OnceFacts, MissFacts
<1>2. Matches(r) = {}
  BY DEF Miss
<1> QED
  BY <1>1, <1>2, FindsNamed

\* It comes to the k-th item and not past it.
LEMMA MissAhead ==
  ASSUME OnceInv, FirmParents(Script), NEW r \in Runners, Miss(r), NEW k, NEW j, Before(k, j)
  PROVE  Ahead(r, k, j)'
<1>1. ~Has(Visible(r), Item(r).name) /\ TypeOK /\ Looked(r)
  BY MissesName, OnceFacts
<1>2. PICK y : /\ Becomes(r, y) /\ y.at = run[r].at /\ y.phase = "insert"
               /\ y.pending = run[r].pending /\ y.own = run[r].own
  BY <1>1, MissFacts
<1>3. /\ run'[r].at = run[r].at /\ run'[r].phase = "insert"
      /\ run'[r].pending = run[r].pending /\ run'[r].own = run[r].own
      /\ committed' = committed /\ Running(r)
  BY <1>1, <1>2, BecomesFacts, MissFacts
<1>4. Visible(r)' = Visible(r) /\ Item(r)' = Item(r)
  BY <1>3 DEF Visible, Item
<1>5. Ahead(r, k, j)
  BY DEF Before
<1> QED
  BY <1>1, <1>3, <1>4, <1>5 DEF Ahead

\* A session that is over or has just begun.
LEMMA EmptyAhead ==
  ASSUME NEW r \in Runners, DOMAIN run'[r].own = {}, run'[r].phase # "insert",
         Running(r)' => run'[r].at = 1,
         NEW k \in 1..(Len(Script) + 1), NEW j \in 1..(Len(Script) + 1)
  PROVE  Ahead(r, k, j)'
<1>1. k \in Nat /\ j \in Nat /\ 1 <= k /\ ~(j < 1)
  BY ScriptFacts
<1> QED
  BY <1>1 DEF Ahead

\* Before the first commit, the row a flush adds is the first of its name, and
\* who flushes the k-th item is the only one who has flushed.
LEMMA FlushAlone ==
  ASSUME OnceInv, FirmParents(Script), NEW r \in Runners, Flush(r),
         NEW k \in 1..(Len(Script) + 1), NEW j \in 1..(Len(Script) + 1), Before(k, j)
  PROVE  /\ \A q \in Runners : q # r => DOMAIN run[q].own = {}
         /\ DOMAIN run[r].own = {} =>
              /\ run[r].at = k /\ k <= Len(Script)
              /\ ~Unique(Script[k].name) =>
                    \E x \in DOMAIN run[r].pending : x \in DOMAIN committed /\ x[1] = Script[j].name
<1>1. /\ TypeOK /\ Looked(r) /\ PendingScripted(r) /\ Kempt(Visible(r)) /\ Kempt(committed)
      /\ DOMAIN Visible(r) = DOMAIN run[r].own \union DOMAIN committed
      /\ run[r].phase = "insert" /\ ~Waits(r) /\ Len(Script) \in Nat
  BY OnceFacts, ScriptFacts DEF Flush
<1>2. Running(r) /\ run[r].at \in DOMAIN Script
  BY <1>1, FlushFacts
<1>3. Ahead(r, k, j) /\ Leads(committed, k, j)
  BY DEF Before
<1>4. ~Has(Visible(r), Item(r).name)
  BY <1>1, <1>3 DEF Ahead
<1>5. CASE DOMAIN run[r].own # {}
  BY <1>5 DEF Before
<1>6. CASE DOMAIN run[r].own = {}
  <2>1. run[r].at = k /\ k <= Len(Script) /\ Visible(r) = committed
    <3>1. run[r].at \in 1..k /\ ~(run[r].at < k)
      BY <1>2, <1>4, <1>6, Reaches
    <3>2. run[r].at \in 1..Len(Script)
      BY <1>2, ScriptFacts
    <3> QED
      BY <1>1, <1>6, <3>1, <3>2, NoOwnRows
  <2>2. ASSUME ~Unique(Script[k].name)
        PROVE  /\ Firm(Script[j].name)
               /\ \E x \in DOMAIN run[r].pending : x \in DOMAIN committed /\ x[1] = Script[j].name
    <3>1. j < k /\ Firm(Script[j].name)
      BY <1>3, <2>1, <2>2 DEF Leads
    <3>2. Has(run[r].pending, Script[j].name)
      BY <1>2, <1>3, <1>6, <2>1, <2>2, <3>1 DEF Ahead
    <3> QED
      BY <1>1, <1>6, <3>1, <3>2 DEF Has, PendingScripted
  <2>3. ASSUME NEW q \in Runners, q # r, DOMAIN run[q].own # {}
        PROVE  FALSE
    <3>1. /\ Has(run[q].own, Script[k].name)
          /\ ~Unique(Script[k].name) =>
                \E x \in DOMAIN run[q].own : x \in DOMAIN committed /\ x[1] = Script[j].name
      BY <2>3 DEF Before, Ahead
    <3>2. CASE Unique(Script[k].name)
      <4>1. /\ Kempt(Visible(q))
            /\ DOMAIN Visible(q) = DOMAIN run[q].own \union DOMAIN committed
            /\ \A x \in DOMAIN run[q].own : run[q].own[x] = Visible(q)[x]
        BY <1>1, OnceFacts, VisibleFacts
      <4>2. \A n \in Item(r).by : \E y \in DOMAIN Visible(q) : y \in DOMAIN Visible(r) /\ y[1] = n
        <5>1. \A n \in Item(r).by : \E i \in 1..(k - 1) : Script[i].name = n
          BY <1>2, <2>1, ScriptFacts DEF Item
        <5>2. \A i \in 1..(k - 1) : \E x \in DOMAIN committed : x[1] = Script[i].name
          BY <1>3 DEF Leads
        <5> QED
          BY <1>1, <4>1, <5>1, <5>2
      <4>3. Unique(Item(r).name) /\ Has(run[q].own, Item(r).name)
        BY <2>1, <3>1, <3>2 DEF Item
      <4>4. SameKey(r, run[q].own) # {}
        BY <1>1, <1>2, <4>1, <4>2, <4>3, KeyNamed
      <4> QED
        BY <1>1, <2>3, <4>4 DEF Waits
    <3>3. CASE ~Unique(Script[k].name)
      <4>1. PICK x \in DOMAIN run[q].own : x \in DOMAIN committed /\ x[1] = Script[j].name
        BY <3>1, <3>3
      <4>2. PICK z \in DOMAIN run[r].pending : z \in DOMAIN committed /\ z[1] = Script[j].name
        BY <2>2, <3>3
      <4>3. z = x
        BY <1>1, <2>2, <3>3, <4>1, <4>2 DEF Kempt
      <4>4. z \in Locked(r)
        BY <2>3, <4>1, <4>3 DEF Locked
      <4> QED
        BY <1>1, <4>2, <4>4 DEF Waits
    <3> QED
      BY <3>2, <3>3
  <2> QED
    BY <2>1, <2>2, <2>3
<1> QED
  BY <1>5, <1>6

\* What a flush leaves: the rows seen, one more, and the same parents.
LEMMA FlushLeaves ==
  ASSUME OnceInv, NEW r \in Runners, Flush(r)
  PROVE  LET id == <<Item(r).name, r>>
         IN  /\ run'[r].phase = "select"
             /\ DOMAIN run'[r].own = DOMAIN run[r].own \union DOMAIN run[r].pending \union {id}
             /\ DOMAIN Visible(r)' = DOMAIN Visible(r) \union {id}
             /\ Visible(r)'[id].by = Ids(r, Item(r).by)
             /\ \A x \in DOMAIN Visible(r) : x # id => Visible(r)'[x].by = Visible(r)[x].by
             /\ \A q \in Runners : q # r => run'[q] = run[q]
             /\ committed' = committed
<1>1. TypeOK /\ Looked(r) /\ PendingScripted(r)
  BY OnceFacts
<1>2. /\ Running(r) /\ run[r].at \in DOMAIN Script /\ committed' = committed
  BY <1>1, FlushFacts
<1>3. PICK row \in Rows : \E y :
        /\ row.by = Ids(r, Item(r).by)
        /\ Becomes(r, y) /\ y.phase = "select"
        /\ y.own = Put(<<Item(r).name, r>>, row, Flushed(r))
  BY <1>1, FlushFacts
<1> DEFINE id == <<Item(r).name, r>>
           o == Put(id, row, Flushed(r))
           view == Over(Flushed(r), committed)
<1>4. /\ run'[r].phase = "select" /\ run'[r].own = o
      /\ \A q \in Runners : q # r => run'[q] = run[q]
  BY <1>1, <1>3, BecomesFacts
<1> HIDE DEF id
<1>5. /\ DOMAIN o = DOMAIN Flushed(r) \union {id}
      /\ DOMAIN Over(o, committed) = DOMAIN view \union {id}
      /\ Over(o, committed)[id] = row
      /\ \A x \in DOMAIN view : x # id => Over(o, committed)[x] = view[x]
  BY DEF Put, Over
<1>6. DOMAIN Flushed(r) = DOMAIN run[r].pending \union DOMAIN run[r].own
  BY <1>1, FlushedFacts
<1>7. Visible(r)' = Over(o, committed)
  BY <1>2, <1>4 DEF Visible
<1>8. /\ DOMAIN view = DOMAIN Visible(r)
      /\ \A x \in DOMAIN Visible(r) : view[x].by = Visible(r)[x].by
  BY <1>1, FlushedView
<1> HIDE DEF o, view
<1>9. /\ DOMAIN run'[r].own = DOMAIN run[r].own \union DOMAIN run[r].pending \union {id}
      /\ DOMAIN Visible(r)' = DOMAIN Visible(r) \union {id}
      /\ Visible(r)'[id].by = Ids(r, Item(r).by)
      /\ \A x \in DOMAIN Visible(r) : x # id => Visible(r)'[x].by = Visible(r)[x].by
  BY <1>3, <1>4, <1>5, <1>6, <1>7, <1>8
<1> QED
  BY <1>2, <1>4, <1>9 DEF id

\* After the first commit nothing is missed, and a unique key is refused.
LEMMA DoneFinds ==
  ASSUME OnceInv, FirmParents(Script), Done, NEW r \in Runners
  PROVE  /\ ~Miss(r)
         /\ Flush(r) => Item(r).name[1] = "departments"
<1>1. /\ TypeOK /\ Looked(r) /\ PendingScripted(r) /\ Kempt(Visible(r)) /\ Kempt(committed)
      /\ DOMAIN Visible(r) = DOMAIN run[r].own \union DOMAIN committed
      /\ \A i \in DOMAIN Script : Has(committed, Script[i].name)
  BY OnceFacts DEF OnceInv, Afterwards
<1>2. ASSUME Miss(r)
      PROVE  FALSE
  <2>1. ~Has(Visible(r), Item(r).name) /\ run[r].at \in DOMAIN Script
    BY <1>1, <1>2, MissesName, MissFacts
  <2>2. Has(committed, Item(r).name)
    BY <1>1, <2>1 DEF Item
  <2> QED
    BY <1>1, <2>1, <2>2 DEF Has
<1>3. ASSUME Flush(r), Unique(Item(r).name)
      PROVE  FALSE
  <2>1. Running(r) /\ run[r].at \in DOMAIN Script /\ SameKey(r, committed) = {}
    BY <1>1, <1>3, FlushFacts DEF Flush
  <2>2. Has(committed, Item(r).name)
    BY <1>1, <2>1 DEF Item
  <2>3. \A n \in Item(r).by : \E y \in DOMAIN committed : y \in DOMAIN Visible(r) /\ y[1] = n
    <3>1. \A n \in Item(r).by : \E i \in 1..(run[r].at - 1) : Script[i].name = n
      BY <2>1, ScriptFacts DEF Item
    <3>2. \A i \in 1..(run[r].at - 1) : i \in DOMAIN Script
      BY <2>1, ScriptFacts
    <3> QED
      BY <1>1, <3>1, <3>2 DEF Has
  <2> QED
    BY <1>1, <1>3, <2>1, <2>2, <2>3, KeyNamed
<1>4. Flush(r) => Item(r).name[1] = "departments" \/ Unique(Item(r).name)
  BY DEF OnceInv, Afterwards, Behind, Flush
<1> QED
  BY <1>2, <1>3, <1>4

\* A flush keeps the rows seen kempt: the row it adds is the first of its name,
\* or a department.
LEMMA FlushKempt ==
  ASSUME OnceInv, FirmParents(Script), NEW r \in Runners, Flush(r)
  PROVE  KemptInv'
<1>1. /\ TypeOK /\ Looked(r) /\ PendingScripted(r) /\ Kempt(Visible(r)) /\ Kempt(committed)
  BY OnceFacts
<1>2. Running(r) /\ run[r].at \in DOMAIN Script
  BY <1>1, FlushFacts
<1> DEFINE id == <<Item(r).name, r>>
<1>3. /\ DOMAIN Visible(r)' = DOMAIN Visible(r) \union {id}
      /\ Visible(r)'[id].by = Ids(r, Item(r).by)
      /\ \A x \in DOMAIN Visible(r) : x # id => Visible(r)'[x].by = Visible(r)[x].by
      /\ \A q \in Runners : q # r => run'[q] = run[q]
      /\ committed' = committed /\ id[1] = Item(r).name
  BY FlushLeaves
<1> HIDE DEF id
<1>4. \/ \A x \in DOMAIN Visible(r) : x[1] # id[1]
      \/ id[1][1] = "departments"
  <2>1. CASE Done
    BY <1>3, <2>1, DoneFinds
  <2>2. CASE ~Done
    <3>1. run[r].phase = "insert" => ~Has(Visible(r), Item(r).name)
      BY <2>2 DEF OnceInv, Before, Ahead
    <3> QED
      BY <1>3, <3>1 DEF Flush, Has
  <2> QED
    BY <2>1, <2>2
<1>5. ASSUME NEW i \in DOMAIN Script, id[1] = Script[i].name
      PROVE  Refers(Visible(r)', Script[i].by, Visible(r)'[id].by)
  <2>1. i = run[r].at
    BY <1>2, <1>3, <1>5, ScriptFacts DEF Item
  <2>2. Refers(Visible(r), Item(r).by, Ids(r, Item(r).by))
    BY <1>1, <1>2, IdsVisible
  <2> QED
    BY <1>3, <2>1, <2>2 DEF Refers, Item
<1>6. Kempt(Visible(r)')
  <2>1. \A x \in DOMAIN Visible(r) : x[1] = id[1] /\ x # id =>
          ~Firm(id[1]) /\ (id[1][1] = "departments" \/ id[2] = Operator)
    BY <1>4 DEF Firm
  <2> QED
    BY <1>1, <1>3, <1>5, <2>1, KemptMore
<1>7. ASSUME NEW q \in Runners, q # r
      PROVE  Kempt(Visible(q)')
  <2>1. Visible(q)' = Visible(q)
    BY <1>3, <1>7 DEF Visible
  <2> QED
    BY <2>1, OnceFacts
<1>8. Kempt(committed')
  BY <1>1, <1>3
<1>9. \A q \in Runners : Kempt(Visible(q)')
  BY <1>6, <1>7
<1> QED
  BY <1>8, <1>9 DEF KemptInv

\* A flush before the first commit.
LEMMA FlushAhead ==
  ASSUME OnceInv, FirmParents(Script), NEW r \in Runners, Flush(r),
         NEW k \in 1..(Len(Script) + 1), NEW j \in 1..(Len(Script) + 1), Before(k, j)
  PROVE  Before(k, j)'
<1> DEFINE id == <<Item(r).name, r>>
<1>1. /\ run'[r].phase = "select" /\ committed' = committed /\ id[1] = Item(r).name
      /\ DOMAIN run'[r].own = DOMAIN run[r].own \union DOMAIN run[r].pending \union {id}
      /\ \A q \in Runners : q # r => run'[q] = run[q]
  BY FlushLeaves
<1> HIDE DEF id
<1>2. /\ \A q \in Runners : q # r => DOMAIN run[q].own = {}
      /\ DOMAIN run[r].own = {} =>
           /\ run[r].at = k /\ k <= Len(Script)
           /\ ~Unique(Script[k].name) =>
                 \E x \in DOMAIN run[r].pending : x \in DOMAIN committed /\ x[1] = Script[j].name
  BY FlushAlone
<1>3. Ahead(r, k, j)'
  <2>1. DOMAIN run'[r].own # {}
    BY <1>1
  <2>2. k <= Len(Script) /\ Has(run'[r].own, Script[k].name)
    <3>1. CASE DOMAIN run[r].own = {}
      BY <1>1, <1>2, <3>1 DEF Has, Item
    <3>2. CASE DOMAIN run[r].own # {}
      BY <1>1, <3>2 DEF Before, Ahead, Has
    <3> QED
      BY <3>1, <3>2
  <2>3. ~Unique(Script[k].name) =>
          \E x \in DOMAIN run'[r].own : x \in DOMAIN committed /\ x[1] = Script[j].name
    <3>1. CASE DOMAIN run[r].own = {}
      BY <1>1, <1>2, <3>1
    <3>2. CASE DOMAIN run[r].own # {}
      BY <1>1, <3>2 DEF Before, Ahead
    <3> QED
      BY <3>1, <3>2
  <2> QED
    BY <1>1, <2>1, <2>2, <2>3 DEF Ahead
<1>4. \A q \in Runners : q # r => SameSession(q)
  BY <1>1 DEF SameSession
<1> QED
  BY <1>1, <1>2, <1>3, <1>4, BeforeStep

\* A session that ends leaves no trace but its commit: before the first one,
\* nobody else has flushed anything then.
LEMMA CommitAlone ==
  ASSUME OnceInv, ~Done, NEW r \in Runners, Commit(r), NEW q \in Runners, q # r
  PROVE  DOMAIN run[q].own = {}
<1>1. PICK k \in 1..(Len(Script) + 1), j \in 1..(Len(Script) + 1) : Before(k, j)
  BY DEF OnceInv
<1>2. run[r].at > Len(Script) /\ Running(r) /\ run[r].at \in Nat /\ Len(Script) \in Nat
  BY OnceFacts, ScriptFacts DEF Commit, Running
<1>3. CASE DOMAIN run[r].own # {}
  BY <1>1, <1>3 DEF Before
<1>4. CASE DOMAIN run[r].own = {}
  <2>1. run[r].at <= k
    BY <1>1, <1>2, <1>4 DEF Before, Ahead
  <2>2. ~(k <= Len(Script))
    BY <1>2, <2>1
  <2> QED
    BY <1>1, <2>2 DEF Before, Ahead
<1> QED
  BY <1>3, <1>4

\* What a commit leaves: the rows its run saw, with their parents.
LEMMA CommitLeaves ==
  ASSUME OnceInv, NEW r \in Runners, Commit(r)
  PROVE  /\ DOMAIN committed' = DOMAIN Visible(r) /\ DOMAIN committed \subseteq DOMAIN committed'
         /\ committed' = [x \in DOMAIN committed' |-> committed'[x]]
         /\ Kempt(committed')
         /\ \A i \in DOMAIN Script : Has(committed', Script[i].name)
         /\ run'[r].phase = "committed" /\ DOMAIN run'[r].own = {}
         /\ \A q \in Runners : q # r => run'[q] = run[q]
<1>1. /\ TypeOK /\ Looked(r) /\ PendingScripted(r) /\ Kempt(Visible(r)) /\ run[r].at \in Nat
      /\ DOMAIN Visible(r) = DOMAIN run[r].own \union DOMAIN committed
  BY OnceFacts
<1>2. /\ committed' = Over(Flushed(r), committed) /\ Running(r) /\ run[r].at > Len(Script)
      /\ run' = [run EXCEPT ![r] = Ended(r, "committed")] /\ "committed" \in Phases
  BY DEF Commit, Running, Phases
<1>3. /\ DOMAIN committed' = DOMAIN Visible(r)
      /\ \A x \in DOMAIN Visible(r) : committed'[x].by = Visible(r)[x].by
  BY <1>1, <1>2, FlushedView
<1>4. Kempt(committed')
  BY <1>1, <1>3, KemptSame
<1>5. ASSUME NEW i \in DOMAIN Script
      PROVE  Has(committed', Script[i].name)
  <2>1. i \in 1..(run[r].at - 1)
    BY <1>1, <1>2, ScriptFacts
  <2>2. /\ Script[i].name \in DOMAIN run[r].found
        /\ run[r].found[Script[i].name] \in DOMAIN run[r].own \union DOMAIN committed
        /\ run[r].found[Script[i].name][1] = Script[i].name
    BY <1>1, <1>2, <2>1 DEF Looked
  <2> QED
    BY <1>1, <1>3, <2>2 DEF Has
<1>6. Becomes(r, run'[r]) /\ run'[r].phase = "committed" /\ run'[r].own = <<>>
  BY <1>1, <1>2, EndFacts
<1>7. DOMAIN <<>> = {} /\ \A q \in Runners : q # r => run'[q] = run[q]
  BY <1>1, <1>6, BecomesFacts
<1>8. committed' = [x \in DOMAIN committed' |-> committed'[x]]
  BY <1>2 DEF Over
<1> QED
  BY <1>1, <1>3, <1>4, <1>5, <1>6, <1>7, <1>8

\* A commit is the first one, or adds departments.
LEMMA CommitOnce ==
  ASSUME OnceInv, NEW r \in Runners, Commit(r)
  PROVE  KemptInv' /\ Afterwards'
<1>1. /\ DOMAIN committed' = DOMAIN Visible(r) /\ DOMAIN committed \subseteq DOMAIN committed'
      /\ committed' = [x \in DOMAIN committed' |-> committed'[x]]
      /\ Kempt(committed')
      /\ \A i \in DOMAIN Script : Has(committed', Script[i].name)
      /\ run'[r].phase = "committed" /\ DOMAIN run'[r].own = {}
      /\ \A q \in Runners : q # r => run'[q] = run[q]
  BY CommitLeaves
<1>2. ASSUME NEW q \in Runners, DOMAIN run'[q].own = {}
      PROVE  Kempt(Visible(q)')
  <2>1. Visible(q)' = committed'
    BY <1>1, <1>2 DEF Visible, Over
  <2> QED
    BY <1>1, <2>1
<1>3. ASSUME NEW q \in Runners, q # r
      PROVE  \A x \in DOMAIN run[q].own : x \in DOMAIN committed' \/ x[1][1] = "departments"
  <2>1. CASE Done
    BY <1>1, <2>1 DEF OnceInv, Afterwards, Behind
  <2>2. CASE ~Done
    BY <1>3, <2>2, CommitAlone
  <2> QED
    BY <2>1, <2>2
<1>4. ASSUME NEW q \in Runners, q # r
      PROVE  Kempt(Visible(q)')
  <2>1. Visible(q)' = Over(run[q].own, committed')
    BY <1>1, <1>4 DEF Visible
  <2>2. /\ Kempt(Visible(q))
        /\ DOMAIN Visible(q) = DOMAIN run[q].own \union DOMAIN committed
        /\ \A x \in DOMAIN run[q].own : Visible(q)[x] = run[q].own[x]
    BY OnceFacts, VisibleFacts
  <2>3. /\ DOMAIN Over(run[q].own, committed') = DOMAIN run[q].own \union DOMAIN committed'
        /\ \A x \in DOMAIN run[q].own : Over(run[q].own, committed')[x] = run[q].own[x]
        /\ \A x \in DOMAIN committed' : x \notin DOMAIN run[q].own =>
              Over(run[q].own, committed')[x] = committed'[x]
    BY OverFacts
  <2> DEFINE more == Over(run[q].own, committed')
  <2> HIDE DEF more
  <2>4. DOMAIN more = DOMAIN Visible(q) \union DOMAIN committed'
    BY <1>1, <2>2, <2>3 DEF more
  <2>5. \A x \in DOMAIN more : \/ x \in DOMAIN Visible(q) /\ more[x].by = Visible(q)[x].by
                               \/ x \in DOMAIN committed' /\ more[x].by = committed'[x].by
    BY <1>1, <2>2, <2>3 DEF more
  <2>6. \A x \in DOMAIN Visible(q) : x \in DOMAIN committed' \/ x[1][1] = "departments"
    BY <1>1, <1>3, <1>4, <2>2
  <2>7. Kempt(more)
    BY <1>1, <2>2, <2>4, <2>5, <2>6, KemptJoin
  <2> QED
    BY <2>1, <2>7 DEF more
<1>5. KemptInv'
  <2>1. \A q \in Runners : Kempt(Visible(q)')
    BY <1>1, <1>2, <1>4
  <2> QED
    BY <1>1, <2>1 DEF KemptInv
<1>6. ASSUME NEW q \in Runners, q # r, run[q].phase = "insert"
      PROVE  Item(q).name[1] = "departments" \/ Unique(Item(q).name)
  <2>1. CASE Done
    BY <1>6, <2>1 DEF OnceInv, Afterwards, Behind
  <2>2. CASE ~Done
    <3>1. PICK k \in 1..(Len(Script) + 1), j \in 1..(Len(Script) + 1) : Before(k, j)
      BY <2>2 DEF OnceInv
    <3>2. /\ DOMAIN run[q].own = {} /\ Running(q) /\ run[q].at \in DOMAIN Script
          /\ ~Has(Visible(q), Item(q).name)
      BY <1>6, <2>2, <3>1, CommitAlone, OnceFacts DEF Running, Looked, Before, Ahead
    <3>3. run[q].at = k /\ k <= Len(Script)
      <4>1. run[q].at \in 1..k /\ ~(run[q].at < k)
        BY <3>1, <3>2, Reaches
      <4>2. run[q].at \in 1..Len(Script) /\ Len(Script) \in Nat
        BY <3>2, ScriptFacts
      <4> QED
        BY <4>1, <4>2
    <3>4. Leads(committed, k, j)
      BY <3>1 DEF Before
    <3> QED
      BY <3>3, <3>4 DEF Leads, Item
  <2> QED
    BY <2>1, <2>2
<1>7. ASSUME NEW q \in Runners
      PROVE  Behind(q)'
  <2>1. CASE q = r
    BY <1>1, <2>1 DEF Behind
  <2>2. CASE q # r
    <3>1. run'[q] = run[q] /\ Item(q)' = Item(q)
      BY <1>1, <2>2 DEF Item
    <3> QED
      BY <1>3, <1>6, <2>2, <3>1 DEF Behind
  <2> QED
    BY <2>1, <2>2
<1> QED
  BY <1>1, <1>5, <1>7 DEF Afterwards

\* What the operator writes keeps parents, and adds assignments only.
LEMMA OperatorLeaves ==
  ASSUME OnceInv, Edit \/ Assign
  PROVE  \E id :
           /\ DOMAIN committed' = DOMAIN committed \union {id} /\ run' = run
           /\ \A x \in DOMAIN committed :
                 /\ committed'[x].by = committed[x].by
                 /\ committed[x].value # "demo" => committed'[x].value # "demo"
           /\ \A q \in Runners : id \notin DOMAIN run[q].own
           /\ \/ id \in DOMAIN committed
              \/ /\ id[2] = Operator /\ id[1][1] = "stage_assignments"
                 /\ \E y \in DOMAIN committed :
                       y[1] = id[1] /\ committed'[id].by = committed[y].by
<1>1. /\ committed = [x \in DOMAIN committed |-> committed[x]]
      /\ \A x \in DOMAIN committed : committed[x] \in Rows
  BY PartFacts DEF OnceInv, SeedInv, TypeOK
<1>2. CASE Edit
  <2>1. PICK id \in DOMAIN committed :
          /\ id \notin UNION {DOMAIN run[r].own : r \in Runners}
          /\ committed' = [committed EXCEPT ![id].value = "edited"]
    BY <1>2 DEF Edit
  <2>2. run' = run
    BY <1>2 DEF Edit
  <2>3. /\ DOMAIN committed' = DOMAIN committed
        /\ \A x \in DOMAIN committed : x # id => committed'[x] = committed[x]
        /\ committed'[id] = [committed[id] EXCEPT !.value = "edited"]
    BY <1>1, <2>1
  <2>4. committed'[id].by = committed[id].by /\ committed'[id].value = "edited"
    BY <1>1, <2>3 DEF Rows
  <2> QED
    BY <2>1, <2>2, <2>3, <2>4, ZenonT(60)
<1>3. CASE Assign
  <2>1. PICK y \in DOMAIN committed, user \in DOMAIN committed :
          /\ y[1][1] = "stage_assignments" /\ <<y[1], Operator>> \notin DOMAIN committed
          /\ committed' = Put(<<y[1], Operator>>,
                              [committed[y] EXCEPT !.links = {user}], committed)
    BY <1>3 DEF Assign
  <2> DEFINE id == <<y[1], Operator>>
             row == [committed[y] EXCEPT !.links = {user}]
  <2>2. run' = run
    BY <1>3 DEF Assign
  <2>3. row.by = committed[y].by
    BY <1>1 DEF Rows
  <2>4. id[1] = y[1] /\ id[2] = Operator
    OBVIOUS
  <2> HIDE DEF id, row
  <2>5. committed' = Put(id, row, committed) /\ id \notin DOMAIN committed
    BY <2>1 DEF id, row
  <2>6. /\ DOMAIN committed' = DOMAIN committed \union {id} /\ committed'[id] = row
        /\ \A x \in DOMAIN committed : x # id => committed'[x] = committed[x]
    BY <2>5 DEF Put, Over
  <2>7. \A q \in Runners : id \notin DOMAIN run[q].own
    BY <2>4, <2>5, RunnersAssumption DEF OnceInv, SeedInv, RunnerInv, OwnFaithful
  <2> QED
    BY <2>1, <2>2, <2>3, <2>4, <2>5, <2>6, <2>7
<1> QED
  BY <1>2, <1>3

\* The operator changes nothing of this.
LEMMA OperatorOnce ==
  ASSUME OnceInv, Edit \/ Assign
  PROVE  /\ KemptInv' /\ Done' = Done
         /\ Afterwards => Afterwards'
         /\ \A k, j \in 1..(Len(Script) + 1) : Before(k, j) => Before(k, j)'
<1>1. PICK id :
        /\ DOMAIN committed' = DOMAIN committed \union {id} /\ run' = run
        /\ \A x \in DOMAIN committed :
              /\ committed'[x].by = committed[x].by
              /\ committed[x].value # "demo" => committed'[x].value # "demo"
        /\ \A q \in Runners : id \notin DOMAIN run[q].own
        /\ \/ id \in DOMAIN committed
           \/ /\ id[2] = Operator /\ id[1][1] = "stage_assignments"
              /\ \E y \in DOMAIN committed :
                    y[1] = id[1] /\ committed'[id].by = committed[y].by
  BY OperatorLeaves
<1>2. KemptInv /\ \E y \in DOMAIN committed : y[1] = id[1]
  BY <1>1 DEF OnceInv
<1>3. Kempt(committed')
  <2>1. CASE id \in DOMAIN committed
    <3>1. DOMAIN committed' = DOMAIN committed
      BY <1>1, <2>1
    <3> QED
      BY <1>1, <1>2, <3>1, KemptSame DEF KemptInv
  <2>2. CASE id \notin DOMAIN committed
    <3>1. ~Firm(id[1]) /\ id[2] = Operator
      BY <1>1, <2>2 DEF Firm
    <3>2. \A i \in DOMAIN Script : id[1] = Script[i].name =>
            Refers(committed', Script[i].by, committed'[id].by)
      BY <1>1, <1>2, <2>2 DEF KemptInv, Kempt, Refers
    <3> QED
      BY <1>1, <1>2, <3>1, <3>2, KemptMore DEF KemptInv
  <2> QED
    BY <2>1, <2>2
<1>4. ASSUME NEW q \in Runners
      PROVE  /\ Kempt(Visible(q)')
             /\ \A name : Has(Visible(q)', name) <=> Has(Visible(q), name)
  <2>1. /\ Kempt(Visible(q)) /\ Kempt(committed)
        /\ DOMAIN Visible(q) = DOMAIN run[q].own \union DOMAIN committed
        /\ \A x \in DOMAIN run[q].own : Visible(q)[x] = run[q].own[x]
        /\ \A x \in DOMAIN committed : x \notin DOMAIN run[q].own => Visible(q)[x] = committed[x]
    BY OnceFacts, VisibleFacts
  <2> DEFINE more == Over(run[q].own, committed')
  <2>2. Visible(q)' = more
    BY <1>1 DEF Visible
  <2>3. /\ DOMAIN more = DOMAIN run[q].own \union DOMAIN committed'
        /\ \A x \in DOMAIN run[q].own : more[x] = run[q].own[x]
        /\ \A x \in DOMAIN committed' : x \notin DOMAIN run[q].own => more[x] = committed'[x]
    BY OverFacts
  <2> HIDE DEF more
  <2>4. /\ DOMAIN more = DOMAIN Visible(q) \union {id}
        /\ \A x \in DOMAIN Visible(q) : more[x].by = Visible(q)[x].by
    BY <1>1, <2>1, <2>3
  <2>5. CASE id \in DOMAIN committed
    <3>1. DOMAIN more = DOMAIN Visible(q)
      BY <2>1, <2>4, <2>5
    <3> QED
      BY <2>1, <2>2, <2>4, <3>1, KemptSame DEF Has
  <2>6. CASE id \notin DOMAIN committed
    <3>1. PICK y \in DOMAIN committed : y[1] = id[1] /\ committed'[id].by = committed[y].by
      BY <1>1, <2>6
    <3>2. ~Firm(id[1]) /\ id[2] = Operator /\ more[id].by = committed[y].by
      BY <1>1, <2>3, <2>6, <3>1 DEF Firm
    <3>3. \A i \in DOMAIN Script : id[1] = Script[i].name =>
            Refers(more, Script[i].by, more[id].by)
      BY <2>1, <2>4, <3>1, <3>2 DEF Kempt, Refers
    <3>4. Kempt(more)
      BY <2>1, <2>4, <3>2, <3>3, KemptMore
    <3>5. \A name : Has(more, name) <=> Has(Visible(q), name)
      BY <2>1, <2>4, <3>1 DEF Has
    <3> QED
      BY <2>2, <3>4, <3>5
  <2> QED
    BY <2>5, <2>6
<1>5. KemptInv' /\ Done' = Done
  BY <1>1, <1>3, <1>4 DEF KemptInv, Done
<1>6. Afterwards => Afterwards'
  BY <1>1 DEF Afterwards, Behind, Item, Has
<1>7. ASSUME NEW k \in 1..(Len(Script) + 1), NEW j \in 1..(Len(Script) + 1), Before(k, j)
      PROVE  Before(k, j)'
  <2>1. Leads(committed', k, j)
    <3>1. Leads(committed, k, j)
      BY <1>7 DEF Before
    <3>2. \A i \in 1..(k - 1) : \E x \in DOMAIN committed' : x[1] = Script[i].name
      BY <1>1, <3>1 DEF Leads
    <3>3. k <= Len(Script) => \A x \in DOMAIN committed' : x[1] # Script[k].name
      BY <1>1, <1>2, <3>1 DEF Leads
    <3>4. ASSUME k <= Len(Script), ~Unique(Script[k].name),
                 NEW x \in DOMAIN committed', x[1] = Script[j].name
          PROVE  committed'[x].value # "demo"
      <4>1. Firm(Script[j].name) /\ (x \in DOMAIN committed => committed[x].value # "demo")
        BY <3>1, <3>4 DEF Leads
      <4>2. x \in DOMAIN committed
        BY <1>1, <3>4, <4>1 DEF Firm
      <4> QED
        BY <1>1, <4>1, <4>2
    <3> QED
      BY <3>1, <3>2, <3>3, <3>4 DEF Leads
  <2>2. ASSUME NEW r \in Runners
        PROVE  Ahead(r, k, j)'
    <3>1. Ahead(r, k, j)
      BY <1>7 DEF Before
    <3>2. run[r].phase = "insert" => ~Has(Visible(r)', Item(r).name)
      BY <1>4, <3>1 DEF Ahead
    <3> QED
      BY <1>1, <3>1, <3>2 DEF Ahead, Item, Running
  <2> QED
    BY <1>1, <1>7, <2>1, <2>2 DEF Before
<1> QED
  BY <1>5, <1>6, <1>7

\* A step that commits nothing.
LEMMA OnceStays ==
  ASSUME OnceInv, SeedInv', KemptInv', NEW r \in Runners,
         run[r].phase # "committed", run'[r].phase # "committed",
         \A q \in Runners : q # r => SameSession(q),
         Done => Afterwards',
         \A k, j \in 1..(Len(Script) + 1) : ~Done /\ Before(k, j) => Before(k, j)'
  PROVE  OnceInv'
<1>1. Done' <=> Done
  BY DEF Done, SameSession
<1>2. ~Done => \E k, j \in 1..(Len(Script) + 1) : Before(k, j)'
  BY DEF OnceInv
<1> QED
  BY <1>1, <1>2 DEF OnceInv

\* Every step keeps the invariant.
LEMMA OnceNext ==
  ASSUME OnceInv, FirmParents(Script), [Next]_vars
  PROVE  OnceInv'
<1>1. SeedInv' /\ SeedInv /\ TypeOK /\ (Done => Afterwards)
  BY SeedNext DEF OnceInv, SeedInv
<1>2. ASSUME NEW r \in Runners, Reuse(r)
      PROVE  OnceInv'
  <2>1. PICK y : Becomes(r, y) /\ y.own = run[r].own /\ y.phase = "select"
    BY <1>2, OnceFacts, ReuseFacts
  <2>2. /\ run'[r].own = run[r].own /\ run'[r].phase = "select"
        /\ \A q \in Runners : q # r => run'[q] = run[q]
    BY <1>1, <2>1, BecomesFacts
  <2>3. committed' = committed /\ run[r].phase # "committed"
    BY <1>2 DEF Reuse
  <2>4. \A q \in Runners : q # r => SameSession(q)
    BY <2>2 DEF SameSession
  <2>5. KemptInv'
    BY <2>2, <2>3, KemptQuiet
  <2>6. Done => Afterwards'
    BY <1>1, <2>2, <2>3, <2>4, AfterStep
  <2>7. ASSUME NEW k \in 1..(Len(Script) + 1), NEW j \in 1..(Len(Script) + 1), Before(k, j)
        PROVE  Before(k, j)'
    <3>1. DOMAIN run'[r].own # {} => \A q \in Runners : q # r => DOMAIN run[q].own = {}
      BY <2>2, <2>7 DEF Before
    <3>2. Ahead(r, k, j)'
      BY <1>2, <2>7, ReuseAhead
    <3> QED
      BY <2>3, <2>4, <2>7, <3>1, <3>2, BeforeStep
  <2> QED
    BY <1>1, <2>2, <2>3, <2>4, <2>5, <2>6, <2>7, OnceStays
<1>3. ASSUME NEW r \in Runners, Miss(r)
      PROVE  OnceInv'
  <2>1. PICK y : Becomes(r, y) /\ y.own = run[r].own /\ y.phase = "insert"
    BY <1>3, OnceFacts, MissFacts
  <2>2. /\ run'[r].own = run[r].own /\ run'[r].phase = "insert"
        /\ \A q \in Runners : q # r => run'[q] = run[q]
    BY <1>1, <2>1, BecomesFacts
  <2>3. committed' = committed /\ run[r].phase # "committed"
    BY <1>3 DEF Miss
  <2>4. \A q \in Runners : q # r => SameSession(q)
    BY <2>2 DEF SameSession
  <2>5. KemptInv'
    BY <2>2, <2>3, KemptQuiet
  <2>6. ~Done
    BY <1>3, DoneFinds
  <2>7. ASSUME NEW k \in 1..(Len(Script) + 1), NEW j \in 1..(Len(Script) + 1), Before(k, j)
        PROVE  Before(k, j)'
    <3>1. DOMAIN run'[r].own # {} => \A q \in Runners : q # r => DOMAIN run[q].own = {}
      BY <2>2, <2>7 DEF Before
    <3>2. Ahead(r, k, j)'
      BY <1>3, <2>7, MissAhead
    <3> QED
      BY <2>3, <2>4, <2>7, <3>1, <3>2, BeforeStep
  <2> QED
    BY <1>1, <2>2, <2>3, <2>4, <2>5, <2>6, <2>7, OnceStays
<1>4. ASSUME NEW r \in Runners, Flush(r)
      PROVE  OnceInv'
  <2>1. /\ run'[r].phase = "select" /\ committed' = committed /\ run[r].phase # "committed"
        /\ \A q \in Runners : q # r => run'[q] = run[q]
        /\ DOMAIN run'[r].own =
             DOMAIN run[r].own \union DOMAIN run[r].pending \union {<<Item(r).name, r>>}
    BY <1>4, FlushLeaves DEF Flush
  <2>2. \A q \in Runners : q # r => SameSession(q)
    BY <2>1 DEF SameSession
  <2>3. KemptInv'
    BY <1>4, FlushKempt
  <2>4. Done => Afterwards'
    <3> SUFFICES ASSUME Done
                 PROVE  Afterwards'
      OBVIOUS
    <3>1. Item(r).name[1] = "departments" /\ PendingScripted(r)
      BY <1>4, DoneFinds, OnceFacts
    <3>2. \A x \in DOMAIN run'[r].own :
            x \in DOMAIN run[r].own \union DOMAIN committed \/ x[1][1] = "departments"
      BY <2>1, <3>1 DEF PendingScripted
    <3> QED
      BY <1>1, <2>1, <2>2, <3>2, AfterStep
  <2>5. \A k, j \in 1..(Len(Script) + 1) : Before(k, j) => Before(k, j)'
    BY <1>4, FlushAhead
  <2> QED
    BY <1>1, <2>1, <2>2, <2>3, <2>4, <2>5, OnceStays
<1>5. ASSUME NEW r \in Runners, run[r].phase # "committed", committed' = committed,
             run'[r].phase \notin {"insert", "committed"}, DOMAIN run'[r].own = {},
             \A q \in Runners : q # r => SameSession(q), Running(r)' => run'[r].at = 1
      PROVE  OnceInv'
  <2>1. KemptInv'
    BY <1>5, KemptQuiet DEF SameSession
  <2>2. Done => Afterwards'
    BY <1>1, <1>5, AfterStep
  <2>3. ASSUME NEW k \in 1..(Len(Script) + 1), NEW j \in 1..(Len(Script) + 1), Before(k, j)
        PROVE  Before(k, j)'
    <3>1. Ahead(r, k, j)'
      BY <1>5, EmptyAhead
    <3> QED
      BY <1>5, <2>3, <3>1, BeforeStep
  <2> QED
    BY <1>1, <1>5, <2>1, <2>2, <2>3, OnceStays
<1>6. ASSUME NEW r \in Runners, Refused(r) \/ Die(r)
      PROVE  OnceInv'
  <2>1. /\ run' = [run EXCEPT ![r] = Ended(r, "failed")] /\ run[r].phase # "committed"
        /\ committed' = committed /\ "failed" \in Phases
    BY <1>6 DEF Refused, Die, Running, Phases
  <2>2. Becomes(r, run'[r]) /\ run'[r].own = <<>> /\ run'[r].phase = "failed"
    BY <1>1, <2>1, EndFacts
  <2>3. DOMAIN <<>> = {} /\ \A q \in Runners : q # r => SameSession(q)
    BY <1>1, <2>2, BecomesFacts DEF SameSession
  <2>4. ~Running(r)'
    BY <2>2 DEF Running
  <2> QED
    BY <1>5, <2>1, <2>2, <2>3, <2>4
<1>7. ASSUME NEW r \in Runners, Start(r)
      PROVE  OnceInv'
  <2>1. /\ run[r].phase = "ready" /\ committed' = committed /\ run'[r].phase = "select"
        /\ run'[r].at = 1 /\ run'[r].own = <<>> /\ \A q \in Runners : q # r => SameSession(q)
    BY <1>1, <1>7, StartFacts
  <2>2. DOMAIN <<>> = {}
    OBVIOUS
  <2> QED
    BY <1>5, <2>1, <2>2
<1>8. ASSUME NEW r \in Runners, Commit(r)
      PROVE  OnceInv'
  <2>1. KemptInv' /\ Afterwards'
    BY <1>8, CommitOnce
  <2>2. run'[r].phase = "committed"
    BY <1>8, CommitLeaves
  <2>3. Done'
    BY <2>2 DEF Done
  <2> QED
    BY <1>1, <2>1, <2>3 DEF OnceInv
<1>9. ASSUME Edit \/ Assign
      PROVE  OnceInv'
  <2>1. /\ KemptInv' /\ Done' = Done /\ (Afterwards => Afterwards')
        /\ \A k, j \in 1..(Len(Script) + 1) : Before(k, j) => Before(k, j)'
    BY <1>9, OperatorOnce
  <2>2. ~Done => \E k, j \in 1..(Len(Script) + 1) : Before(k, j)'
    BY <2>1 DEF OnceInv
  <2> QED
    BY <1>1, <2>1, <2>2 DEF OnceInv
<1>10. ASSUME UNCHANGED vars
       PROVE  OnceInv'
  <2>1. run' = run /\ committed' = committed
    BY <1>10 DEF vars
  <2>2. /\ \A r \in Runners : SameSession(r)
        /\ \A r \in Runners : Visible(r)' = Visible(r) /\ Item(r)' = Item(r)
        /\ Done' = Done
    BY <2>1 DEF SameSession, Visible, Item, Done
  <2>3. KemptInv' /\ (Afterwards => Afterwards')
    BY <2>1, <2>2 DEF OnceInv, KemptInv, Afterwards, Behind
  <2>4. ASSUME NEW k, NEW j, Before(k, j)
        PROVE  Before(k, j)'
    <3>1. \A r \in Runners : Ahead(r, k, j)'
      BY <2>1, <2>2, <2>4, AheadStays DEF Before
    <3> QED
      BY <2>1, <2>4, <3>1 DEF Before
  <2>5. ~Done => \E k, j \in 1..(Len(Script) + 1) : Before(k, j)'
    BY <2>4 DEF OnceInv
  <2> QED
    BY <1>1, <2>2, <2>3, <2>5 DEF OnceInv
<1> QED
  BY <1>2, <1>3, <1>4, <1>6, <1>7, <1>8, <1>9, <1>10 DEF Next, Step, Finished

\* It holds at first, of the rows the theorem is about.
LEMMA OnceStart ==
  ASSUME \A rows \in Initial : Tidy(rows) /\ Led(rows)
  PROVE  Init => OnceInv
<1> SUFFICES ASSUME Init
             PROVE  OnceInv
  OBVIOUS
<1>1. SeedInv /\ TypeOK /\ Tidy(committed) /\ Led(committed)
  BY SeedStart DEF Init, SeedInv
<1>2. /\ \A r \in Runners : run[r].phase = "ready" /\ run[r].own = <<>>
      /\ DOMAIN <<>> = {}
  BY DEF Init, Idle
<1>3. Kempt(committed)
  BY <1>1 DEF Tidy, NamedOnce, Kempt
<1>4. \A r \in Runners : Visible(r) = committed
  BY <1>1, <1>2, NoOwnRows
<1>5. ~Done /\ KemptInv
  BY <1>2, <1>3, <1>4 DEF Done, KemptInv
<1>6. ASSUME NEW k, NEW j, Leads(committed, k, j)
      PROVE  Before(k, j)
  BY <1>2, <1>6 DEF Before, Ahead, Running
<1> QED
  BY <1>1, <1>5, <1>6 DEF Led, OnceInv

\* The invariant of rows and runs, over rows that miss a unique item or a
\* department first.
THEOREM OnceInvariant ==
  ASSUME FirmParents(Script), \A rows \in Initial : Tidy(rows) /\ Led(rows)
  PROVE  Spec => []OnceInv
BY OnceStart, OnceNext, PTL DEF Spec

\* No item is there twice but departments and what the operator added, however
\* many runs overlap and die: the keys of domain/org.py and the lock of a row
\* all runs overwrite let only one of them add anything.
THEOREM OnlyDepartmentsDouble ==
  ASSUME FirmParents(Script), \A rows \in Initial : Tidy(rows) /\ Led(rows)
  PROVE  Spec => []OnlyDepartmentsTwice
<1>1. OnceInv => OnlyDepartmentsTwice
  BY DEF OnceInv, KemptInv, Kempt, OnlyDepartmentsTwice
<1> QED
  BY <1>1, OnceInvariant, PTL
=============================================================================
