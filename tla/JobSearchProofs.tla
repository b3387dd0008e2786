--------------------------- MODULE JobSearchProofs ---------------------------
(***************************************************************************)
(* The three modules of the job-search system.  ArtifactStore for every set *)
(* of processes, artifacts and contents: no artifact loses its file, no     *)
(* failed transaction leaves one behind, and what is created once keeps the *)
(* content that was promised.  ExternalActions for every set of keys        *)
(* and shapes: what was completed was approved, what was decided stands.    *)
(* VacancyPipeline for every set of seeds, vacancies and postings and       *)
(* batches of any length: no change of a processed vacancy goes unnoticed,  *)
(* and no handler that saw a decision undoes it.                           *)
(*                                                                         *)
(* The argument for ArtifactStore: an id that is being created has no row,  *)
(* no file but the one its creator wrote, and no other command works on it; *)
(* a command that overwrites works on a row that is there to stay and keeps *)
(* its kind; and the files of all other rows hold nothing but their own     *)
(* content.                                                                *)
(***************************************************************************)
EXTENDS ArtifactStore, ExternalActions, VacancyPipeline, FiniteSetTheorems, WellFoundedInduction, TLAPS


File == Content \cup {None}
Types ==
  /\ rows \in [Id -> Row \cup {None}] /\ files \in [Id -> [Name -> File]]
  /\ request \in [Client -> Request \cup {None}] /\ renaming \in Renaming \cup {None}
  /\ littered \subseteq Id

Works(c, i) == IsWriting(c) /\ \E item \in request[c].items : item.id = i
Creates(c) == IsWriting(c) /\ request[c].create
Overwrites(c) == IsWriting(c) /\ ~request[c].create
Promised(kind, x) == kind = "final" => x \in Good

\* The source of a final keeps what the gate saw.
GatedInv ==
  \A c \in Client : request[c] # None /\ request[c].phase = "gated" =>
    LET source == request[c].from
    IN  /\ Has(source) /\ rows[source].kind \in {"resume", "vacancy"}
        /\ rows[source].kind = "resume" => rows[source].hash \in Good

\* A command writes one row per id, and marks as written what it asked for.
ItemsInv ==
  \A c \in Client : IsWriting(c) =>
    /\ \A item, other \in request[c].items : item.id = other.id => item = other
    /\ request[c].written \subseteq {item.id : item \in request[c].items}

\* What is being created belongs to its creator alone.
\* What may lie under a name of an artifact that is being created.
MayHold(item, written, n) ==
  IF n # "new" THEN {None}
  ELSE IF item.id \in written THEN {item.row.hash} ELSE {None, Empty}
CreateInv ==
  \A c \in Client : Creates(c) =>
    \A item \in request[c].items :
      /\ ~Has(item.id) /\ item.row.name = "new" /\ Promised(item.row.kind, item.row.hash)
      /\ \A n \in Name : files[item.id][n] \in MayHold(item, request[c].written, n)
      /\ \A d \in Client \ {c} : ~Works(d, item.id)
OverwriteInv ==
  \A c \in Client : Overwrites(c) =>
    \A item \in request[c].items :
      Has(item.id) /\ item.row.kind = rows[item.id].kind /\ item.row.kind \in Rewritten

RenameInv == renaming # None => Has(renaming.id)
ContentInv ==
  \A i \in Id : Has(i) /\ rows[i].kind \notin Rewritten =>
    /\ \A n \in Name : files[i][n] \in {rows[i].hash, None}
    /\ Promised(rows[i].kind, rows[i].hash)

IInv ==
  /\ Types /\ GatedInv /\ ItemsInv /\ CreateInv /\ OverwriteInv /\ RenameInv /\ ContentInv
  /\ NoLitter /\ FileSurvives
-----------------------------------------------------------------------------
LEMMA Constants ==
  /\ First \in Id /\ Good \subseteq Content /\ Empty \in Content /\ Empty # None
  /\ None \notin Id /\ None \notin Content /\ None \notin Row /\ None \notin Request /\ None \notin Renaming
BY ContentAssumption DEF ContentAssumption

LEMMA TypesCorrect == Types => TypeOK
BY DEF Types, TypeOK, File

LEMMA RowTyped ==
  \A row \in Row : /\ row.kind \in Kind /\ row.hash \in Content /\ row.from \in Id \cup {None}
                   /\ row.name \in Name
BY DEF Row
LEMMA ItemTyped == \A item \in Item : item.id \in Id /\ item.row \in Row
BY DEF Item
LEMMA HasTyped == ASSUME Types, NEW i \in Id PROVE Has(i) <=> rows[i] \in Row
BY Constants DEF Types, Has
LEMMA FileTyped == ASSUME Types, NEW i \in Id, NEW n \in Name PROVE files[i][n] \in File
BY DEF Types

LEMMA WritingTyped ==
  ASSUME Types, NEW c \in Client, IsWriting(c)
  PROVE  /\ request[c] \in Request /\ request[c].phase = "writing" /\ request[c].create \in BOOLEAN
         /\ request[c].items \subseteq Item /\ request[c].written \subseteq Id
<1>1. request[c] \in Request /\ request[c].phase = "writing"
  BY DEF Types, IsWriting
<1>2. request[c] \in [phase : {"writing"}, create : BOOLEAN, items : SUBSET Item, written : SUBSET Id]
  BY <1>1 DEF Request
<1> QED
  BY <1>1, <1>2

LEMMA GatedTyped ==
  ASSUME Types, NEW c \in Client, request[c] # None, request[c].phase = "gated"
  PROVE  request[c] \in Request /\ request[c].from \in Id /\ request[c].name \in Name
<1>1. request[c] \in Request
  BY DEF Types
<1>2. request[c] \in [phase : {"gated"}, from : Id, name : Name]
  BY <1>1 DEF Request
<1> QED
  BY <1>1, <1>2

LEMMA InUseIsWork == ASSUME NEW i PROVE InUse(i) <=> \E c \in Client : Works(c, i)
BY DEF InUse, Works, IsWriting

LEMMA InitInv == Init => IInv
<1> SUFFICES ASSUME Init PROVE IInv
  OBVIOUS
<1>1. PICK kind \in {"resume", "vacancy"}, x \in Content :
        /\ rows = [i \in Id |-> IF i # First THEN None
                    ELSE [kind |-> kind, hash |-> x, from |-> None, name |-> "old"]]
        /\ files = [i \in Id |-> [n \in Name |-> IF i = First /\ n = "old" THEN x ELSE None]]
  BY DEF Init
<1>2. [kind |-> kind, hash |-> x, from |-> None, name |-> "old"] \in Row
  BY DEF Row, Kind, Addressed, Rewritten, Name
<1>3. rows \in [Id -> Row \cup {None}]
  BY <1>1, <1>2
<1>4. files \in [Id -> [Name -> File]]
  BY <1>1 DEF File
<1>5. Types
  BY <1>3, <1>4 DEF Init, Types
<1>6. \A c \in Client : request[c] = None
  BY DEF Init
<1>7. GatedInv /\ ItemsInv /\ CreateInv /\ OverwriteInv /\ RenameInv
  BY <1>6 DEF Init, GatedInv, ItemsInv, CreateInv, OverwriteInv, RenameInv, Creates, Overwrites, IsWriting
<1>8. \A i \in Id : Has(i) => i = First
  BY <1>1 DEF Has
<1>9. rows[First].hash = x /\ rows[First].kind = kind /\ \A n \in Name : files[First][n] \in {x, None}
  BY <1>1, Constants
<1>10. ContentInv
  BY <1>8, <1>9 DEF ContentInv, Promised
<1>11. files[First]["old"] = x /\ "old" \in Name /\ Has(First) /\ x # None
  BY <1>1, <1>2, Constants DEF Name, Has
<1>12. NoLitter /\ FileSurvives
  <2>1. \A i \in Id, n \in Name : files[i][n] # None => i = First
    BY <1>1
  <2> QED
    BY <2>1, <1>8, <1>11 DEF NoLitter, FileSurvives
<1> QED
  BY <1>5, <1>7, <1>10, <1>12 DEF IInv
-----------------------------------------------------------------------------
\* A command asks for something, and nothing else changes.

Unique(r) == \A item, other \in r.items : item.id = other.id => item = other
GatedOK(r) ==
  /\ r \in Request /\ r.phase = "gated" /\ Has(r.from) /\ rows[r.from].kind \in {"resume", "vacancy"}
  /\ rows[r.from].kind = "resume" => rows[r.from].hash \in Good
CreateOK(r) ==
  /\ r \in Request /\ r.phase = "writing" /\ r.create = TRUE /\ r.written = {} /\ Unique(r)
  /\ \A item \in r.items : /\ Fresh(item.id) /\ item.row.name = "new"
                           /\ Promised(item.row.kind, item.row.hash)
OverwriteOK(r) ==
  /\ r \in Request /\ r.phase = "writing" /\ r.create = FALSE /\ r.written = {} /\ Unique(r)
  /\ \A item \in r.items : /\ Has(item.id) /\ item.row.kind = rows[item.id].kind
                           /\ item.row.kind \in Rewritten

LEMMA AskedInv ==
  ASSUME IInv, NEW c \in Client, ~IsWriting(c), NEW r, Ask(c, r), UNCHANGED <<rows, files, renaming, littered>>,
         r = None \/ GatedOK(r) \/ CreateOK(r) \/ OverwriteOK(r)
  PROVE  IInv'
<1>1. Types' /\ request'[c] = r /\ \A d \in Client : d # c => request'[d] = request[d]
  BY DEF IInv, Types, Ask, GatedOK, CreateOK, OverwriteOK
<1>2. \A i \in Id : Has(i)' <=> Has(i)
  BY DEF Has
<1>3. \A d \in Client : d # c =>
        /\ IsWriting(d)' = IsWriting(d) /\ Creates(d)' = Creates(d) /\ Overwrites(d)' = Overwrites(d)
        /\ \A i : Works(d, i)' = Works(d, i)
  BY <1>1 DEF IsWriting, Creates, Overwrites, Works
<1>4. IsWriting(c)' => r # None /\ (CreateOK(r) \/ OverwriteOK(r))
  BY <1>1 DEF IsWriting, GatedOK
<1>5. IsWriting(c)' => r.items \subseteq Item /\ r.written = {}
  <2>1. \A q : q \in Request /\ q.phase = "writing" => q.items \subseteq Item
    BY DEF Request
  <2> QED
    BY <2>1, <1>4 DEF CreateOK, OverwriteOK
<1>6. GatedInv'
  <2>1. ASSUME r # None, r.phase = "gated" PROVE GatedOK(r)
    BY <2>1 DEF CreateOK, OverwriteOK
  <2>2. \A d \in Client : d # c /\ request[d] # None /\ request[d].phase = "gated" => request[d].from \in Id
    BY GatedTyped DEF IInv
  <2> QED
    BY <1>1, <2>1, <2>2 DEF IInv, GatedInv, GatedOK, Has
<1>7. ItemsInv'
  BY <1>1, <1>3, <1>4, <1>5 DEF IInv, ItemsInv, CreateOK, OverwriteOK, Unique
<1>8. CreateInv'
  <2> SUFFICES ASSUME NEW d \in Client, Creates(d)', NEW item \in request'[d].items
               PROVE  /\ ~Has(item.id)' /\ item.row.name = "new" /\ Promised(item.row.kind, item.row.hash)
                      /\ \A n \in Name : files[item.id][n] \in MayHold(item, request'[d].written, n)
                      /\ \A e \in Client \ {d} : ~Works(e, item.id)'
    BY DEF CreateInv
  <2>1. CASE d = c
    <3>1. CreateOK(r) /\ item \in r.items
      BY <1>1, <1>4, <2>1 DEF Creates, OverwriteOK
    <3>2. Fresh(item.id) /\ item.id \in Id
      BY <3>1, <1>5, <2>1, ItemTyped DEF CreateOK, Creates
    <3>3. \A e \in Client : ~Works(e, item.id)
      BY <3>2, InUseIsWork DEF Fresh
    <3> QED
      BY <1>1, <1>2, <1>3, <2>1, <3>1, <3>2, <3>3 DEF CreateOK, Fresh, MayHold
  <2>2. CASE d # c
    <3>1. Creates(d) /\ item \in request[d].items /\ item \in Item /\ item.id \in Id /\ Works(d, item.id)
      BY <1>1, <1>3, <2>2, WritingTyped, ItemTyped DEF IInv, Creates, Works
    <3>2. ~Works(c, item.id)'
      <4>1. ASSUME NEW mine \in r.items, mine.id = item.id, IsWriting(c)' PROVE FALSE
        <5>1. CASE CreateOK(r)
          BY <5>1, <4>1, <3>1, InUseIsWork DEF CreateOK, Fresh
        <5>2. CASE OverwriteOK(r)
          BY <5>2, <4>1, <3>1 DEF OverwriteOK, IInv, CreateInv
        <5> QED
          BY <4>1, <5>1, <5>2, <1>4
      <4> QED
        BY <4>1, <1>1 DEF Works
    <3> QED
      BY <1>1, <1>2, <1>3, <2>2, <3>1, <3>2 DEF IInv, CreateInv
  <2> QED
    BY <2>1, <2>2
<1>9. OverwriteInv'
  <2> SUFFICES ASSUME NEW d \in Client, Overwrites(d)', NEW item \in request'[d].items
               PROVE  Has(item.id)' /\ item.row.kind = rows[item.id].kind /\ item.row.kind \in Rewritten
    BY DEF OverwriteInv
  <2>1. CASE d = c
    BY <1>1, <1>4, <2>1 DEF Overwrites, OverwriteOK, CreateOK, Has
  <2>2. CASE d # c
    BY <1>1, <1>3, <2>2 DEF IInv, OverwriteInv, Has
  <2> QED
    BY <2>1, <2>2
<1>10. RenameInv' /\ ContentInv' /\ FileSurvives'
  BY DEF IInv, RenameInv, ContentInv, FileSurvives, Has
<1>11. NoLitter'
  <2>1. \A i : InUse(i) => InUse(i)'
    BY <1>3 DEF InUse, Works, IsWriting
  <2> QED
    BY <2>1 DEF IInv, NoLitter, Has
<1> QED
  BY <1>1, <1>6, <1>7, <1>8, <1>9, <1>10, <1>11 DEF IInv

LEMMA NewRowTyped ==
  ASSUME NEW kind \in Kind, NEW x \in Content, NEW from \in Id \cup {None}
  PROVE  /\ NewRow(kind, x, from) \in Row /\ NewRow(kind, x, from).name = "new"
         /\ NewRow(kind, x, from).kind = kind /\ NewRow(kind, x, from).hash = x
BY DEF NewRow, Row, Name

LEMMA WritingFields ==
  ASSUME NEW create \in BOOLEAN, NEW items \in SUBSET Item
  PROVE  /\ Writing(create, items) \in Request /\ Writing(create, items).phase = "writing"
         /\ Writing(create, items).items = items /\ Writing(create, items).written = {}
         /\ Writing(create, items).create = create
BY DEF Writing, Request

LEMMA CreateAsks ==
  ASSUME IInv, NEW c \in Client, ~IsWriting(c), UNCHANGED <<rows, files, renaming, littered>>,
         NEW kind \in Kind, NEW x \in Content, NEW from \in Id \cup {None}, Promised(kind, x),
         Create(c, kind, x, from)
  PROVE  IInv'
<1>1. PICK i \in Id : Fresh(i) /\ Ask(c, Writing(TRUE, {[id |-> i, row |-> NewRow(kind, x, from)]}))
  BY DEF Create
<1> DEFINE item == [id |-> i, row |-> NewRow(kind, x, from)]
           r == Writing(TRUE, {item})
<1>2. item \in Item /\ item.id = i /\ item.row = NewRow(kind, x, from)
  BY NewRowTyped DEF Item
<1> HIDE DEF item
<1>3. r \in Request /\ r.phase = "writing" /\ r.items = {item} /\ r.written = {} /\ r.create = TRUE
  BY <1>2, WritingFields
<1>4. Ask(c, r)
  BY <1>1 DEF item
<1> HIDE DEF r
<1>5. CreateOK(r)
  BY <1>1, <1>2, <1>3, NewRowTyped DEF CreateOK, Unique
<1> QED
  BY <1>4, <1>5, AskedInv

LEMMA OverwriteAsks ==
  ASSUME IInv, NEW c \in Client, ~IsWriting(c), UNCHANGED <<rows, files, renaming, littered>>,
         NEW i \in Id, NEW x \in Content, NEW from \in Id \cup {None},
         Has(i), rows[i].kind \in Rewritten, Overwrite(c, i, x, from)
  PROVE  IInv'
<1> DEFINE row == [rows[i] EXCEPT !.hash = x, !.from = IF from = None THEN @ ELSE from]
           item == [id |-> i, row |-> row]
           r == Writing(FALSE, {item})
<1>1. rows[i] \in Row
  BY HasTyped DEF IInv
<1>2. row \in Row /\ row.kind = rows[i].kind
  BY <1>1 DEF Row
<1> HIDE DEF row
<1>3. item \in Item /\ item.id = i /\ item.row = row
  BY <1>2 DEF Item
<1> HIDE DEF item
<1>4. r \in Request /\ r.phase = "writing" /\ r.items = {item} /\ r.written = {} /\ r.create = FALSE
  BY <1>3, WritingFields
<1>5. Ask(c, r)
  BY DEF Overwrite, item, row
<1> HIDE DEF r
<1>6. OverwriteOK(r)
  BY <1>2, <1>3, <1>4 DEF OverwriteOK, Unique
<1> QED
  BY <1>5, <1>6, AskedInv

LEMMA GenerateStep ==
  ASSUME IInv, NEW c \in Client, NEW x \in Content, NEW kinds \in SUBSET Addressed, Generate(c, kinds, x)
  PROVE  IInv'
<1> DEFINE missing == {k \in kinds : ~Reusable(k, x)}
<1>1. ~IsWriting(c) /\ UNCHANGED <<rows, files, renaming, littered>>
  BY DEF Generate, IsWriting
<1>2. PICK at \in [missing -> {i \in Id : Fresh(i)}] :
        /\ \A j, k \in missing : at[j] = at[k] => j = k
        /\ Ask(c, Writing(TRUE, {[id |-> at[k], row |-> NewRow(k, x, None)] : k \in missing}))
  BY DEF Generate
<1>3. missing \subseteq Addressed /\ Addressed \subseteq Kind
  BY DEF Kind
<1> HIDE DEF missing
<1> DEFINE ItemFor(k) == [id |-> at[k], row |-> NewRow(k, x, None)]
           items == {ItemFor(k) : k \in missing}
           r == Writing(TRUE, items)
<1>4. ASSUME NEW k \in missing
      PROVE  /\ ItemFor(k) \in Item /\ ItemFor(k).id = at[k] /\ Fresh(at[k])
             /\ ItemFor(k).row.name = "new" /\ ItemFor(k).row.kind = k
  <2>1. at[k] \in Id /\ Fresh(at[k])
    BY <1>2
  <2>2. NewRow(k, x, None) \in Row /\ NewRow(k, x, None).name = "new" /\ NewRow(k, x, None).kind = k
    BY <1>3, NewRowTyped
  <2> QED
    BY <2>1, <2>2 DEF Item
<1>5. Ask(c, r)
  BY <1>2
<1> HIDE DEF ItemFor
<1>6. items \in SUBSET Item
  BY <1>4
<1>7. r \in Request /\ r.phase = "writing" /\ r.items = items /\ r.written = {} /\ r.create = TRUE
  BY <1>6, WritingFields
<1> HIDE DEF r
<1>8. \A item \in items : \E k \in missing : item = ItemFor(k)
  OBVIOUS
<1>9. \A item, other \in items : item.id = other.id => item = other
  BY <1>2, <1>4, <1>8
<1>10. \A item \in items : Fresh(item.id) /\ item.row.name = "new" /\ item.row.kind \in Addressed
  BY <1>3, <1>4, <1>8
<1>11. CreateOK(r)
  BY <1>7, <1>9, <1>10 DEF CreateOK, Unique, Promised, Addressed
<1> QED
  BY <1>1, <1>5, <1>11, AskedInv

LEMMA GenerateVacancyStep ==
  ASSUME IInv, NEW c \in Client, NEW source \in Id, NEW x \in Content, GenerateVacancy(c, source, x)
  PROVE  IInv'
<1>1. ~IsWriting(c) /\ UNCHANGED <<rows, files, renaming, littered>>
  BY DEF GenerateVacancy, IsWriting
<1>2. CASE Create(c, "vacancy", x, source)
  BY <1>1, <1>2, CreateAsks DEF Kind, Rewritten, Promised
<1>3. CASE \E i \in Id : Has(i) /\ rows[i].kind = "vacancy" /\ Overwrite(c, i, x, source)
  BY <1>1, <1>3, OverwriteAsks DEF Rewritten
<1> QED
  BY <1>2, <1>3 DEF GenerateVacancy

LEMMA AskFinalizeStep ==
  ASSUME IInv, NEW c \in Client, NEW source \in Id, AskFinalize(c, source)
  PROVE  IInv'
<1> DEFINE r == [phase |-> "gated", from |-> source, name |-> rows[source].name]
<1>1. ~IsWriting(c) /\ UNCHANGED <<rows, files, renaming, littered>> /\ Ask(c, r)
  BY DEF AskFinalize, IsWriting
<1>2. /\ Has(source) /\ rows[source].kind \in {"resume", "vacancy"} /\ files[source][rows[source].name] \in Good
      /\ rows[source].name \in Name
  BY HasTyped, RowTyped DEF AskFinalize, FileOf, IInv
<1>3. rows[source].kind = "resume" => rows[source].hash \in Good
  BY <1>2, Constants DEF IInv, ContentInv, Rewritten
<1>4. r \in Request /\ r.phase = "gated" /\ r.from = source
  BY <1>2 DEF Request
<1> HIDE DEF r
<1>5. GatedOK(r)
  BY <1>2, <1>3, <1>4 DEF GatedOK
<1> QED
  BY <1>1, <1>5, AskedInv

LEMMA ReadSourceStep ==
  ASSUME IInv, NEW c \in Client, ReadSource(c)
  PROVE  IInv'
<1> DEFINE source == request[c].from
           x == files[source][request[c].name]
<1>1. /\ ~IsWriting(c) /\ UNCHANGED <<rows, files, renaming, littered>>
      /\ source \in Id /\ request[c].name \in Name /\ request[c] # None /\ request[c].phase = "gated"
  BY GatedTyped DEF ReadSource, IsWriting, IInv
<1>2. /\ Has(source) /\ rows[source].kind \in {"resume", "vacancy"}
      /\ rows[source].kind = "resume" => rows[source].hash \in Good
  BY <1>1 DEF IInv, GatedInv
<1>3. x \in Content \cup {None}
  BY <1>1, FileTyped DEF IInv, File
<1>4. CASE Ask(c, None)
  BY <1>1, <1>4, AskedInv
<1>5. CASE x # None /\ rows[source].kind = "vacancy" /\ FinaliseVacancy(c, source, x)
  <2>1. CASE Create(c, "vfinal", x, source)
    BY <1>1, <1>3, <1>5, <2>1, CreateAsks DEF Kind, Rewritten, Promised
  <2>2. CASE \E i \in Finals(source, "vfinal") : Overwrite(c, i, x, source)
    BY <1>1, <1>3, <1>5, <2>2, OverwriteAsks DEF Finals, Rewritten
  <2> QED
    BY <1>5, <2>1, <2>2 DEF FinaliseVacancy
<1>6. CASE x # None /\ rows[source].kind # "vacancy" /\ Create(c, "final", x, source)
  <2>1. x \in {rows[source].hash, None}
    BY <1>1, <1>2, <1>6 DEF IInv, ContentInv, Rewritten
  <2>2. x \in Good
    BY <1>2, <1>6, <2>1
  <2> QED
    BY <1>1, <1>3, <1>6, <2>2, CreateAsks DEF Kind, Promised
<1> QED
  BY <1>4, <1>5, <1>6 DEF ReadSource, FinaliseDraft
-----------------------------------------------------------------------------
\* The command under way goes on, or ends.

LEMMA Owned ==
  ASSUME IInv, NEW c \in Client, IsWriting(c), NEW item \in request[c].items
  PROVE  /\ item.id \in Id /\ item.row \in Row /\ item.row.name \in Name /\ item.row.hash \in Content
         /\ item.row.hash # None /\ Works(c, item.id) /\ ItemOf(c, item.id) = item
         /\ Has(item.id) => Overwrites(c) /\ rows[item.id].kind \in Rewritten
         /\ \A d \in Client \ {c} : \A other \in request[d].items :
              Creates(d) => other.id # item.id
<1>1. item \in Item
  BY WritingTyped DEF IInv
<1>2. item.id \in Id /\ item.row \in Row /\ item.row.name \in Name /\ item.row.hash \in Content
      /\ item.row.hash # None /\ Works(c, item.id)
  BY <1>1, ItemTyped, RowTyped, Constants DEF Works
<1>3. \A other \in request[c].items : other.id = item.id => other = item
  BY DEF IInv, ItemsInv
<1>4. ItemOf(c, item.id) = item
  BY <1>3 DEF ItemOf
<1>5. Has(item.id) => Overwrites(c) /\ rows[item.id].kind \in Rewritten
  BY DEF IInv, CreateInv, OverwriteInv, Creates, Overwrites
<1>6. \A d \in Client \ {c} : \A other \in request[d].items : Creates(d) => other.id # item.id
  BY <1>2 DEF IInv, CreateInv
<1> QED
  BY <1>2, <1>4, <1>5, <1>6

LEMMA TruncateStep ==
  ASSUME IInv, NEW c \in Client, Truncate(c)
  PROVE  IInv'
<1>1. IsWriting(c) /\ UNCHANGED <<rows, request, renaming, littered>>
  BY DEF Truncate
<1>2. PICK item \in Unwritten(c) : files' = [files EXCEPT ![item.id][item.row.name] = Empty]
  BY DEF Truncate
<1>3. item \in request[c].items /\ item.id \notin request[c].written
  BY <1>2 DEF Unwritten
<1>4. /\ item.id \in Id /\ item.row.name \in Name
      /\ Works(c, item.id) /\ (Has(item.id) => Overwrites(c) /\ rows[item.id].kind \in Rewritten)
      /\ \A d \in Client \ {c} : \A other \in request[d].items : Creates(d) => other.id # item.id
  BY <1>1, <1>3, Owned
<1>5. /\ files' \in [Id -> [Name -> File]] /\ Empty # None
      /\ \A i \in Id, n \in Name :
           files'[i][n] = IF i = item.id /\ n = item.row.name THEN Empty ELSE files[i][n]
  BY <1>2, <1>4, Constants DEF IInv, Types, File
<1>6. Types' /\ GatedInv' /\ ItemsInv' /\ OverwriteInv' /\ RenameInv'
  BY <1>1, <1>5 DEF IInv, Types, GatedInv, ItemsInv, OverwriteInv, RenameInv, Has, IsWriting, Overwrites
<1>7. CreateInv'
  <2> SUFFICES ASSUME NEW d \in Client, Creates(d), NEW mine \in request[d].items
               PROVE  /\ ~Has(mine.id) /\ mine.row.name = "new" /\ Promised(mine.row.kind, mine.row.hash)
                      /\ \A n \in Name : files'[mine.id][n] \in MayHold(mine, request[d].written, n)
                      /\ \A e \in Client \ {d} : ~Works(e, mine.id)
    BY <1>1 DEF CreateInv, Creates, Works, IsWriting, Has
  <2>1. /\ ~Has(mine.id) /\ mine.row.name = "new" /\ Promised(mine.row.kind, mine.row.hash)
        /\ \A n \in Name : files[mine.id][n] \in MayHold(mine, request[d].written, n)
        /\ \A e \in Client \ {d} : ~Works(e, mine.id)
    BY DEF IInv, CreateInv
  <2>2. mine.id \in Id
    BY Owned DEF Creates
  <2>3. CASE mine.id = item.id
    <3>1. d = c
      BY <1>4, <2>3
    <3>2. mine = item
      BY <1>3, <2>3, <3>1 DEF IInv, ItemsInv, Creates
    <3> QED
      BY <1>3, <1>5, <2>1, <2>2, <3>1, <3>2 DEF MayHold
  <2>4. CASE mine.id # item.id
    BY <1>5, <2>1, <2>2, <2>4
  <2> QED
    BY <2>3, <2>4
<1>8. ContentInv'
  BY <1>1, <1>4, <1>5 DEF IInv, ContentInv, Has
<1>9. NoLitter'
  <2>1. InUse(item.id)
    BY <1>4, InUseIsWork
  <2>2. \A i \in Id : InUse(i)' <=> InUse(i)
    BY <1>1 DEF InUse, IsWriting
  <2> QED
    BY <1>1, <1>5, <2>1, <2>2 DEF IInv, NoLitter, Has
<1>10. FileSurvives'
  BY <1>1, <1>4, <1>5 DEF IInv, FileSurvives, Has
<1> QED
  BY <1>6, <1>7, <1>8, <1>9, <1>10 DEF IInv

LEMMA WriteFileStep ==
  ASSUME IInv, NEW c \in Client, WriteFile(c)
  PROVE  IInv'
<1>1. IsWriting(c) /\ UNCHANGED <<rows, renaming, littered>>
  BY DEF WriteFile
<1>2. PICK item \in Unwritten(c) :
        /\ files' = [files EXCEPT ![item.id][item.row.name] = item.row.hash]
        /\ request' = [request EXCEPT ![c].written = @ \cup {item.id}]
  BY DEF WriteFile
<1>3. item \in request[c].items /\ item.id \notin request[c].written
  BY <1>2 DEF Unwritten
<1>4. /\ item.id \in Id /\ item.row.name \in Name /\ item.row.hash \in Content /\ item.row.hash # None
      /\ Works(c, item.id) /\ (Has(item.id) => Overwrites(c) /\ rows[item.id].kind \in Rewritten)
      /\ \A d \in Client \ {c} : \A other \in request[d].items : Creates(d) => other.id # item.id
  BY <1>1, <1>3, Owned
<1>5. /\ request[c] \in [phase : {"writing"}, create : BOOLEAN, items : SUBSET Item, written : SUBSET Id]
      /\ request[c] \in Request
  BY <1>1, WritingTyped DEF IInv, Request
<1>6. request' = [request EXCEPT ![c] = [request[c] EXCEPT !.written = request[c].written \cup {item.id}]]
  BY <1>2
<1>7. [request[c] EXCEPT !.written = request[c].written \cup {item.id}] \in
        [phase : {"writing"}, create : BOOLEAN, items : SUBSET Item, written : SUBSET Id]
  BY <1>4, <1>5
<1>8. /\ request'[c] \in Request /\ request'[c].items = request[c].items
      /\ request'[c].written = request[c].written \cup {item.id}
      /\ request'[c].phase = request[c].phase /\ (request'[c].create <=> request[c].create)
      /\ \A d \in Client : d # c => request'[d] = request[d]
      /\ request' \in [Client -> Request \cup {None}]
  BY <1>5, <1>6, <1>7 DEF IInv, Types, Request
<1>9. request'[c] # None /\ request[c] # None
  BY <1>5, <1>8, Constants
<1>10. \A d \in Client : /\ request'[d].items = request[d].items
                         /\ (request'[d] # None /\ request'[d].phase = "gated" <=>
                              request[d] # None /\ request[d].phase = "gated")
                         /\ request'[d].from = request[d].from \/ d = c
                         /\ IsWriting(d)' <=> IsWriting(d)
                         /\ Creates(d)' <=> Creates(d)
                         /\ Overwrites(d)' <=> Overwrites(d)
  BY <1>8, <1>9 DEF IsWriting, Creates, Overwrites
<1>11. \A d \in Client : \A i : Works(d, i)' <=> Works(d, i)
  BY <1>10 DEF Works
<1>12. /\ files' \in [Id -> [Name -> File]]
       /\ \A i \in Id, n \in Name :
            files'[i][n] = IF i = item.id /\ n = item.row.name THEN item.row.hash ELSE files[i][n]
  BY <1>2, <1>4 DEF IInv, Types, File
<1>13. Types'
  BY <1>1, <1>8, <1>12 DEF IInv, Types
<1>14. GatedInv'
  BY <1>1, <1>8, <1>10 DEF IInv, GatedInv, Has, IsWriting
<1>15. ItemsInv'
  <2>1. \A d \in Client : IsWriting(d)' => request'[d].written \subseteq {i.id : i \in request'[d].items}
    BY <1>3, <1>8, <1>10 DEF IInv, ItemsInv
  <2> QED
    BY <2>1, <1>10 DEF IInv, ItemsInv
<1>16. CreateInv'
  <2> SUFFICES ASSUME NEW d \in Client, Creates(d), NEW mine \in request[d].items
               PROVE  /\ ~Has(mine.id)' /\ mine.row.name = "new" /\ Promised(mine.row.kind, mine.row.hash)
                      /\ \A n \in Name : files'[mine.id][n] \in MayHold(mine, request'[d].written, n)
                      /\ \A e \in Client \ {d} : ~Works(e, mine.id)'
    BY <1>10 DEF CreateInv
  <2>1. /\ ~Has(mine.id) /\ mine.row.name = "new" /\ Promised(mine.row.kind, mine.row.hash)
        /\ \A n \in Name : files[mine.id][n] \in MayHold(mine, request[d].written, n)
        /\ \A e \in Client \ {d} : ~Works(e, mine.id)
    BY DEF IInv, CreateInv
  <2>2. mine.id \in Id
    BY Owned DEF Creates
  <2>3. CASE mine.id = item.id
    <3>1. d = c
      BY <1>4, <2>3
    <3>2. mine = item
      BY <1>3, <2>3, <3>1 DEF IInv, ItemsInv, Creates
    <3> QED
      BY <1>1, <1>8, <1>11, <1>12, <2>1, <2>2, <3>1, <3>2 DEF Has, MayHold
  <2>4. CASE mine.id # item.id
    <3>1. mine.id \in request'[d].written <=> mine.id \in request[d].written
      BY <1>8, <2>4
    <3> QED
      BY <1>1, <1>11, <1>12, <2>1, <2>2, <2>4, <3>1 DEF Has, MayHold
  <2> QED
    BY <2>3, <2>4
<1>17. OverwriteInv' /\ RenameInv'
  BY <1>1, <1>10 DEF IInv, OverwriteInv, RenameInv, Has
<1>18. ContentInv'
  BY <1>1, <1>4, <1>12 DEF IInv, ContentInv, Has
<1>19. NoLitter'
  <2>1. \A i \in Id : InUse(i)' <=> InUse(i)
    BY <1>10 DEF InUse, IsWriting
  <2>2. InUse(item.id)
    BY <1>4, InUseIsWork
  <2> QED
    BY <1>1, <1>12, <2>1, <2>2 DEF IInv, NoLitter, Has
<1>20. FileSurvives'
  BY <1>1, <1>4, <1>12 DEF IInv, FileSurvives, Has
<1> QED
  BY <1>13, <1>14, <1>15, <1>16, <1>17, <1>18, <1>19, <1>20 DEF IInv

\* A command that ended works on nothing; the others go on as before.
LEMMA Ended ==
  ASSUME IInv, NEW c \in Client, Ask(c, None)
  PROVE  /\ request' \in [Client -> Request \cup {None}] /\ request'[c] = None
         /\ \A d \in Client : d # c => request'[d] = request[d]
         /\ \A d \in Client : d # c => /\ IsWriting(d)' = IsWriting(d) /\ Creates(d)' = Creates(d)
                                       /\ Overwrites(d)' = Overwrites(d)
                                       /\ \A i : Works(d, i)' = Works(d, i)
         /\ ~IsWriting(c)' /\ ~Creates(c)' /\ ~Overwrites(c)' /\ \A i : ~Works(c, i)'
         /\ ItemsInv'
         /\ \A i \in Id : InUse(i) => InUse(i)' \/ Works(c, i)
<1>1. /\ request' \in [Client -> Request \cup {None}] /\ request'[c] = None
      /\ \A d \in Client : d # c => request'[d] = request[d]
  BY DEF Ask, IInv, Types
<1>2. \A d \in Client : d # c => /\ IsWriting(d)' = IsWriting(d) /\ Creates(d)' = Creates(d)
                                 /\ Overwrites(d)' = Overwrites(d)
                                 /\ \A i : Works(d, i)' = Works(d, i)
  BY <1>1 DEF IsWriting, Creates, Overwrites, Works
<1>3. ~IsWriting(c)' /\ ~Creates(c)' /\ ~Overwrites(c)' /\ \A i : ~Works(c, i)'
  BY <1>1 DEF IsWriting, Creates, Overwrites, Works
<1>4. ItemsInv'
  BY <1>1, <1>2, <1>3 DEF IInv, ItemsInv
<1>5. \A i \in Id : InUse(i) => InUse(i)' \/ Works(c, i)
  BY <1>1 DEF InUse, Works, IsWriting
<1> QED
  BY <1>1, <1>2, <1>3, <1>4, <1>5

LEMMA DieStep ==
  ASSUME IInv, NEW c \in Client, Die(c)
  PROVE  IInv'
<1>1. UNCHANGED <<rows, files, renaming>> /\ Ask(c, None)
  BY DEF Die
<1>2. /\ littered \subseteq littered'
      /\ littered' \subseteq Id
      /\ Creates(c) => Created(c) \subseteq littered'
  BY DEF IInv, Types, Die, Creates, Created
<1>3. Types'
  BY <1>1, <1>2, Ended DEF IInv, Types
<1>4. GatedInv' /\ OverwriteInv' /\ RenameInv' /\ ContentInv' /\ FileSurvives'
  BY <1>1, Ended DEF IInv, GatedInv, OverwriteInv, RenameInv, ContentInv, FileSurvives, Has
<1>5. CreateInv'
  BY <1>1, Ended DEF IInv, CreateInv, Has
<1>6. NoLitter'
  <2> SUFFICES ASSUME NEW i \in Id, NEW n \in Name, files[i][n] # None, ~Has(i), ~InUse(i)'
               PROVE  i \in littered'
    BY <1>1 DEF NoLitter, Has
  <2>1. CASE ~Works(c, i)
    BY <2>1, <1>1, <1>2, Ended DEF IInv, NoLitter
  <2>2. CASE Works(c, i)
    <3>1. PICK item \in request[c].items : IsWriting(c) /\ item.id = i
      BY <2>2 DEF Works
    <3>2. Creates(c)
      BY <3>1 DEF Creates, Overwrites, IInv, OverwriteInv
    <3>3. item.row.name = "new" /\ files[i][n] \in MayHold(item, request[c].written, n)
      BY <3>1, <3>2 DEF IInv, CreateInv
    <3>4. n = "new"
      BY <3>3 DEF MayHold
    <3>5. i \in Created(c)
      BY <3>1, <3>3, <3>4 DEF Created
    <3> QED
      BY <1>2, <3>2, <3>5
  <2> QED
    BY <2>1, <2>2
<1> QED
  BY <1>3, <1>4, <1>5, <1>6, Ended, <1>1 DEF IInv

LEMMA CommitStep ==
  ASSUME IInv, NEW c \in Client, Commit(c)
  PROVE  IInv'
<1>1. IsWriting(c) /\ UNCHANGED <<files, renaming, littered>> /\ Ask(c, None)
  BY DEF Commit
<1> DEFINE items == request[c].items
<1>2. request[c].written = {item.id : item \in items}
  BY <1>1 DEF Commit, Unwritten, IInv, ItemsInv
<1>3. ASSUME NEW item \in items
      PROVE  /\ item.id \in Id /\ item.row \in Row /\ item.row # None /\ item.row.hash # None
             /\ ItemOf(c, item.id) = item
             /\ Has(item.id) => Overwrites(c) /\ rows[item.id].kind \in Rewritten
  BY <1>1, Owned, Constants
<1>4. rows' = [i \in Id |-> IF i \in request[c].written THEN ItemOf(c, i).row ELSE rows[i]]
  BY DEF Commit
<1>5. /\ \A item \in items : rows'[item.id] = item.row
      /\ \A i \in Id : ~Works(c, i) => rows'[i] = rows[i]
      /\ rows' \in [Id -> Row \cup {None}]
  <2>1. ASSUME NEW item \in items PROVE rows'[item.id] = item.row
    <3>1. item.id \in request[c].written
      BY <1>2
    <3>2. rows'[item.id] = ItemOf(c, item.id).row
      BY <1>3, <1>4, <3>1
    <3> QED
      BY <1>3, <3>2
  <2>2. \A i \in Id : ~Works(c, i) => rows'[i] = rows[i]
    BY <1>1, <1>2, <1>4 DEF Works
  <2>3. ASSUME NEW i \in Id PROVE rows'[i] \in Row \cup {None}
    <3>1. CASE ~Works(c, i)
      BY <2>2, <3>1 DEF IInv, Types
    <3>2. CASE Works(c, i)
      <4>1. PICK item \in items : item.id = i
        BY <3>2 DEF Works
      <4> QED
        BY <4>1, <1>3, <2>1
    <3> QED
      BY <3>1, <3>2
  <2> QED
    BY <1>4, <2>1, <2>2, <2>3
<1>6. \A i \in Id : Works(c, i) => \E item \in items : item.id = i
  BY DEF Works
<1> HIDE DEF items
<1>7. Types'
  BY <1>1, <1>5, Ended DEF IInv, Types
<1>8. \A i \in Id : /\ Has(i) => Has(i)' /\ rows'[i].kind = rows[i].kind
                    /\ Has(i) /\ rows[i].kind \notin Rewritten => rows'[i] = rows[i]
  <2> SUFFICES ASSUME NEW i \in Id, Has(i)
               PROVE  /\ Has(i)' /\ rows'[i].kind = rows[i].kind
                      /\ rows[i].kind \notin Rewritten => rows'[i] = rows[i]
    OBVIOUS
  <2>1. CASE ~Works(c, i)
    BY <2>1, <1>5 DEF Has
  <2>2. CASE Works(c, i)
    <3>1. PICK item \in items : item.id = i
      BY <2>2, <1>6
    <3>2. Overwrites(c) /\ rows[i].kind \in Rewritten /\ rows'[i] = item.row /\ item.row # None
      BY <3>1, <1>3, <1>5
    <3>3. item.row.kind = rows[i].kind
      BY <3>1, <3>2 DEF IInv, OverwriteInv, items
    <3> QED
      BY <3>2, <3>3 DEF Has
  <2> QED
    BY <2>1, <2>2
<1>9. \A i \in Id : Works(c, i) => Has(i)'
  <2> SUFFICES ASSUME NEW i \in Id, Works(c, i) PROVE Has(i)'
    OBVIOUS
  <2>1. PICK item \in items : item.id = i
    BY <1>6
  <2>2. rows'[i] = item.row /\ item.row # None
    BY <2>1, <1>3, <1>5
  <2> QED
    BY <2>2 DEF Has
<1>10. GatedInv'
  <2> SUFFICES ASSUME NEW d \in Client, d # c, request[d] # None, request[d].phase = "gated",
                      NEW source, source = request[d].from
               PROVE  /\ Has(source)' /\ rows'[source].kind \in {"resume", "vacancy"}
                      /\ rows'[source].kind = "resume" => rows'[source].hash \in Good
    BY <1>1, Ended DEF GatedInv, Has
  <2>1. source \in Id
    BY GatedTyped DEF IInv
  <2>2. /\ Has(source) /\ rows[source].kind \in {"resume", "vacancy"}
        /\ rows[source].kind = "resume" => rows[source].hash \in Good
    BY DEF IInv, GatedInv
  <2>3. /\ Has(source)' /\ rows'[source].kind = rows[source].kind
        /\ rows[source].kind = "resume" => rows'[source] = rows[source]
    BY <1>8, <2>1, <2>2 DEF Rewritten
  <2> QED
    BY <2>2, <2>3
<1>11. CreateInv'
  <2> SUFFICES ASSUME NEW d \in Client, d # c, Creates(d), NEW mine \in request[d].items
               PROVE  /\ ~Has(mine.id)' /\ mine.row.name = "new" /\ Promised(mine.row.kind, mine.row.hash)
                      /\ \A n \in Name : files[mine.id][n] \in MayHold(mine, request[d].written, n)
                      /\ \A e \in Client \ {d} : ~Works(e, mine.id)'
    BY <1>1, Ended DEF CreateInv
  <2>1. /\ ~Has(mine.id) /\ mine.row.name = "new" /\ Promised(mine.row.kind, mine.row.hash)
        /\ \A n \in Name : files[mine.id][n] \in MayHold(mine, request[d].written, n)
        /\ \A e \in Client \ {d} : ~Works(e, mine.id)
    BY DEF IInv, CreateInv
  <2>2. mine.id \in Id
    BY Owned DEF Creates
  <2>3. ~Has(mine.id)'
    BY <1>5, <2>1, <2>2 DEF Has
  <2> QED
    BY <1>1, <2>1, <2>3, Ended
<1>12. OverwriteInv'
  <2> SUFFICES ASSUME NEW d \in Client, d # c, Overwrites(d), NEW mine \in request[d].items
               PROVE  Has(mine.id)' /\ mine.row.kind = rows'[mine.id].kind /\ mine.row.kind \in Rewritten
    BY <1>1, Ended DEF OverwriteInv
  <2>1. Has(mine.id) /\ mine.row.kind = rows[mine.id].kind /\ mine.row.kind \in Rewritten /\ mine.id \in Id
    BY Owned DEF Overwrites, IInv, OverwriteInv
  <2> QED
    BY <1>8, <2>1
<1>13. RenameInv'
  BY <1>1, <1>8 DEF IInv, Types, Renaming, RenameInv
<1>14. ContentInv' /\ FileSurvives'
  <2> SUFFICES ASSUME NEW i \in Id, Has(i)'
               PROVE  /\ \E n \in Name : files[i][n] # None
                      /\ rows'[i].kind \notin Rewritten =>
                           /\ \A n \in Name : files[i][n] \in {rows'[i].hash, None}
                           /\ Promised(rows'[i].kind, rows'[i].hash)
    BY <1>1 DEF ContentInv, FileSurvives
  <2>1. CASE Has(i)
    <3>1. rows'[i].kind = rows[i].kind /\ (rows[i].kind \notin Rewritten => rows'[i] = rows[i])
      BY <1>8, <2>1
    <3> QED
      BY <2>1, <3>1 DEF IInv, ContentInv, FileSurvives
  <2>2. CASE ~Has(i)
    <3>1. PICK item \in items : item.id = i
      BY <2>2, <1>5, <1>6 DEF Has
    <3>2. Creates(c) /\ rows'[i] = item.row /\ i \in request[c].written /\ item \in request[c].items
      BY <2>2, <3>1, <1>1, <1>2, <1>5 DEF IInv, OverwriteInv, Overwrites, Creates, items
    <3>3. Promised(item.row.kind, item.row.hash) /\ files[i]["new"] = item.row.hash
          /\ \A n \in Name : files[i][n] \in {item.row.hash, None}
      BY <3>1, <3>2 DEF IInv, CreateInv, Name, MayHold
    <3> QED
      BY <1>3, <3>1, <3>2, <3>3 DEF Name
  <2> QED
    BY <2>1, <2>2
<1>15. NoLitter'
  <2> SUFFICES ASSUME NEW i \in Id, NEW n \in Name, files[i][n] # None, ~Has(i)', ~InUse(i)'
               PROVE  i \in littered
    BY <1>1 DEF NoLitter
  <2>1. ~Works(c, i) /\ ~InUse(i) /\ ~Has(i)
    BY <1>1, <1>8, <1>9, Ended
  <2> QED
    BY <2>1 DEF IInv, NoLitter
<1> QED
  BY <1>1, <1>7, <1>10, <1>11, <1>12, <1>13, <1>14, <1>15, Ended DEF IInv

LEMMA FailCommitStep ==
  ASSUME IInv, NEW c \in Client, FailCommit(c)
  PROVE  IInv'
<1>1. /\ IsWriting(c) /\ UNCHANGED <<rows, renaming, littered>> /\ Ask(c, None)
      /\ files' = RemoveCreated(c)
  BY DEF FailCommit
<1> DEFINE items == request[c].items
<1>2. request[c].written = {item.id : item \in items}
  BY <1>1 DEF FailCommit, Unwritten, IInv, ItemsInv
<1>3. /\ files' \in [Id -> [Name -> File]]
      /\ \A i \in Id : ~(Creates(c) /\ Works(c, i)) => files'[i] = files[i]
      /\ Creates(c) => \A i \in Id : Works(c, i) => \A n \in Name : files'[i][n] = None
  <2>1. CASE Overwrites(c)
    <3>1. files' = files /\ ~Creates(c)
      BY <1>1, <2>1 DEF RemoveCreated, Creates, Overwrites
    <3> QED
      BY <3>1 DEF IInv, Types
  <2>2. CASE Creates(c)
    <3>1. files' = [i \in Id |-> IF i \in request[c].written
                     THEN [files[i] EXCEPT ![ItemOf(c, i).row.name] = None] ELSE files[i]]
      BY <1>1, <2>2 DEF RemoveCreated, Creates
    <3>2. \A i \in Id : ~Works(c, i) => files'[i] = files[i]
      BY <1>1, <1>2, <3>1 DEF Works
    <3>3. ASSUME NEW i \in Id, Works(c, i)
          PROVE  files'[i] \in [Name -> File] /\ \A n \in Name : files'[i][n] = None
      <4>1. PICK item \in items : item.id = i
        BY <3>3 DEF Works
      <4>2. ItemOf(c, i) = item /\ item.row.name = "new"
        BY <4>1, <1>1, <2>2, Owned DEF IInv, CreateInv
      <4>3. files'[i] = [files[i] EXCEPT !["new"] = None]
        BY <1>2, <3>1, <4>1, <4>2
      <4>4. files[i] \in [Name -> File] /\ files[i]["old"] = None
        BY <2>2, <4>1 DEF IInv, Types, CreateInv, Name, MayHold
      <4> QED
        BY <4>3, <4>4 DEF Name, File
    <3>4. \A i \in Id : files'[i] \in [Name -> File]
      BY <3>2, <3>3 DEF IInv, Types
    <3> QED
      BY <2>2, <3>1, <3>2, <3>3, <3>4
  <2> QED
    BY <1>1, <2>1, <2>2 DEF Creates, Overwrites
<1>4. Types'
  BY <1>1, <1>3, Ended DEF IInv, Types
<1>5. GatedInv' /\ OverwriteInv' /\ RenameInv'
  BY <1>1, Ended DEF IInv, GatedInv, OverwriteInv, RenameInv, Has
<1>6. \A i \in Id : Has(i) => files'[i] = files[i]
  BY <1>3 DEF Works, Creates, IInv, CreateInv
<1>7. CreateInv'
  <2> SUFFICES ASSUME NEW d \in Client, d # c, Creates(d), NEW mine \in request[d].items
               PROVE  /\ ~Has(mine.id) /\ mine.row.name = "new" /\ Promised(mine.row.kind, mine.row.hash)
                      /\ \A n \in Name : files'[mine.id][n] \in MayHold(mine, request[d].written, n)
                      /\ \A e \in Client \ {d} : ~Works(e, mine.id)'
    BY <1>1, Ended DEF CreateInv, Has
  <2>1. /\ ~Has(mine.id) /\ mine.row.name = "new" /\ Promised(mine.row.kind, mine.row.hash)
        /\ \A n \in Name : files[mine.id][n] \in MayHold(mine, request[d].written, n)
        /\ \A e \in Client \ {d} : ~Works(e, mine.id)
    BY DEF IInv, CreateInv
  <2>2. mine.id \in Id
    BY Owned DEF Creates
  <2>3. files'[mine.id] = files[mine.id]
    BY <1>3, <2>1, <2>2
  <2> QED
    BY <1>1, <2>1, <2>3, Ended
<1>8. ContentInv' /\ FileSurvives'
  BY <1>1, <1>6 DEF IInv, ContentInv, FileSurvives, Has
<1>9. NoLitter'
  <2> SUFFICES ASSUME NEW i \in Id, NEW n \in Name, files'[i][n] # None, ~Has(i), ~InUse(i)'
               PROVE  i \in littered
    BY <1>1 DEF NoLitter, Has
  <2>1. ~Works(c, i)
    <3>1. CASE Creates(c)
      BY <3>1, <1>3
    <3>2. CASE Overwrites(c)
      BY <3>2 DEF Works, IInv, OverwriteInv
    <3> QED
      BY <1>1, <3>1, <3>2 DEF Creates, Overwrites
  <2>2. ~InUse(i) /\ files[i][n] # None
    BY <1>1, <1>3, <2>1, Ended
  <2> QED
    BY <2>2 DEF IInv, NoLitter
<1> QED
  BY <1>1, <1>4, <1>5, <1>7, <1>8, <1>9, Ended DEF IInv
-----------------------------------------------------------------------------
\* The rename tool.

LEMMA ToolIdle ==
  ASSUME IInv, UNCHANGED <<rows, files, request, littered>>, renaming' \in Renaming \cup {None},
         renaming' # None => Has(renaming'.id)
  PROVE  IInv'
<1>1. Types' /\ RenameInv'
  BY DEF IInv, Types, RenameInv, Has
<1>2. GatedInv' /\ ItemsInv' /\ ContentInv' /\ NoLitter' /\ FileSurvives'
  BY DEF IInv, GatedInv, ItemsInv, ContentInv, NoLitter, FileSurvives, Has, InUse, IsWriting
<1>3. CreateInv' /\ OverwriteInv'
  BY DEF IInv, CreateInv, OverwriteInv, Creates, Overwrites, Works, IsWriting, Has
<1> QED
  BY <1>1, <1>2, <1>3 DEF IInv

LEMMA PlanStep ==
  ASSUME IInv, (\E i \in Id : PlanRename(i)) \/ AbandonRename
  PROVE  IInv'
<1>1. CASE AbandonRename
  BY <1>1, ToolIdle DEF AbandonRename
<1>2. CASE \E i \in Id : PlanRename(i)
  <2>1. PICK i \in Id : PlanRename(i)
    BY <1>2
  <2>2. renaming' \in Renaming /\ renaming'.id = i
    BY <2>1 DEF PlanRename, Renaming
  <2> QED
    BY <2>1, <2>2, ToolIdle DEF PlanRename
<1> QED
  BY <1>1, <1>2

LEMMA MoveFileStep ==
  ASSUME IInv, MoveFile
  PROVE  IInv'
<1> DEFINE i == renaming.id
           f == files[i]
<1>1. /\ renaming \in Renaming /\ i \in Id /\ Has(i) /\ UNCHANGED <<rows, request, littered>>
  BY DEF MoveFile, IInv, Types, Renaming, RenameInv
<1>2. CASE files' = files
  <2>1. renaming' \in Renaming \cup {None} /\ (renaming' # None => renaming'.id = i)
    BY <1>1 DEF MoveFile, Renaming
  <2> QED
    BY <1>1, <1>2, <2>1, ToolIdle
<1>3. CASE files' # files
  <2>1. /\ f["new"] = None /\ f["old"] # None
        /\ renaming' = [renaming EXCEPT !.moved = TRUE]
        /\ files' = [files EXCEPT ![i] = [n \in Name |-> IF n = "new" THEN f["old"] ELSE None]]
    BY <1>3 DEF MoveFile
  <2>2. renaming' \in Renaming /\ renaming'.id = i
    BY <1>1, <2>1 DEF Renaming
  <2>3. /\ files' \in [Id -> [Name -> File]] /\ files'[i]["new"] = f["old"] /\ files'[i]["old"] = None
        /\ \A j \in Id : j # i => files'[j] = files[j]
    BY <1>1, <2>1 DEF IInv, Types, File, Name
  <2>4. Types' /\ RenameInv'
    BY <1>1, <2>2, <2>3 DEF IInv, Types, RenameInv, Has
  <2>5. GatedInv' /\ ItemsInv' /\ OverwriteInv'
    BY <1>1 DEF IInv, GatedInv, ItemsInv, OverwriteInv, Overwrites, IsWriting, Has
  <2>6. CreateInv'
    <3> SUFFICES ASSUME NEW c \in Client, Creates(c), NEW item \in request[c].items
                 PROVE  /\ ~Has(item.id) /\ item.row.name = "new" /\ Promised(item.row.kind, item.row.hash)
                        /\ \A n \in Name : files'[item.id][n] \in MayHold(item, request[c].written, n)
                        /\ \A d \in Client \ {c} : ~Works(d, item.id)
      BY <1>1 DEF CreateInv, Creates, Works, IsWriting, Has
    <3>1. ~Has(item.id) /\ item.id \in Id
      BY Owned DEF IInv, CreateInv, Creates
    <3>2. files'[item.id] = files[item.id]
      BY <1>1, <2>3, <3>1
    <3> QED
      BY <3>2 DEF IInv, CreateInv
  <2>7. ContentInv'
    BY <1>1, <2>3 DEF IInv, ContentInv, Has, Name
  <2>8. FileSurvives'
    BY <1>1, <2>1, <2>3 DEF IInv, FileSurvives, Has, Name
  <2>9. NoLitter'
    BY <1>1, <2>3 DEF IInv, NoLitter, Has, InUse
  <2> QED
    BY <2>4, <2>5, <2>6, <2>7, <2>8, <2>9 DEF IInv
<1> QED
  BY <1>2, <1>3

LEMMA CommitRenameStep ==
  ASSUME IInv, CommitRename
  PROVE  IInv'
<1> DEFINE i == renaming.id
<1>1. /\ renaming \in Renaming /\ i \in Id /\ Has(i) /\ UNCHANGED <<files, request, littered>>
      /\ renaming' = None /\ rows[i] \in Row
  BY HasTyped DEF CommitRename, Locked, IInv, Types, Renaming, RenameInv
<1>2. rows' = [rows EXCEPT ![i] = [rows[i] EXCEPT !.name = "new"]]
  BY DEF CommitRename
<1>3. [rows[i] EXCEPT !.name = "new"] \in Row
  BY <1>1 DEF Row, Name
<1>4. /\ rows' \in [Id -> Row \cup {None}]
      /\ \A j \in Id : Has(j)' <=> Has(j)
      /\ \A j \in Id : Has(j) => rows'[j].kind = rows[j].kind /\ rows'[j].hash = rows[j].hash
  BY <1>1, <1>2, <1>3, Constants DEF IInv, Types, Has, Row
<1>5. Types' /\ RenameInv'
  BY <1>1, <1>4 DEF IInv, Types, RenameInv
<1>6. GatedInv'
  BY <1>1, <1>4, GatedTyped DEF IInv, GatedInv
<1>7. ItemsInv'
  BY <1>1 DEF IInv, ItemsInv, IsWriting
<1>8. \A c \in Client : IsWriting(c) => \A item \in request[c].items : item.id \in Id
  BY Owned
<1>9. CreateInv'
  <2>1. \A c \in Client : Creates(c)' = Creates(c) /\ \A j : Works(c, j)' = Works(c, j)
    BY <1>1 DEF Creates, Works, IsWriting
  <2> QED
    BY <1>1, <1>4, <1>8, <2>1 DEF IInv, CreateInv, Creates
<1>10. OverwriteInv'
  <2>1. \A c \in Client : Overwrites(c)' = Overwrites(c)
    BY <1>1 DEF Overwrites, IsWriting
  <2> QED
    BY <1>1, <1>4, <1>8, <2>1 DEF IInv, OverwriteInv, Overwrites
<1>11. ContentInv' /\ FileSurvives' /\ NoLitter'
  BY <1>1, <1>4 DEF IInv, ContentInv, FileSurvives, NoLitter, InUse
<1> QED
  BY <1>5, <1>6, <1>7, <1>9, <1>10, <1>11 DEF IInv
-----------------------------------------------------------------------------
LEMMA StepInv == IInv /\ [Next]_vars => IInv'
<1> SUFFICES ASSUME IInv, [Next]_vars PROVE IInv'
  OBVIOUS
<1>1. CASE UNCHANGED vars
  BY <1>1, ToolIdle DEF vars, IInv, Types, RenameInv
<1>2. ASSUME NEW c \in Client, NEW x \in Content, NEW kinds \in (SUBSET Addressed) \ {{}}, Generate(c, kinds, x)
      PROVE  IInv'
  BY <1>2, GenerateStep
<1>3. ASSUME NEW c \in Client, NEW source \in Id,
             AskFinalize(c, source) \/ \E x \in Content : GenerateVacancy(c, source, x)
      PROVE  IInv'
  BY <1>3, AskFinalizeStep, GenerateVacancyStep
<1>4. ASSUME NEW c \in Client, ReadSource(c) \/ Truncate(c) \/ WriteFile(c) \/ Commit(c) \/ FailCommit(c) \/ Die(c)
      PROVE  IInv'
  BY <1>4, ReadSourceStep, TruncateStep, WriteFileStep, CommitStep, FailCommitStep, DieStep
<1>5. CASE (\E i \in Id : PlanRename(i)) \/ MoveFile \/ CommitRename \/ AbandonRename
  BY <1>5, PlanStep, MoveFileStep, CommitRenameStep
<1> QED
  BY <1>1, <1>2, <1>3, <1>4, <1>5 DEF Next

\* Commands, rows and files fit together at every step.
THEOREM Inductive == Spec => []IInv
<1>1. Init => IInv
  BY InitInv
<1>2. IInv /\ [Next]_vars => IInv'
  BY StepInv
<1> QED
  BY <1>1, <1>2, PTL DEF Spec

\* Rows, files and the commands under way are well formed.
THEOREM TypesHold == Spec => []TypeOK
<1>1. IInv => TypeOK
  BY TypesCorrect DEF IInv
<1> QED
  BY <1>1, Inductive, PTL

\* No failed command and no interrupted rename costs an artifact its file.
THEOREM FilesSurvive == Spec => []FileSurvives
<1>1. IInv => FileSurvives
  BY DEF IInv
<1> QED
  BY <1>1, Inductive, PTL

\* A failed transaction leaves no file without a row.
THEOREM NothingLitters == Spec => []NoLitter
<1>1. IInv => NoLitter
  BY DEF IInv
<1> QED
  BY <1>1, Inductive, PTL

\* What is created once holds what its hash says, and a final what passed the gate.
THEOREM ContentKept == Spec => []ContentAsPromised
<1>1. IInv => ContentAsPromised
  <2> SUFFICES ASSUME IInv, NEW i \in Id, Has(i), rows[i].kind \notin Rewritten
               PROVE  /\ FileOf(i) \in {rows[i].hash, None}
                      /\ rows[i].kind = "final" => rows[i].hash \in Good
    BY DEF ContentAsPromised
  <2>1. rows[i].name \in Name
    BY HasTyped, RowTyped DEF IInv
  <2> QED
    BY <2>1 DEF IInv, ContentInv, FileOf, Promised
<1> QED
  BY <1>1, Inductive, PTL
-----------------------------------------------------------------------------
(***************************************************************************)
(* Approvals and board actions                                             *)
(***************************************************************************)

ActionTypes ==
  /\ approvals \in [ApprovalKey -> ApprovalRow \cup {NoRow}]
  /\ actions \in [ActionKey -> ActionRow \cup {NoRow}]
  /\ command \in [Client -> Command \cup {NoRow}]
Items == review \in [ActionKey -> {"open", "resolved", "rejected", NoRow}] /\ usage \subseteq ActionKey

\* A completed action that needs an approval has one that matches it.
Approved(row, table) ==
  row.state = "completed" /\ row.shape.type \in NeedsApproval =>
    row.approval \in ApprovalKey /\ ApprovalMatches(table[row.approval], row.shape)
ApprovedInv ==
  /\ \A k \in ActionKey : actions[k] # NoRow => Approved(actions[k], approvals)
  /\ \A c \in Client : command[c] # NoRow => Approved(command[c].row, approvals)

ActionInv == ActionTypes /\ Items /\ ApprovedInv

LEMMA ActionInit == ActionsInit => ActionInv
BY DEF ActionsInit, ActionInv, ActionTypes, Items, ApprovedInv

\* A decision that was recorded is never changed, so what was approved stays approved.
LEMMA StaysApproved ==
  ASSUME ActionTypes, NEW key \in ApprovalKey, NEW new, NEW row, Approved(row, approvals),
         approvals' = Recorded(approvals, key, new)
  PROVE  Approved(row, approvals')
<1> USE DEF ActionTypes, Recorded
<1>1. CASE ~(row.state = "completed" /\ row.shape.type \in NeedsApproval)
  BY <1>1 DEF Approved, NeedsApproval
<1>2. CASE row.state = "completed" /\ row.shape.type \in NeedsApproval
  <2>1. row.approval \in ApprovalKey /\ ApprovalMatches(approvals[row.approval], row.shape)
    BY <1>2 DEF Approved
  <2>2. approvals'[row.approval] = approvals[row.approval]
    BY <2>1 DEF ApprovalMatches
  <2> QED
    BY <2>1, <2>2 DEF Approved
<1> QED
  BY <1>1, <1>2

LEMMA ActionStep == ActionInv /\ [ActionsNext]_actionVars => ActionInv'
<1> SUFFICES ASSUME ActionInv, [ActionsNext]_actionVars PROVE ActionInv'
  OBVIOUS
<1>a. ActionTypes /\ Items /\ ApprovedInv
  BY DEF ActionInv
<1>1. ASSUME NEW key \in ApprovalKey, NEW shape \in Shape, NEW state \in ApprovalState,
             RecordApproval(key, shape, state)
      PROVE  ActionInv'
  <2>1. /\ approvals' = Recorded(approvals, key, [state |-> state, shape |-> shape])
        /\ UNCHANGED <<actions, usage, review, command>>
    BY <1>1 DEF RecordApproval
  <2>2. [state |-> state, shape |-> shape] \in ApprovalRow
    BY DEF ApprovalRow
  <2>3. ActionTypes' /\ Items'
    BY <1>a, <2>1, <2>2 DEF ActionTypes, Items, Recorded, ActionRow, Command
  <2>4. ASSUME NEW row, Approved(row, approvals) PROVE Approved(row, approvals')
    BY <1>a, <2>1, <2>4, StaysApproved
  <2> QED
    BY <1>a, <2>1, <2>3, <2>4 DEF ActionInv, ApprovedInv
<1>2. ASSUME NEW c \in Client, NEW key \in ActionKey, NEW shape \in Shape, NEW state \in ActionState,
             NEW approval \in ApprovalKey \cup {NoRow},
             ValidateAction(c, key, shape, state, approval)
      PROVE  ActionInv'
  <2> DEFINE row == [shape |-> shape, state |-> state, approval |-> approval]
  <2>1. /\ command' = [command EXCEPT ![c] = [key |-> key, row |-> row]]
        /\ UNCHANGED <<approvals, actions, usage, review>>
    BY <1>2 DEF ValidateAction
  <2>2. [key |-> key, row |-> row] \in Command
    BY DEF Command, ActionRow
  <2>3. Approved(row, approvals)
    BY <1>2 DEF ValidateAction, Approved
  <2>4. ActionTypes' /\ Items'
    BY <1>a, <2>1, <2>2 DEF ActionTypes, Items, ActionRow, ApprovalRow
  <2>5. approvals' = approvals
    BY <2>1
  <2>6. \A d \in Client : command'[d] = IF d = c THEN [key |-> key, row |-> row] ELSE command[d]
    BY <1>a, <2>1 DEF ActionTypes
  <2>7. ASSUME NEW d \in Client, command'[d] # NoRow PROVE Approved(command'[d].row, approvals')
    BY <1>a, <2>3, <2>5, <2>6, <2>7 DEF ApprovedInv
  <2> QED
    BY <1>a, <2>1, <2>4, <2>5, <2>7 DEF ActionInv, ApprovedInv
<1>3. ASSUME NEW c \in Client, RecordAction(c) PROVE ActionInv'
  <2> DEFINE k == command[c].key
             row == command[c].row
  <2>1. /\ command[c] \in Command
        /\ actions' = Recorded(actions, k, row)
        /\ usage' = IF row.shape.artifact # NoRef THEN usage \cup {k} ELSE usage
        /\ review' = Recorded(review, k, Classified(actions'[k]))
        /\ command' = [command EXCEPT ![c] = NoRow] /\ UNCHANGED approvals
    BY <1>a, <1>3 DEF RecordAction, ActionTypes
  <2>2. k \in ActionKey /\ row \in ActionRow /\ command[c] # NoRow
    BY <1>3, <2>1 DEF Command, RecordAction
  <2>3. Classified(actions'[k]) \in {"open", "resolved"}
    BY DEF Classified
  <2>4. ActionTypes' /\ Items'
    <3>1. command' \in [Client -> Command \cup {NoRow}]
      BY <1>a, <2>1 DEF ActionTypes
    <3>2. actions' \in [ActionKey -> ActionRow \cup {NoRow}]
      BY <1>a, <2>1, <2>2 DEF ActionTypes, Recorded
    <3>3. review' \in [ActionKey -> {"open", "resolved", "rejected", NoRow}] /\ usage' \subseteq ActionKey
      BY <1>a, <2>1, <2>2, <2>3 DEF Items, Recorded
    <3> QED
      BY <1>a, <2>1, <3>1, <3>2, <3>3 DEF ActionTypes, Items, ActionRow, ApprovalRow, Command
  <2>5. approvals' = approvals
    BY <2>1
  <2>6. ASSUME NEW d \in Client, command'[d] # NoRow PROVE Approved(command'[d].row, approvals')
    BY <1>a, <2>1, <2>5, <2>6 DEF ApprovedInv, ActionTypes
  <2>7. ASSUME NEW i \in ActionKey, actions'[i] # NoRow PROVE Approved(actions'[i], approvals')
    <3>1. actions'[i] = actions[i] \/ actions'[i] = row
      BY <1>a, <2>1, <2>2 DEF ActionTypes, Recorded
    <3> QED
      BY <1>a, <2>2, <2>5, <2>7, <3>1 DEF ApprovedInv
  <2> QED
    BY <2>4, <2>6, <2>7 DEF ActionInv, ApprovedInv
<1>4. ASSUME NEW c \in Client, AbandonCommand(c) PROVE ActionInv'
  <2>1. command' = [command EXCEPT ![c] = NoRow] /\ UNCHANGED <<approvals, actions, usage, review>>
    BY <1>4 DEF AbandonCommand
  <2>2. ActionTypes' /\ Items'
    BY <1>a, <2>1 DEF ActionTypes, Items, ActionRow, ApprovalRow, Command
  <2>3. approvals' = approvals
    BY <2>1
  <2>4. ASSUME NEW d \in Client, command'[d] # NoRow PROVE Approved(command'[d].row, approvals')
    BY <1>a, <2>1, <2>3, <2>4 DEF ApprovedInv, ActionTypes
  <2> QED
    BY <1>a, <2>1, <2>2, <2>3, <2>4 DEF ActionInv, ApprovedInv
<1>5. ASSUME NEW key \in ActionKey, NEW decision \in {"resolved", "rejected"}, ResolveItem(key, decision)
      PROVE  ActionInv'
  BY <1>a, <1>5 DEF ResolveItem, ActionInv, ActionTypes, Items, ApprovedInv, Approved
<1>6. CASE UNCHANGED actionVars
  BY <1>a, <1>6 DEF actionVars, ActionInv, ActionTypes, Items, ApprovedInv, Approved, ApprovalRow, ActionRow, Command
<1> QED
  BY <1>1, <1>2, <1>3, <1>4, <1>5, <1>6 DEF ActionsNext

\* What was completed had been approved, whatever was decided between check and
\* transaction: a decision is never overwritten, its key finds the first row.
THEOREM CompletedStaysApproved == ActionsSpec => []CompletedWasApproved
<1>1. ActionInv => CompletedWasApproved
  BY DEF ActionInv, ApprovedInv, Approved, CompletedWasApproved
<1> QED
  BY ActionInit, ActionStep, <1>1, PTL DEF ActionsSpec

\* Rows, the counted uses and the items of the review keep their shape.
THEOREM ActionTypesHold == ActionsSpec => []ActionsTypeOK
<1>1. ActionInv => ActionsTypeOK
  BY DEF ActionInv, ActionTypes, Items, ActionsTypeOK
<1> QED
  BY ActionInit, ActionStep, <1>1, PTL DEF ActionsSpec

\* No repetition of an action reopens an item the operator has decided.
THEOREM DecisionsStand == ActionsSpec => ReviewStands
<1>1. ASSUME ActionInv, [ActionsNext]_actionVars, NEW k \in ActionKey, review[k] \in {"resolved", "rejected"}
      PROVE  review'[k] \in {"resolved", "rejected"}
  <2>1. review[k] # NoRow
    BY <1>1, ShapesAssumption DEF ShapesAssumption
  <2> QED
    BY <1>1, <2>1 DEF ActionInv, Items, ActionsNext, actionVars, RecordApproval, ValidateAction, RecordAction,
       AbandonCommand, ResolveItem, Recorded
<1>2. ActionInv /\ [ActionsNext]_actionVars => 
       [\A k \in ActionKey :
       review[k] \in {"resolved", "rejected"} => review'[k] \in {"resolved", "rejected"}]_actionVars
  BY <1>1
<1> QED
  BY ActionInit, ActionStep, <1>2, PTL DEF ActionsSpec, ReviewStands
-----------------------------------------------------------------------------
(***************************************************************************)
(* Vacancies.  A batch is folded item by item; what a fold keeps is shown   *)
(* by induction on the number of items, with sets of naturals for           *)
(* predicates.                                                             *)
(***************************************************************************)

LessThan == {pair \in Nat \X Nat : pair[1] < pair[2]}
LEMMA LeastMember ==
  ASSUME NEW S, S \subseteq Nat, S # {}
  PROVE  \E x \in S : \A y \in S : x <= y
<1>1. OpToRel(<, Nat) = LessThan
  BY DEF OpToRel, LessThan
<1>2. IsWellFoundedOn(LessThan, Nat)
  BY NatLessThanWellFounded, <1>1
<1>3. PICK x \in S : \A y \in S : <<y, x>> \notin LessThan
  BY <1>2, WFMin, Zenon
<1>4. ASSUME NEW y \in S PROVE x <= y
  <2>1. <<y, x>> \in Nat \X Nat /\ <<y, x>>[1] = y /\ <<y, x>>[2] = x
    OBVIOUS
  <2>2. ~(y < x)
    BY <1>3, <2>1 DEF LessThan
  <2> QED
    BY <2>2
<1> QED
  BY <1>3, <1>4

LEMMA Upwards ==
  ASSUME NEW S, S \subseteq Nat, 0 \in S, \A n \in S : n + 1 \in S
  PROVE  S = Nat
<1> SUFFICES ASSUME Nat \ S # {} PROVE FALSE
  OBVIOUS
<1>1. PICK x \in Nat \ S : \A y \in Nat \ S : x <= y
  BY LeastMember
<1>2. x # 0 /\ x - 1 \in Nat /\ (x - 1) + 1 = x /\ ~(x <= x - 1)
  BY <1>1
<1> QED
  BY <1>1, <1>2

LEMMA LargestMember ==
  ASSUME NEW n \in Nat, NEW S, S \subseteq 1 .. n, S # {}
  PROVE  Seqs!Max(S) \in S
<1> DEFINE Under == {m \in Nat : \A y \in S : y <= m}
<1>1. n \in Under
  OBVIOUS
<1>2. PICK m \in Under : \A k \in Under : m <= k
  BY <1>1, LeastMember
<1>3. m \in S
  <2>1. SUFFICES ASSUME m \notin S PROVE FALSE
    OBVIOUS
  <2>2. m # 0 /\ m - 1 \in Nat
    <3>1. PICK y : y \in S
      OBVIOUS
    <3>2. m \in Nat /\ y <= m /\ y \in Nat /\ 1 <= y
      BY <1>2, <3>1
    <3> QED
      BY <3>2
  <2>3. \A y \in S : y <= m - 1
    BY <1>2, <2>1
  <2> QED
    BY <1>2, <2>2, <2>3
<1>4. \E x \in S : \A y \in S : x >= y
  BY <1>2, <1>3
<1> QED
  BY <1>4 DEF Seqs!Max

\* g folds step over the subsets of D, taking out the element pick chooses.
Folds(g, D, base, pick, step) ==
  \A s \in SUBSET D :
    g[s] = IF s = {} THEN base ELSE step[<<pick[s], g[s \ {pick[s]}]>>]

\* A recursion that takes one element at a time out of a finite set has a solution.
LEMMA FoldDefined ==
  ASSUME NEW D, IsFiniteSet(D), NEW T, NEW base \in T, NEW pick, NEW step \in [D \X T -> T],
         \A s \in SUBSET D : s # {} => pick[s] \in s
  PROVE  \E g \in [SUBSET D -> T] : Folds(g, D, base, pick, step)
<1> DEFINE Up(n) == {s \in SUBSET D : Cardinality(s) <= n}
           Value(g, s) == IF s = {} THEN base ELSE step[<<pick[s], g[s \ {pick[s]}]>>]
           Solves(g, n) == \A s \in Up(n) : g[s] = Value(g, s)
           Solved == {n \in Nat : \E g \in [SUBSET D -> T] : Solves(g, n)}
<1>1. \A s \in SUBSET D : IsFiniteSet(s) /\ Cardinality(s) \in Nat /\ (Cardinality(s) = 0 <=> s = {})
  BY FS_Subset, FS_CardinalityType, FS_EmptySet
<1>2. ASSUME NEW s \in SUBSET D, s # {}
      PROVE  s \ {pick[s]} \in SUBSET D /\ Cardinality(s \ {pick[s]}) = Cardinality(s) - 1
  BY <1>1, <1>2, FS_RemoveElement
<1>3. \A g \in [SUBSET D -> T] : \A s \in SUBSET D : Value(g, s) \in T
  BY <1>2
<1>4. 0 \in Solved
  <2> DEFINE g == [s \in SUBSET D |-> base]
  <2>1. g \in [SUBSET D -> T]
    OBVIOUS
  <2>2. Solves(g, 0)
    BY <1>1
  <2> QED
    BY <2>1, <2>2
<1>5. ASSUME NEW n \in Solved PROVE n + 1 \in Solved
  <2>1. PICK g \in [SUBSET D -> T] : Solves(g, n)
    OBVIOUS
  <2> DEFINE h == [s \in SUBSET D |-> Value(g, s)]
  <2>2. h \in [SUBSET D -> T]
    BY <1>3
  <2>3. \A s \in Up(n) : h[s] = g[s]
    BY <2>1
  <2>4. ASSUME NEW s \in Up(n + 1) PROVE h[s] = Value(h, s)
    <3>1. CASE s = {}
      BY <3>1
    <3>2. CASE s # {}
      <4>1. s \ {pick[s]} \in Up(n)
        BY <1>1, <1>2, <3>2
      <4> QED
        BY <2>3, <3>2, <4>1
    <3> QED
      BY <3>1, <3>2
  <2> HIDE DEF h
  <2>5. Solves(h, n + 1)
    BY <2>4
  <2>6. n + 1 \in Nat
    OBVIOUS
  <2> QED
    BY <2>2, <2>5, <2>6
<1> HIDE DEF Solved
<1>6. Solved = Nat
  <2>1. Solved \subseteq Nat
    BY DEF Solved
  <2> QED
    BY <1>4, <1>5, <2>1, Upwards
<1>7. PICK g \in [SUBSET D -> T] : Solves(g, Cardinality(D))
  BY <1>1, <1>6 DEF Solved
<1>8. \A s \in SUBSET D : s \in Up(Cardinality(D))
  BY <1>1, FS_Subset
<1> QED
  BY <1>7, <1>8 DEF Folds

\* What the empty set has, and every set has if it has it without one of its elements.
LEMMA FoldKeeps ==
  ASSUME NEW D, IsFiniteSet(D), NEW T, NEW g, NEW pick,
         \A s \in SUBSET D : s # {} => pick[s] \in s,
         g[{}] \in T,
         \A s \in SUBSET D : s # {} /\ g[s \ {pick[s]}] \in T => g[s] \in T
  PROVE  \A s \in SUBSET D : g[s] \in T
<1> DEFINE Kept == {n \in Nat : \A s \in SUBSET D : Cardinality(s) = n => g[s] \in T}
<1>1. \A s \in SUBSET D : IsFiniteSet(s) /\ Cardinality(s) \in Nat /\ (Cardinality(s) = 0 <=> s = {})
  BY FS_Subset, FS_CardinalityType, FS_EmptySet
<1>2. 0 \in Kept
  BY <1>1
<1>3. ASSUME NEW n \in Kept PROVE n + 1 \in Kept
  <2>1. ASSUME NEW s \in SUBSET D, Cardinality(s) = n + 1 PROVE g[s] \in T
    <3>1. s # {}
      BY <1>1, <2>1
    <3>2. s \ {pick[s]} \in SUBSET D /\ Cardinality(s \ {pick[s]}) = n
      BY <1>1, <2>1, <3>1, FS_RemoveElement
    <3> QED
      BY <3>1, <3>2
  <2> QED
    BY <2>1
<1> HIDE DEF Kept
<1>4. Kept = Nat
  <2>1. Kept \subseteq Nat
    BY DEF Kept
  <2> QED
    BY <1>2, <1>3, <2>1, Upwards
<1> QED
  BY <1>1, <1>4 DEF Kept


Occurrences == [Vacancy -> [Source -> Posting \cup {NoContent}]]
SeedTypes == seeds \in [Seed -> SeedRow]
VacancyTypes ==
  vacancies \in [Vacancy -> VacancyRow] /\ latest \in Occurrences /\ reviewed \in Occurrences
HandlerTypes == handling \in [Client -> Handling]

\* What a handler saw when it asked was not settled.
SeenInv ==
  \A c \in Client : handling[c].op \in {"preview", "confirm"} => ~Settled(handling[c].seen)

VacancyInv == SeedTypes /\ VacancyTypes /\ HandlerTypes /\ SeenInv /\ ChangeNoticed

\* The database of a transaction, with every change noticed.
Noticed(db) ==
  \A v \in Vacancy : db.vacancies[v].processed /\ db.latest[v] # reviewed[v] => db.vacancies[v].changed
NoticedDb ==
  {db \in [vacancies : [Vacancy -> VacancyRow], latest : Occurrences] : Noticed(db)}

LEMMA ImportNotices ==
  ASSUME NEW db \in NoticedDb, NEW source \in Source, NEW x \in Posting
  PROVE  Imported(db, source, x) \in NoticedDb
<1> DEFINE v == KeyOf[x]
           isNew == db.latest[v][source] # x
           row == [db.vacancies[v] EXCEPT !.known = TRUE, !.changed = @ \/ (isNew /\ db.vacancies[v].processed)]
           new == Imported(db, source, x)
<1>1. v \in Vacancy /\ db.vacancies \in [Vacancy -> VacancyRow] /\ db.latest \in Occurrences /\ Noticed(db)
  BY KeysAssumption DEF NoticedDb, KeysAssumption
<1>2. db.vacancies[v] \in VacancyRow
  BY <1>1
<1>3. row \in VacancyRow /\ row.processed = db.vacancies[v].processed
      /\ row.changed = (db.vacancies[v].changed \/ (isNew /\ db.vacancies[v].processed))
  BY <1>2 DEF VacancyRow
<1>4. new = [vacancies |-> [db.vacancies EXCEPT ![v] = row], latest |-> [db.latest EXCEPT ![v][source] = x]]
  BY <1>1, <1>2 DEF Imported, VacancyRow
<1>5. new.vacancies \in [Vacancy -> VacancyRow] /\ new.latest \in Occurrences
  BY <1>1, <1>3, <1>4 DEF Occurrences
<1> HIDE DEF new, row
<1>6. ASSUME NEW w \in Vacancy, new.vacancies[w].processed, new.latest[w] # reviewed[w]
      PROVE  new.vacancies[w].changed
  <2>1. CASE w # v
    BY <1>1, <1>4, <1>6, <2>1 DEF Noticed
  <2>2. CASE w = v /\ isNew
    BY <1>1, <1>3, <1>4, <1>6, <2>2
  <2>3. CASE w = v /\ ~isNew
    <3>1. new.latest[v] = db.latest[v]
      BY <1>1, <1>4, <2>3 DEF Occurrences
    <3> QED
      BY <1>1, <1>3, <1>4, <1>6, <2>3, <3>1 DEF Noticed
  <2> QED
    BY <2>1, <2>2, <2>3
<1>7. new = [vacancies |-> new.vacancies, latest |-> new.latest]
  BY <1>4
<1>8. new \in NoticedDb
  BY <1>5, <1>6, <1>7 DEF NoticedDb, Noticed
<1> QED
  BY <1>8 DEF new

\* All of a batch, whatever its length.
LEMMA BatchNotices ==
  ASSUME NEW start \in NoticedDb, NEW source \in Source, NEW items \in Seq(Posting)
  PROVE  Seqs!FoldLeft(LAMBDA db, x : Imported(db, source, x), start, items) \in NoticedDb
<1> DEFINE D == DOMAIN items
           Largest(s) == Seqs!Max(s)
           Solution(g) ==
             g = [s \in SUBSET D |->
                    IF s = {} THEN start ELSE Imported(g[s \ {Largest(s)}], source, items[Largest(s)])]
           solution == CHOOSE g : Solution(g)
           pick == [s \in SUBSET D |-> Largest(s)]
           step == [p \in D \X NoticedDb |-> Imported(p[2], source, items[p[1]])]
<1>1. Seqs!FoldLeft(LAMBDA db, x : Imported(db, source, x), start, items) = solution[D]
  BY DEF Seqs!FoldLeft, Seqs!MapThenFoldSet
<1>2. IsFiniteSet(D) /\ D \subseteq Nat /\ \A i \in D : items[i] \in Posting
  BY FS_Interval
<1>3. \A s \in SUBSET D : s # {} => Largest(s) \in s
  BY LargestMember
<1>4. step \in [D \X NoticedDb -> NoticedDb]
  BY <1>2, ImportNotices
<1>5. \E g : Solution(g)
  <2>1. \A s \in SUBSET D : s # {} => pick[s] \in s
    BY <1>3
  <2> HIDE DEF pick, step, D
  <2>2. IsFiniteSet(D) /\ start \in NoticedDb
    BY <1>2
  <2>4. PICK g \in [SUBSET D -> NoticedDb] : Folds(g, D, start, pick, step)
    BY <1>4, <2>1, <2>2, FoldDefined
  <2>3. ASSUME NEW s \in SUBSET D, s # {}
        PROVE  g[s] = Imported(g[s \ {Largest(s)}], source, items[Largest(s)])
    <3>1. pick[s] = Largest(s) /\ Largest(s) \in D
      BY <1>3, <2>3 DEF pick
    <3>2. g[s \ {pick[s]}] \in NoticedDb
      BY <2>3
    <3> QED
      BY <2>3, <2>4, <3>1, <3>2 DEF step, Folds
  <2> QED
    BY <2>3, <2>4 DEF Folds
<1>6. Solution(solution)
  BY <1>5
<1> HIDE DEF solution
<1>7. \A s \in SUBSET D : solution[s] = IF s = {} THEN start ELSE Imported(solution[s \ {Largest(s)}], source, items[Largest(s)])
  BY <1>6
<1>8. \A s \in SUBSET D : solution[s] \in NoticedDb
  <2>1. \A s \in SUBSET D : s # {} => pick[s] = Largest(s) /\ pick[s] \in s
    BY <1>3
  <2>2. ASSUME NEW s \in SUBSET D, s # {}, solution[s \ {pick[s]}] \in NoticedDb PROVE solution[s] \in NoticedDb
    <3>1. items[Largest(s)] \in Posting /\ pick[s] = Largest(s)
      BY <1>2, <1>3, <2>1, <2>2
    <3>2. Imported(solution[s \ {Largest(s)}], source, items[Largest(s)]) \in NoticedDb
      BY <2>2, <3>1, ImportNotices
    <3> QED
      BY <1>7, <2>2, <3>2
  <2>3. solution[{}] \in NoticedDb
    BY <1>7
  <2> HIDE DEF pick
  <2> QED
    BY <1>2, <2>1, <2>2, <2>3, FoldKeeps
<1> QED
  BY <1>1, <1>8
LEMMA VacancyInit == PipelineInit => VacancyInv
<1> SUFFICES ASSUME PipelineInit PROVE VacancyInv
  OBVIOUS
<1>1. SeedTypes
  BY DEF PipelineInit, SeedTypes, SeedRow
<1>2. VacancyTypes
  BY DEF PipelineInit, VacancyTypes, VacancyRow, Stage, Occurrences, NoOccurrence
<1>3. HandlerTypes /\ SeenInv
  BY DEF PipelineInit, HandlerTypes, SeenInv, Handling, NoHandler
<1>4. ChangeNoticed
  BY DEF PipelineInit, ChangeNoticed
<1> QED
  BY <1>1, <1>2, <1>3, <1>4 DEF VacancyInv

\* A handler asks, with what it has seen, or ends.
LEMMA HandlerStep ==
  ASSUME HandlerTypes, SeenInv, NEW c \in Client, NEW r \in Handling,
         handling' = [handling EXCEPT ![c] = r],
         r.op \in {"preview", "confirm"} => ~Settled(r.seen)
  PROVE  HandlerTypes' /\ SeenInv'
<1>1. \A d \in Client : handling'[d] = IF d = c THEN r ELSE handling[d]
  BY DEF HandlerTypes
<1>2. HandlerTypes'
  BY DEF HandlerTypes, Handling, SeedRow, Preview, Stage, NoHandler
<1>3. ASSUME NEW d \in Client, handling'[d].op \in {"preview", "confirm"}
      PROVE  ~Settled(handling'[d].seen)
  BY <1>1, <1>3 DEF SeenInv
<1> QED
  BY <1>2, <1>3 DEF SeenInv

\* The end of a handler.
LEMMA HandlerEnds ==
  ASSUME HandlerTypes, SeenInv, NEW c \in Client, Finish(c)
  PROVE  HandlerTypes' /\ SeenInv'
<1>1. NoHandler \in Handling /\ NoHandler.op \notin {"preview", "confirm"}
  BY DEF NoHandler, Handling
<1>2. handling' = [handling EXCEPT ![c] = NoHandler]
  BY DEF Finish
<1> HIDE DEF NoHandler
<1> QED
  BY <1>1, <1>2, HandlerStep

\* A handler that asks leaves the tables alone.
LEMMA AskStep ==
  ASSUME VacancyInv, NEW c \in Client, NEW r \in Handling, Begin(c, r),
         r.op \in {"preview", "confirm"} => ~Settled(r.seen),
         UNCHANGED <<seeds, vacancies, latest, reviewed>>
  PROVE  VacancyInv'
<1>1. HandlerTypes' /\ SeenInv'
  BY HandlerStep DEF VacancyInv, Begin
<1>2. SeedTypes' /\ VacancyTypes' /\ ChangeNoticed'
  BY DEF VacancyInv, SeedTypes, VacancyTypes, ChangeNoticed, Occurrences
<1> QED
  BY <1>1, <1>2 DEF VacancyInv

LEMMA AskSteps ==
  ASSUME VacancyInv, NEW c \in Client,
         \/ \E s \in Seed :
              \/ AskConfirm(c, s) \/ AskReject(c, s)
              \/ \E content \in Preview : AskPreview(c, s, content)
         \/ \E v \in Vacancy : AskMark(c, v) \/ \E stage \in Stage : AskStage(c, v, stage)
  PROVE  VacancyInv'
<1> USE DEF Handling
<1>1. ASSUME NEW s \in Seed, AskConfirm(c, s) PROVE VacancyInv'
  <2> DEFINE r == [op |-> "confirm", seed |-> s, content |-> seeds[s].preview, seen |-> seeds[s]]
  <2>1. Begin(c, r) /\ UNCHANGED <<seeds, vacancies, latest, reviewed>>
    BY <1>1 DEF AskConfirm
  <2>2. r \in Handling /\ ~Settled(r.seen)
    BY <1>1 DEF AskConfirm, VacancyInv, SeedTypes, Settled
  <2> HIDE DEF r
  <2> QED
    BY <2>1, <2>2, AskStep
<1>2. ASSUME NEW s \in Seed, AskReject(c, s) PROVE VacancyInv'
  <2> DEFINE r == [op |-> "reject", seed |-> s, seen |-> seeds[s]]
  <2>1. Begin(c, r) /\ UNCHANGED <<seeds, vacancies, latest, reviewed>>
    BY <1>2 DEF AskReject
  <2>2. r \in Handling /\ r.op = "reject"
    BY DEF VacancyInv, SeedTypes
  <2> HIDE DEF r
  <2> QED
    BY <2>1, <2>2, AskStep
<1>3. ASSUME NEW s \in Seed, NEW content \in Preview, AskPreview(c, s, content) PROVE VacancyInv'
  <2> DEFINE r == [op |-> "preview", seed |-> s, content |-> content, seen |-> seeds[s]]
  <2>1. Begin(c, r) /\ UNCHANGED <<seeds, vacancies, latest, reviewed>>
    BY <1>3 DEF AskPreview
  <2>2. r \in Handling /\ ~Settled(r.seen)
    BY <1>3 DEF AskPreview, VacancyInv, SeedTypes, Settled
  <2> HIDE DEF r
  <2> QED
    BY <2>1, <2>2, AskStep
<1>4. ASSUME NEW v \in Vacancy, AskMark(c, v) PROVE VacancyInv'
  <2> DEFINE r == [op |-> "mark", vacancy |-> v]
  <2>1. Begin(c, r) /\ UNCHANGED <<seeds, vacancies, latest, reviewed>>
    BY <1>4 DEF AskMark
  <2>2. r \in Handling /\ r.op = "mark"
    OBVIOUS
  <2> HIDE DEF r
  <2> QED
    BY <2>1, <2>2, AskStep
<1>5. ASSUME NEW v \in Vacancy, NEW stage \in Stage, AskStage(c, v, stage) PROVE VacancyInv'
  <2> DEFINE r == [op |-> "stage", vacancy |-> v, to |-> stage]
  <2>1. Begin(c, r) /\ UNCHANGED <<seeds, vacancies, latest, reviewed>>
    BY <1>5 DEF AskStage
  <2>2. r \in Handling /\ r.op = "stage"
    OBVIOUS
  <2> HIDE DEF r
  <2> QED
    BY <2>1, <2>2, AskStep
<1> QED
  BY <1>1, <1>2, <1>3, <1>4, <1>5

\* A transaction on seeds alone.
LEMMA SeedStepKeeps ==
  ASSUME VacancyInv, NEW c \in Client,
         (\E s \in Seed : CreateSeed(c, s)) \/ SavePreview(c) \/ SaveReject(c)
  PROVE  VacancyInv'
<1>1. SeedTypes' /\ UNCHANGED <<vacancies, latest, reviewed>>
  <2>1. ASSUME NEW s \in Seed, CreateSeed(c, s) PROVE SeedTypes'
    BY <2>1 DEF CreateSeed, VacancyInv, SeedTypes, SeedRow, Preview
  <2>2. ASSUME SavePreview(c) PROVE SeedTypes'
    <3>1. handling[c].seed \in Seed /\ handling[c].content \in Preview
      BY <2>2 DEF SavePreview, VacancyInv, HandlerTypes, Handling, NoHandler
    <3> QED
      BY <2>2, <3>1 DEF SavePreview, VacancyInv, SeedTypes, SeedRow, Preview
  <2>3. ASSUME SaveReject(c) PROVE SeedTypes'
    BY <2>3 DEF SaveReject, VacancyInv, SeedTypes, SeedRow, Preview
  <2> QED
    BY <2>1, <2>2, <2>3 DEF CreateSeed, SavePreview, SaveReject
<1>2. VacancyTypes' /\ ChangeNoticed'
  BY <1>1 DEF VacancyInv, VacancyTypes, ChangeNoticed, Occurrences
<1>3. HandlerTypes' /\ SeenInv'
  <2>1. Finish(c) \/ UNCHANGED handling
    BY DEF CreateSeed, SavePreview, SaveReject
  <2>2. CASE UNCHANGED handling
    BY <2>2 DEF VacancyInv, HandlerTypes, SeenInv, Settled, Handling, Preview, SeedRow, Stage, NoHandler
  <2> QED
    BY <2>1, <2>2, HandlerEnds DEF VacancyInv
<1> QED
  BY <1>1, <1>2, <1>3 DEF VacancyInv

\* A transaction that stores a database in which every change is noticed.
LEMMA StoreNotices ==
  ASSUME VacancyInv, NEW db \in NoticedDb, Store(db), UNCHANGED reviewed
  PROVE  VacancyTypes' /\ ChangeNoticed'
<1>1. vacancies' = db.vacancies /\ latest' = db.latest
  BY DEF Store
<1> QED
  BY <1>1 DEF NoticedDb, Noticed, VacancyInv, VacancyTypes, ChangeNoticed, Occurrences

LEMMA DbNoticed == ASSUME VacancyInv PROVE Db \in NoticedDb
BY DEF Db, NoticedDb, Noticed, VacancyInv, VacancyTypes, ChangeNoticed, Occurrences

LEMMA ImportStep ==
  ASSUME VacancyInv, NEW c \in Client,
         SaveConfirm(c) \/ \E items \in Batch : ImportBatch(c, items)
  PROVE  VacancyInv'
<1>1. CASE SaveConfirm(c)
  <2>1. handling[c].seed \in Seed /\ handling[c].content \in Posting
    BY <1>1 DEF SaveConfirm, VacancyInv, HandlerTypes, Handling, NoHandler
  <2>2. Imported(Db, handling[c].seed, handling[c].content) \in NoticedDb
    BY <2>1, DbNoticed, ImportNotices DEF Source
  <2>3. VacancyTypes' /\ ChangeNoticed'
    BY <1>1, <2>2, StoreNotices DEF SaveConfirm
  <2>4. SeedTypes'
    BY <1>1 DEF SaveConfirm, VacancyInv, SeedTypes, SeedRow, Preview
  <2>5. HandlerTypes' /\ SeenInv'
    BY <1>1, HandlerEnds DEF SaveConfirm, VacancyInv
  <2> QED
    BY <2>3, <2>4, <2>5 DEF VacancyInv
<1>2. ASSUME NEW items \in Batch, ImportBatch(c, items) PROVE VacancyInv'
  <2>1. items \in Seq(Posting) /\ BatchSource \in Source
    BY KeysAssumption DEF KeysAssumption, Source
  <2>2. Seqs!FoldLeft(LAMBDA db, x : Imported(db, BatchSource, x), Db, items) \in NoticedDb
    BY <2>1, DbNoticed, BatchNotices
  <2>3. VacancyTypes' /\ ChangeNoticed'
    BY <1>2, <2>2, StoreNotices DEF ImportBatch
  <2>4. SeedTypes' /\ HandlerTypes' /\ SeenInv'
    BY <1>2 DEF ImportBatch, VacancyInv, SeedTypes, HandlerTypes, SeenInv, Settled, Handling, SeedRow,
       Preview, Stage, NoHandler
  <2> QED
    BY <2>3, <2>4 DEF VacancyInv
<1> QED
  BY <1>1, <1>2

LEMMA RowStep ==
  ASSUME VacancyInv, NEW c \in Client, MarkProcessed(c) \/ UpdateStage(c)
  PROVE  VacancyInv'
<1>1. SeedTypes' /\ HandlerTypes' /\ SeenInv'
  <2>1. UNCHANGED seeds /\ Finish(c)
    BY DEF MarkProcessed, UpdateStage
  <2> QED
    BY <2>1, HandlerEnds DEF VacancyInv, SeedTypes, SeedRow, Preview
<1>2. ASSUME MarkProcessed(c) PROVE VacancyTypes' /\ ChangeNoticed'
  <2>1. handling[c].vacancy \in Vacancy
    BY <1>2 DEF MarkProcessed, VacancyInv, HandlerTypes, Handling, NoHandler
  <2>2. VacancyTypes'
    BY <1>2, <2>1 DEF MarkProcessed, VacancyInv, VacancyTypes, VacancyRow, Stage, Occurrences
  <2> QED
    BY <1>2, <2>1, <2>2 DEF MarkProcessed, VacancyInv, VacancyTypes, ChangeNoticed, VacancyRow, Occurrences
<1>3. ASSUME UpdateStage(c) PROVE VacancyTypes' /\ ChangeNoticed'
  <2>1. handling[c].vacancy \in Vacancy /\ handling[c].to \in Stage
    BY <1>3 DEF UpdateStage, VacancyInv, HandlerTypes, Handling, NoHandler
  <2>2. VacancyTypes'
    BY <1>3, <2>1 DEF UpdateStage, VacancyInv, VacancyTypes, VacancyRow, Stage, Occurrences
  <2> QED
    BY <1>3, <2>1, <2>2 DEF UpdateStage, VacancyInv, VacancyTypes, ChangeNoticed, VacancyRow
<1> QED
  BY <1>1, <1>2, <1>3 DEF VacancyInv

LEMMA VacancyKeeps == VacancyInv /\ [PipelineNext]_pipelineVars => VacancyInv'
<1> SUFFICES ASSUME VacancyInv, [PipelineNext]_pipelineVars PROVE VacancyInv'
  OBVIOUS
<1>1. ASSUME NEW c \in Client, AbandonHandler(c) PROVE VacancyInv'
  <2>1. HandlerTypes' /\ SeenInv'
    BY <1>1, HandlerEnds DEF AbandonHandler, VacancyInv
  <2> QED
    BY <1>1, <2>1 DEF AbandonHandler, VacancyInv, SeedTypes, VacancyTypes, ChangeNoticed, Occurrences
<1>2. ASSUME NEW c \in Client, SeedStep(c) \/ VacancyStep(c) PROVE VacancyInv'
  BY <1>2, AskSteps, SeedStepKeeps, ImportStep, RowStep DEF SeedStep, VacancyStep
<1>3. CASE UNCHANGED pipelineVars
  BY <1>3 DEF pipelineVars, VacancyInv, SeedTypes, VacancyTypes, HandlerTypes, SeenInv, ChangeNoticed, Settled,
     Occurrences, Handling, SeedRow, Preview, Stage, NoHandler
<1> QED
  BY <1>1, <1>2, <1>3 DEF PipelineNext

\* A processed vacancy with content it did not have when it was marked is flagged,
\* whichever source or batch brought it.
THEOREM ChangesNoticed == PipelineSpec => []ChangeNoticed
<1>1. VacancyInv => ChangeNoticed
  BY DEF VacancyInv
<1> QED
  BY VacancyInit, VacancyKeeps, <1>1, PTL DEF PipelineSpec

\* Seeds, vacancies and the handlers' requests keep their shape, after batches of any length.
THEOREM VacancyTypesHold == PipelineSpec => []PipelineTypeOK
<1>1. VacancyInv => PipelineTypeOK
  BY DEF VacancyInv, SeedTypes, VacancyTypes, HandlerTypes, Occurrences, PipelineTypeOK
<1> QED
  BY VacancyInit, VacancyKeeps, <1>1, PTL DEF PipelineSpec

\* A settled seed is moved on only by a handler that read it before it was settled.
THEOREM DecidedStays == PipelineSpec => SettledUnlessStale
<1> DEFINE Stale(s) ==
      \E c \in Client :
        /\ handling[c].op \in {"preview", "confirm"} /\ handling[c].seed = s
        /\ handling'[c] = NoHandler /\ ~Settled(handling[c].seen)
           Moved(s) == Settled(seeds[s]) /\ seeds'[s] # seeds[s] /\ seeds'[s].status # "rejected"
<1>1. ASSUME VacancyInv, PipelineNext, NEW s \in Seed, Moved(s) PROVE Stale(s)
  <2>1. PICK c \in Client : SavePreview(c) \/ SaveConfirm(c)
    <3>1. ASSUME NEW c \in Client, SaveReject(c) PROVE FALSE
      BY <1>1, <3>1 DEF SaveReject, VacancyInv, SeedTypes, SeedRow
    <3>2. ASSUME NEW c \in Client, NEW t \in Seed, CreateSeed(c, t) PROVE FALSE
      BY <1>1, <3>2 DEF CreateSeed, VacancyInv, SeedTypes, Settled
    <3>3. ASSUME UNCHANGED seeds PROVE FALSE
      BY <1>1, <3>3
    <3>4. ASSUME NEW c \in Client, VacancyStep(c) \/ AbandonHandler(c) PROVE UNCHANGED seeds
      BY <3>4 DEF VacancyStep, ImportBatch, AskMark, AskStage, MarkProcessed, UpdateStage, AbandonHandler
    <3>5. PICK c \in Client : SeedStep(c)
      BY <1>1, <3>3, <3>4 DEF PipelineNext
    <3> QED
      BY <3>1, <3>2, <3>3, <3>5 DEF SeedStep, AskConfirm, AskReject, AskPreview
  <2>2. handling[c].op \in {"preview", "confirm"} /\ Finish(c)
    BY <2>1 DEF SavePreview, SaveConfirm
  <2>3. handling'[c] = NoHandler
    BY <1>1, <2>2 DEF Finish, VacancyInv, HandlerTypes
  <2>4. handling[c].seed = s
    BY <1>1, <2>1 DEF SavePreview, SaveConfirm, VacancyInv, SeedTypes
  <2> QED
    BY <1>1, <2>2, <2>3, <2>4 DEF VacancyInv, SeenInv
<1>2. VacancyInv /\ [PipelineNext]_pipelineVars =>
      [\A s \in Seed :
         Settled(seeds[s]) /\ seeds'[s] # seeds[s] /\ seeds'[s].status # "rejected" =>
           \E c \in Client :
             /\ handling[c].op \in {"preview", "confirm"}
             /\ handling[c].seed = s
             /\ handling'[c] = NoHandler
             /\ ~Settled(handling[c].seen)]_pipelineVars
  BY <1>1
<1> QED
  BY VacancyInit, VacancyKeeps, <1>2, PTL DEF PipelineSpec, SettledUnlessStale

=============================================================================
