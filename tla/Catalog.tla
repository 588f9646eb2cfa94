------------------------------ MODULE Catalog -------------------------------
(***************************************************************************)
(* The catalogs of bmad-advanced-elicitation (pick_methods.py) and         *)
(* bmad-brainstorming (brain.py): shipped rows, an overlay of additional   *)
(* ones, and the draws of a session that reshuffles until it has offered   *)
(* everything.  random --spread draws round-robin over shuffled buckets,   *)
(* one bucket for each category.                                           *)
(*                                                                         *)
(* Names are compared in lower case throughout.                            *)
(***************************************************************************)
EXTENDS Naturals, Sequences, FiniteSets, SequencesExt, FiniteSetsExt

CONSTANTS ShippedRows, \* the catalog: [num, category, name], in order; num 0 is no number
          Overlays,    \* what customize.toml may add, in order
          MaxDraw      \* the largest -n

CatalogRows == [num : Nat, category : STRING, name : STRING]

\* Every shipped row has a number of its own.
ASSUME CatalogAssumption ==
  /\ MaxDraw \in Nat /\ ShippedRows \in Seq(CatalogRows) /\ Overlays \subseteq Seq(CatalogRows)
  /\ \A i \in DOMAIN ShippedRows : ShippedRows[i].num # 0
  /\ \A i, j \in DOMAIN ShippedRows : ShippedRows[i].num = ShippedRows[j].num => i = j

VARIABLES overlay,  \* the additional rows of this session
          offered,  \* names the session has offered
          buckets,  \* a draw that is on: category -> the rows left in its bucket
          turn,     \* the categories that are still to be asked in this round
          draw,     \* what the draw has so far, and how many it shall have
          eligible  \* the rows it draws from

catalogVars == <<overlay, offered, buckets, turn, draw, eligible>>

NoDraw == [on |-> FALSE, wanted |-> 0, rows |-> <<>>]

(***************************************************************************)
(* Overlays.                                                               *)
(***************************************************************************)
RowNamed(rows, name) == {i \in DOMAIN rows : rows[i].name = name}

\* A replacement without a number keeps the row's; the others are appended.  An overlay
\* may state numbers, and nothing compares them with those of the catalog.
PutMethod(merged, row) ==
  IF RowNamed(merged, row.name) = {} THEN Append(merged, row)
  ELSE LET at == Max(RowNamed(merged, row.name))
       IN [merged EXCEPT ![at] = [row EXCEPT !.num = IF row.num = 0 THEN merged[at].num ELSE row.num]]
MergedMethods(rows, extras) == FoldLeft(PutMethod, rows, extras)

\* Rows without a number get the next ones.
Numbered(rows) ==
  LET highest == Max({0} \cup {rows[i].num : i \in DOMAIN rows})
      WithoutBefore(i) == Cardinality({j \in 1..i : rows[j].num = 0})
  IN [i \in DOMAIN rows |-> IF rows[i].num = 0 THEN [rows[i] EXCEPT !.num = highest + WithoutBefore(i)] ELSE rows[i]]

MergeExtra(rows, extras) == Numbered(MergedMethods(rows, extras))

\* brain.py has no numbers; the overlay is the same otherwise.
PutTechnique(merged, row) ==
  IF RowNamed(merged, row.name) = {} THEN Append(merged, row) ELSE [merged EXCEPT ![Max(RowNamed(merged, row.name))] = row]
MergeTechniques(rows, extras) == FoldLeft(PutTechnique, rows, extras)

Methods == MergeExtra(ShippedRows, overlay)

\* show NAME_OR_NUM: the first row of a number (a name is looked up before it, and here
\* no name is a numeral).
FindMethod(rows, num) ==
  LET numbered == {i \in DOMAIN rows : rows[i].num = num} IN IF numbered = {} THEN 0 ELSE Min(numbered)

(***************************************************************************)
(* Draws.                                                                  *)
(***************************************************************************)
Excluded(rows, names) == {row \in Range(rows) : row.name \notin names}
Bucket(rows, category) == {row \in rows : row.category = category}
Smaller(m, n) == IF m < n THEN m ELSE n

\* Reshuffle: random -n N --spread, excluding everything that was offered.
Reshuffle(n) ==
  LET rows == Excluded(Methods, offered) categories == {row.category : row \in rows}
  IN /\ ~draw.on /\ rows # {}
     /\ eligible' = rows /\ buckets' = [c \in categories |-> Bucket(rows, c)]
     /\ turn' = categories /\ draw' = [on |-> TRUE, wanted |-> Smaller(n, Cardinality(rows)), rows |-> <<>>]
     /\ UNCHANGED <<overlay, offered>>

\* The shuffled bucket whose turn it is gives its last row; an empty one is dropped after the round.
TakeFromBucket(c) ==
  /\ draw.on /\ Len(draw.rows) < draw.wanted /\ c \in turn
  /\ \E row \in buckets[c] :
       /\ draw' = [draw EXCEPT !.rows = Append(@, row)]
       /\ LET left == [buckets EXCEPT ![c] = @ \ {row}] open == {k \in DOMAIN left : left[k] # {}}
          IN /\ buckets' = left /\ turn' = IF turn = {c} THEN open ELSE turn \ {c}
  /\ UNCHANGED <<overlay, offered, eligible>>

OfferDraw ==
  /\ draw.on /\ Len(draw.rows) = draw.wanted
  /\ offered' = offered \cup {row.name : row \in Range(draw.rows)}
  /\ draw' = NoDraw /\ buckets' = <<>> /\ turn' = {} /\ eligible' = {} /\ UNCHANGED overlay

CatalogInit ==
  /\ overlay \in Overlays /\ offered = {} /\ buckets = <<>> /\ turn = {} /\ draw = NoDraw /\ eligible = {}

CatalogNext ==
  \/ \E n \in 1..MaxDraw : Reshuffle(n)
  \/ \E c \in turn : TakeFromBucket(c)
  \/ OfferDraw

CatalogSpec == CatalogInit /\ [][CatalogNext]_catalogVars

-----------------------------------------------------------------------------
Drawn(category) == Cardinality({i \in DOMAIN draw.rows : draw.rows[i].category = category})

\* A draw that is on can go on: there is a bucket with a row whose turn it is.
CatalogTypeOK ==
  /\ offered \subseteq {row.name : row \in Range(Methods)}
  /\ draw.on /\ Len(draw.rows) < draw.wanted => turn # {} /\ \A c \in turn : buckets[c] # {}

\* A spread draw has at most one row of a category until the categories run out: one
\* that has given two rows more than another leaves nothing in the other's bucket.
DrawIsDiverse ==
  draw.on => \A c \in DOMAIN buckets, d \in DOMAIN buckets : Drawn(c) > Drawn(d) + 1 => buckets[d] = {}

\* A session is not offered a method twice, and what it draws it has not seen.
NothingIsOfferedTwice ==
  draw.on => Range(draw.rows) \subseteq eligible /\ IsInjective(draw.rows) /\ {row.name : row \in eligible} \cap offered = {}

\* Every method of a catalog with an overlay is shown by its number, unless the overlay
\* states that number for another as well; each shipped one has the name it had, and the
\* number too if the overlay states none for it; and both catalogs put the same rows in
\* the same places.
OverlayIsAddressable ==
  LET techniques == MergeTechniques(ShippedRows, overlay) stated == MergedMethods(ShippedRows, overlay)
      IsAlone(i) == stated[i].num = 0 \/ \A j \in DOMAIN stated : stated[j].num = stated[i].num => i = j
      KeepsItsNumber(i) == \A j \in DOMAIN overlay : overlay[j].name = ShippedRows[i].name => overlay[j].num = 0
  IN /\ Len(techniques) = Len(Methods)
     /\ \A i \in DOMAIN Methods :
          /\ IsAlone(i) => FindMethod(Methods, Methods[i].num) = i
          /\ i \in DOMAIN ShippedRows => Methods[i].name = ShippedRows[i].name
          /\ i \in DOMAIN ShippedRows /\ KeepsItsNumber(i) => Methods[i].num = ShippedRows[i].num
          /\ techniques[i] = [Methods[i] EXCEPT !.num = techniques[i].num]
=============================================================================
