------------------------------ MODULE Pipeline ------------------------------
(***************************************************************************)
(* From a photograph to a verdict: how signatures are found and prepared   *)
(* (packages/signature_core), how the clerk is offered regions             *)
(* (routers/verify.py) and how the one that is submitted is prepared again *)
(* and compared (services/verification.py, run).                           *)
(*                                                                         *)
(* An image is a rectangle of a page with a light and marks on it; a mark  *)
(* is a rectangle [x, y, w, h] of pixels, its ink, and whether it is one   *)
(* solid horizontal line.  Thresholds find the ink exactly once the light  *)
(* is even, closing with a kernel joins what is nearer than the kernel,    *)
(* and opening with it removes what is shorter.  An embedding is a point   *)
(* of a line; what the network makes of an image is left open.             *)
(***************************************************************************)
EXTENDS Decision, Sequences, FiniteSetsExt

CONSTANTS
  Mark,               \* the marks a page may carry
  PageWidth, PageHeight,
  Point,              \* embeddings
  MaxReferences,      \* bound: references of the customer
  MaxRegions          \* MAX_REGIONS

(* A mark lies on the page; an embedding is a place on a line.             *)
ASSUME PageAssumption ==
  /\ IsFiniteSet(Mark)
  /\ \A m \in Mark :
       /\ m \in [x : Nat, y : Nat, w : Nat \ {0}, h : Nat \ {0}, ink : Nat, line : BOOLEAN]
       /\ m.x + m.w <= PageWidth /\ m.y + m.h <= PageHeight
  /\ PageWidth \in Nat /\ PageHeight \in Nat
  /\ Point \subseteq Nat /\ MaxReferences \in Nat

VARIABLES
  photo,    \* what was uploaded: its file, and its image
  offer,    \* regions and preview of the whole image
  pick,     \* what is submitted, and the preview the clerk saw of it
  card,     \* the references compared with: embeddings, or Damaged
  result

pipelineVars == <<photo, offer, pick, card, result>>

Nothing == [light |-> "none"]

Damaged == -1

NoOffer == [regions |-> {}, found |-> FALSE, whole |-> Nothing]

NoPick == [kind |-> "none", image |-> Nothing, seen |-> Nothing]

NoResult == [outcome |-> "none", query |-> Nothing, compared |-> Nothing, scores |-> <<>>]

-----------------------------------------------------------------------------
(* Geometry *)

Larger(a, b) == IF a > b THEN a ELSE b

GapX(a, b) == Larger(a.x - (b.x + b.w), b.x - (a.x + a.w))

GapY(a, b) == Larger(a.y - (b.y + b.h), b.y - (a.y + a.h))

Joins(a, b, dx, dy) == GapX(a, b) < dx /\ GapY(a, b) < dy

(* What closing with a kernel of dx by dy makes one: the connected parts.  *)
Groups(marks, dx, dy) ==
  {S \in (SUBSET marks) \ {{}} :
     /\ \A a \in S, b \in marks \ S : ~ Joins(a, b, dx, dy)
     /\ \A T \in (SUBSET S) \ {{}, S} : \E a \in T, b \in S \ T : Joins(a, b, dx, dy)}

Span(lo, hi) == [at |-> Min(lo), size |-> Max(hi) - Min(lo)]

Box(S) ==
  LET across == Span({m.x : m \in S}, {m.x + m.w : m \in S})
      down   == Span({m.y : m \in S}, {m.y + m.h : m \in S})
  IN  [x |-> across.at, w |-> across.size, y |-> down.at, h |-> down.size]

Ink(marks) == Total([m \in marks |-> m.ink])

(* The part of r inside box b.                                             *)
Within(r, b) ==
  LET x == Larger(r.x, b.x)
      y == Larger(r.y, b.y)
  IN  [x |-> x, y |-> y,
       w |-> Least(r.x + r.w, b.x + b.w) - x, h |-> Least(r.y + r.h, b.y + b.h) - y]

(* A region cut out of an image takes what crosses its edge with it.       *)
Cut(img, b) ==
  LET frame == Within([x |-> b.x - 15, y |-> b.y - 15, w |-> b.w + 30, h |-> b.h + 30], img)
      Part(m) == LET p == Within(m, frame)
                 IN  [m EXCEPT !.x = p.x, !.y = p.y, !.w = p.w, !.h = p.h,
                               !.ink = (@ * p.w * p.h) \div (m.w * m.h)]
  IN  [img EXCEPT !.x = frame.x, !.y = frame.y, !.w = frame.w, !.h = frame.h,
                  !.marks = {Part(m) : m \in {n \in img.marks : Joins(n, frame, 0, 0)}}]

-----------------------------------------------------------------------------
(* Preparing an image *)

Flatten(img) == [img EXCEPT !.light = "even"]

(* Solid lines that survive two openings as wide as a fifth of the image.  *)
Lines(img, width) ==
  {m \in img.marks : m.line /\ m.w >= 2 * Larger(10, width \div 5) - 1}

(* An accent above or below the main blob, or a letter beside it.          *)
BelongsTo(b, main) ==
  IF b.x < main.x \/ b.x + b.w > main.x + main.w
  THEN GapY(b, main) < 0 /\ GapX(b, main) <= main.h
  ELSE /\ 4 * (b.y + b.h) >= 4 * main.y - main.h
       /\ 4 * b.y <= 4 * (main.y + main.h) + main.h

(* Blobs are numbered as they are met, row by row.                         *)
MetBefore(a, b) == a.y < b.y \/ (a.y = b.y /\ a.x < b.x)

(* The largest blob, the first of them where there are several.            *)
Dominant(blobs) ==
  CHOOSE b \in blobs : \A c \in blobs \ {b} :
    \/ Ink(b) > Ink(c)
    \/ Ink(b) = Ink(c) /\ \E m \in b : \A n \in c : MetBefore(m, n)

(* Lines are not blobs, but where every blob stays nothing is blanked, the *)
(* lines neither.                                                          *)
IsolateSignatureInk(img) ==
  LET even  == Flatten(img)
      blobs == Groups(img.marks \ Lines(img, img.w), 9, 9)
      main  == Dominant(blobs)
      keep  == {b \in blobs : 4 * Ink(b) >= Ink(main) \/ BelongsTo(Box(b), Box(main))}
  IN  IF blobs = {} \/ keep = blobs THEN even ELSE [even EXCEPT !.marks = UNION keep]

(* What the model is given, and every preview shows: the writing scaled to *)
(* one size on a canvas three times its edge, its lines stripped, cropped. *)
Normalised(img) ==
  [light |-> img.light, marks |-> img.marks \ Lines(img, 3 * Larger(img.w, img.h))]

-----------------------------------------------------------------------------
(* Finding signatures *)

VerticalAnchors(img) ==
  LET boxes == {Box(S) : S \in Groups({m \in img.marks : m.w >= 3 /\ m.h >= 3}, 100, 15)}
  IN  {Cut(img, b) : b \in {c \in boxes : /\ c.w * c.h > 800 /\ c.h > 20
                                          /\ 5 * c.w * c.h < 4 * img.w * img.h}}

Sparse(img) == 10 * Ink(img.marks) <= 6 * img.w * img.h

(* Deviation: anything sparse of the right shape.                          *)
LooksLikeSignatureUncounted(img) == 100 * img.w >= 85 * img.h /\ Sparse(img)

LooksLikeSignature(img) ==
  100 * img.w >= 85 * img.h /\ Ink(img.marks) >= 1500 /\ Sparse(img)

(* Of enrolment and of verification.  Few regions, or some discarded, may  *)
(* be the pieces of one signature: the whole frame is offered as well.     *)
CandidateCrops(img) ==
  LET even    == Flatten(img)
      regions == VerticalAnchors(even)
      crops   == {c \in {IsolateSignatureInk(r) : r \in regions} : LooksLikeSignature(c)}
      n       == Cardinality(crops)
      whole   == IsolateSignatureInk(even)
  IN  IF /\ n <= 3 /\ (n # 1 \/ n < Cardinality(regions))
         /\ Ink(whole.marks) >= 1500 /\ Sparse(whole)
      THEN crops \cup {whole} ELSE crops

(* Neither too dark nor blank.                                             *)
GoodQuality(img) ==
  /\ img.light # "dark"
  /\ 255 * (img.w * img.h - Ink(img.marks)) >= 80 * img.w * img.h
  /\ Ink(img.marks) >= 300

(* The share of the region that is ink, in thousandths.                    *)
InkFraction(img) == (1000 * Ink(img.marks)) \div (img.w * img.h)

(* The sparsest MAX_REGIONS of them.                                       *)
Foremost(crops) ==
  {K \in SUBSET crops :
     /\ Cardinality(K) = Least(Cardinality(crops), MaxRegions)
     /\ \A a \in crops \ K, b \in K : InkFraction(a) >= InkFraction(b)}

-----------------------------------------------------------------------------
(* The endpoints *)

Refuse(outcome) == result' = [NoResult EXCEPT !.outcome = outcome]

(* read_upload: too large to decode, or no image.                          *)
RefuseUpload ==
  /\ result = NoResult /\ photo.file # "image"
  /\ Refuse(IF photo.file = "huge" THEN "IMAGE_TOO_LARGE" ELSE "INVALID_IMAGE")
  /\ UNCHANGED <<photo, offer, pick, card>>

FindRegions ==
  /\ result = NoResult /\ offer = NoOffer /\ pick = NoPick /\ photo.file = "image"
  /\ IF GoodQuality(photo.image)
     THEN LET crops == CandidateCrops(photo.image)
              bare  == IsolateSignatureInk(Flatten(photo.image))
          IN  /\ \E regions \in Foremost(IF crops = {} THEN {bare} ELSE crops) :
                   offer' = [regions |-> regions, found |-> crops # {},
                             whole |-> Normalised(IsolateSignatureInk(photo.image))]
              /\ UNCHANGED result
     ELSE Refuse("INVALID_IMAGE") /\ UNCHANGED offer
  /\ UNCHANGED <<photo, pick, card>>

(* The clerk picks a region; its preview is the model's rendition.         *)
PickRegion(r) ==
  /\ pick = NoPick /\ r \in offer.regions
  /\ pick' = [kind |-> IF offer.found THEN "region" ELSE "frame",
              image |-> r, seen |-> Normalised(r)]
  /\ UNCHANGED <<photo, offer, card, result>>

(* "Use the whole image instead" submits the photograph itself.            *)
PickWhole ==
  /\ pick = NoPick /\ offer # NoOffer
  /\ pick' = [kind |-> "whole", image |-> photo.image, seen |-> offer.whole]
  /\ UNCHANGED <<photo, offer, card, result>>

(* A caller of the interface that asks for no regions.                     *)
SubmitUnseen ==
  /\ pick = NoPick /\ offer = NoOffer /\ result = NoResult /\ photo.file = "image"
  /\ pick' = [kind |-> "unseen", image |-> photo.image, seen |-> Nothing]
  /\ UNCHANGED <<photo, offer, card, result>>

Apart(a, b) == Larger(a - b, b - a)

Usable(refs) == [i \in {j \in DOMAIN refs : refs[j] # Damaged} |-> refs[i]]

(* Every pair once.                                                        *)
Intra(points) ==
  [p \in {q \in (DOMAIN points) \X (DOMAIN points) : q[1] < q[2]} |->
     Apart(points[p[1]], points[p[2]])]

Judged(d, t) == [distance |-> d, threshold |-> t, verdict |-> Verdict(d, t),
                 band |-> Band(d, t), confidence |-> Confidence(d, t)]

(* The decision under 0, and each reference's score beside it.             *)
Decide(query, points) ==
  LET distances == [i \in DOMAIN points |-> Apart(query, points[i])]
      t         == WriterThreshold(Intra(points))
  IN  [i \in {0} \cup DOMAIN points |->
         Judged(IF i = 0 THEN MeanDistance(distances) ELSE distances[i], t)]

Cards == UNION {[1..n -> Point \cup {Damaged}] : n \in 0..MaxReferences}

(* The references are whatever the registry holds by now.                  *)
VerifyUpload ==
  LET good  == GoodQuality(pick.image)
      query == IsolateSignatureInk(pick.image)
      model == Normalised(query)
  IN  /\ pick # NoPick /\ result = NoResult
      /\ card' \in Cards
      /\ IF card' = <<>> THEN Refuse("CUSTOMER_NOT_FOUND")
         ELSE IF ~ good THEN Refuse("INVALID_IMAGE")
         ELSE IF DOMAIN Usable(card') = {} THEN Refuse("REFERENCES_UNREADABLE")
         ELSE \E vector \in Point :
                result' = [outcome |-> "verdict", query |-> query, compared |-> model,
                           scores |-> Decide(vector, Usable(card'))]
      /\ UNCHANGED <<photo, offer, pick>>

-----------------------------------------------------------------------------
Page(marks, light) ==
  [x |-> 0, y |-> 0, w |-> PageWidth, h |-> PageHeight, light |-> light, marks |-> marks]

PipelineInit ==
  /\ \/ \E marks \in SUBSET Mark, light \in {"even", "shadow", "dark"} :
          photo = [file |-> "image", image |-> Page(marks, light)]
     \/ \E file \in {"huge", "broken"} : photo = [file |-> file, image |-> Nothing]
  /\ card = <<>> /\ offer = NoOffer /\ pick = NoPick /\ result = NoResult

PipelineNext ==
  \/ RefuseUpload \/ FindRegions \/ PickWhole \/ SubmitUnseen
  \/ \E r \in offer.regions : PickRegion(r)
  \/ VerifyUpload

PipelineSpec == PipelineInit /\ [][PipelineNext]_pipelineVars

-----------------------------------------------------------------------------
(* Properties *)

(* A region found in the photograph and picked by the clerk is not refused *)
(* when it is submitted, and whatever was picked, what the verdict rests   *)
(* on is what its preview showed, although the image is prepared once more *)
(* on the way: "cleanup is a no-op on those" (verification.py:234-238).    *)
PickStands ==
  /\ pick.kind = "region" => result.outcome # "INVALID_IMAGE"
  /\ result.outcome = "verdict" /\ pick.kind # "unseen" => result.compared = pick.seen

(* A verdict, its band and its confidence tell one story, for the query    *)
(* and for each reference: valid from 80% up, a fraud below, and a         *)
(* certain band never contradicts the verdict.  A distance equal to the    *)
(* threshold is a fraud at 80% (decision.py:39 and 69), in the borderline  *)
(* band.                                                                   *)
ScoresAgree ==
  \A i \in DOMAIN result.scores :
    LET s == result.scores[i]
    IN  /\ s.threshold <= Ceiling
        /\ s.band = "valid" => s.verdict = "VALID" /\ s.confidence >= 8000
        /\ s.band = "fraud" => s.verdict = "FRAUD" /\ s.confidence < 8000
        /\ s.distance # s.threshold => (s.verdict = "VALID" <=> s.confidence >= 8000)

(* The threshold that tightens with the writer's own spread never shuts    *)
(* the writer out: unless the references lie apart by more than the        *)
(* ceiling on average, one of them, submitted as a query, is genuine       *)
(* (decision.py:15-31; cleanup.py:78: "a whole card of genuine specimens   *)
(* self-tested as fraud").  Quotients are of whole thousandths here:       *)
(* references that are not all alike are taken to lie apart, on average,   *)
(* by a thousandth for each of the others.                                 *)
OneSelfTestPasses ==
  LET points == Usable(card)
      apart  == Intra(points)
      Told   == \/ Total(apart) = 0
                \/ MeanDistance(apart) \in (Count(points) - 1)..(Ceiling - 1)
  IN  DOMAIN points # {} /\ Told =>
        \E i \in DOMAIN points : Decide(points[i], points)[0].verdict = "VALID"

(* No ruled line is left in a region of writing that is compared: "which  *)
(* cleanup has already dealt with by then" (cleanup.py:47-48).             *)
RulesDealtWith ==
  result.outcome = "verdict" /\ pick.kind = "region" =>
    LET rules == Lines(result.query, result.query.w)
    IN  rules # result.query.marks => rules \cap result.compared.marks = {}
=============================================================================
