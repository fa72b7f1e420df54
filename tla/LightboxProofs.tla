---------------------------- MODULE LightboxProofs ----------------------------
(***************************************************************************)
(* Theorems about Lightbox, for every list of assets and every number of   *)
(* displays.                                                               *)
(***************************************************************************)
EXTENDS Lightbox, TLAPS

\* What the displays need of the constants.
LEMMA GensAssumption ==
  MaxGen \in Nat /\ MaxLength \in Nat /\ Videos \subseteq Assets /\ None \notin Assets
BY LightboxAssumption

\* Clearing, starting and releasing keep the type of OriginalImage.
LEMMA OriginalTypes ==
  ASSUME NEW o \in Original, NEW g \in Gens
  PROVE  /\ Clear(o) \in Original /\ Started(o, g) \in Original /\ Released(o, g) \in Original
         /\ [o EXCEPT !.controller = 0] \in Original
         /\ [o EXCEPT !.url = g, !.urls = @ \cup {g}] \in Original
<1> USE GensAssumption DEF Original, Gens
<1>1. Clear(o) \in Original
  BY DEF Clear
<1>0. g \in 0..MaxGen
  OBVIOUS
<1>2. \A x \in Original : [x EXCEPT !.current = g, !.controller = g] \in Original
  BY <1>0
<1>3. Released(o, g) \in Original
  <2>1. 0 \in 0..MaxGen /\ o.urls \ {g} \in SUBSET (1..MaxGen)
    OBVIOUS
  <2>2. CASE o.url = g
    BY <2>1, <2>2 DEF Released
  <2>3. CASE o.url # g
    BY <2>1, <2>3 DEF Released
  <2> QED BY <2>2, <2>3
<1>4. [o EXCEPT !.controller = 0] \in Original
  OBVIOUS
<1>5. [o EXCEPT !.url = g, !.urls = @ \cup {g}] \in Original
  <2>1. o.urls \cup {g} \in SUBSET (1..MaxGen)
    OBVIOUS
  <2> QED BY <1>0, <2>1
<1> QED BY <1>1, <1>2, <1>3, <1>4, <1>5 DEF Started

\* A new display aborts the one before it.
LEMMA OpenKeeps ==
  ASSUME DisplayInv, NEW a \in Assets, NEW i \in 0..MaxLength, Open(a, i)
  PROVE  DisplayInv'
<1> USE GensAssumption DEF Gens, Working, Pending, Closed
<1>1. DisplayType'
  <2>1. mediaGeneration' \in 0..MaxGen
    BY DEF DisplayInv, DisplayType, Open
  <2>7. loaded' \in BOOLEAN
    BY DEF DisplayInv, DisplayType, Open
  <2>2. view' \in View
    BY DEF DisplayInv, DisplayType, ImageInv, View, Open, Started, Clear
  <2>3. image' \in [src: 0..MaxGen, hidden: BOOLEAN]
    BY DEF DisplayInv, DisplayType, Open, Started, Clear
  <2>4. original' \in Original
    BY OriginalTypes DEF DisplayInv, DisplayType, Open
  <2>5. load' \in [Gens -> Pending \cup {"none", "done"}]
    BY DEF DisplayInv, DisplayType, Open, Started, Clear
  <2>6. shown' \in [Gens -> Assets \cup {None}] /\ details' \subseteq Gens /\ video' \subseteq Gens
    BY DEF DisplayInv, DisplayType, Open, Started, Clear
  <2> QED BY <2>1, <2>2, <2>3, <2>4, <2>5, <2>6, <2>7 DEF DisplayType
<1>2. OriginalInv'
  BY DEF DisplayInv, Open, Started, Clear, OriginalInv, ImageInv, BegunInv, DisplayType, View, Original
<1>3. ImageInv'
  BY DEF DisplayInv, Open, Started, Clear, ImageInv, BegunInv, OriginalInv, DisplayType, View
<1>4. BegunInv'
  <2>1. \A h \in Gens : load'[h] # "none" \/ h \in details' => h < mediaGeneration' \/ h = mediaGeneration'
    BY DEF DisplayInv, Open, BegunInv, DisplayType
  <2>2. view'.open /\ mediaGeneration \in Nat /\ mediaGeneration' = mediaGeneration + 1
    BY DEF DisplayInv, Open, DisplayType
  <2>3. \A h \in video' : h <= mediaGeneration' /\ shown'[h] \in Videos
    BY <2>2 DEF DisplayInv, Open, BegunInv, DisplayType
  <2> QED BY <2>1, <2>2, <2>3 DEF BegunInv
<1>5. SpinnerInv'
  BY DEF DisplayInv, Open, Started, Clear, SpinnerInv, Photo, ImageInv, BegunInv, OriginalInv, DisplayType, View
<1> QED BY <1>1, <1>2, <1>3, <1>4, <1>5 DEF DisplayInv

\* Closing drops the pixels and aborts the load.
LEMMA CloseKeeps ==
  ASSUME DisplayInv, Close
  PROVE  DisplayInv'
<1> USE GensAssumption DEF Gens, Working, Pending, Closed
<1>1. DisplayType'
  <2>1. mediaGeneration' \in 0..MaxGen
    BY DEF DisplayInv, DisplayType, Close, chain
  <2>7. loaded' \in BOOLEAN
    BY DEF DisplayInv, DisplayType, Close, chain
  <2>2. view' \in View
    <3>1. view' = [asset |-> None, index |-> 0, open |-> FALSE, meta |-> view.meta,
                   loading |-> view.loading, error |-> FALSE]
      BY DEF DisplayInv, DisplayType, View, Close
    <3> QED BY <3>1 DEF DisplayInv, DisplayType, View
  <2>3. image' \in [src: 0..MaxGen, hidden: BOOLEAN]
    BY DEF DisplayInv, DisplayType, Close, chain, Clear
  <2>4. original' \in Original
    BY OriginalTypes DEF DisplayInv, DisplayType, Close, chain
  <2>5. load' \in [Gens -> Pending \cup {"none", "done"}]
    BY DEF DisplayInv, DisplayType, Close, chain, Clear
  <2>6. shown' \in [Gens -> Assets \cup {None}] /\ details' \subseteq Gens /\ video' \subseteq Gens
    BY DEF DisplayInv, DisplayType, Close, chain, Clear
  <2> QED BY <2>1, <2>2, <2>3, <2>4, <2>5, <2>6, <2>7 DEF DisplayType
<1>2. OriginalInv'
  <2>1. mediaGeneration \in Nat /\ mediaGeneration' = mediaGeneration + 1 /\ load' = load
    BY DEF DisplayInv, Close, chain, DisplayType
  <2>2. /\ original'.current = 0 /\ original'.controller = 0 /\ original'.url = 0
        /\ original'.aborted = original.aborted \cup ({original.controller} \ {0})
        /\ original'.urls = original.urls \ {original.url}
    BY DEF Close, chain, Clear
  <2>3. original'.urls = {original'.url} \ {0}
    BY <2>2 DEF DisplayInv, OriginalInv
  <2>4. \A h \in original'.aborted : h < mediaGeneration'
    BY <2>1, <2>2 DEF DisplayInv, OriginalInv, DisplayType, Original
  <2>5. \A h \in Gens : load'[h] \in Working => h \in original'.aborted
    BY <2>1, <2>2 DEF DisplayInv, OriginalInv, DisplayType, Original
  <2>6. \A h \in Gens : load'[h] = "decode" => h \in original'.aborted
    BY <2>5
  <2> QED BY <2>2, <2>3, <2>4, <2>5, <2>6 DEF OriginalInv
<1>3. ImageInv'
  BY DEF DisplayInv, Close, chain, Clear, ImageInv, BegunInv, OriginalInv, DisplayType, View
<1>4. BegunInv'
  <2>1. mediaGeneration \in Nat /\ mediaGeneration' = mediaGeneration + 1
    BY DEF DisplayInv, Close, chain, DisplayType
  <2>2. \A h \in Gens : load'[h] # "none" \/ h \in details' => h < mediaGeneration'
    BY <2>1 DEF DisplayInv, Close, chain, BegunInv, DisplayType
  <2>3. \A h \in video' : h <= mediaGeneration' /\ shown'[h] \in Videos
    BY <2>1 DEF DisplayInv, Close, chain, BegunInv, DisplayType
  <2> QED BY <2>2, <2>3 DEF BegunInv
<1>5. SpinnerInv'
  BY DEF DisplayInv, Close, chain, Clear, SpinnerInv, Photo, ImageInv, BegunInv, OriginalInv, DisplayType, View
<1> QED BY <1>1, <1>2, <1>3, <1>4, <1>5 DEF DisplayInv

\* The original's response arrives.
LEMMA FetchedKeeps ==
  ASSUME DisplayInv, NEW g \in Gens, Fetched(g)
  PROVE  DisplayInv'
<1> USE GensAssumption DEF Gens, Working, Pending, Closed
<1>1. DisplayType'
  BY DEF DisplayInv, Fetched, DisplayType, View
<1>2. OriginalInv'
  BY DEF DisplayInv, Fetched, OriginalInv, ImageInv, BegunInv, DisplayType, View
<1>3. ImageInv'
  BY DEF DisplayInv, Fetched, ImageInv, BegunInv, OriginalInv, DisplayType, View
<1>4. BegunInv'
  BY DEF DisplayInv, Fetched, BegunInv, DisplayType
<1>5. SpinnerInv'
  BY DEF DisplayInv, Fetched, SpinnerInv, Photo, ImageInv, BegunInv, OriginalInv, DisplayType, View
<1> QED BY <1>1, <1>2, <1>3, <1>4, <1>5 DEF DisplayInv

\* Its body arrives: the one object URL is created.
LEMMA GotBlobKeeps ==
  ASSUME DisplayInv, NEW g \in Gens, GotBlob(g)
  PROVE  DisplayInv'
<1> USE GensAssumption DEF Gens, Working, Pending, Closed
<1>1. DisplayType'
  BY OriginalTypes DEF DisplayInv, GotBlob, DisplayType
<1>2. OriginalInv'
  BY DEF DisplayInv, GotBlob, Stale, OriginalInv, ImageInv, BegunInv, DisplayType, View
<1>3. ImageInv'
  BY DEF DisplayInv, GotBlob, Stale, ImageInv, BegunInv, OriginalInv, DisplayType, View
<1>4. BegunInv'
  BY DEF DisplayInv, GotBlob, Stale, BegunInv, DisplayType
<1>5. SpinnerInv'
  BY DEF DisplayInv, GotBlob, Stale, SpinnerInv, Photo, ImageInv, BegunInv, OriginalInv, DisplayType, View
<1> QED BY <1>1, <1>2, <1>3, <1>4, <1>5 DEF DisplayInv

\* It is decoded, and given to the image element.
LEMMA DecodedKeeps ==
  ASSUME DisplayInv, NEW g \in Gens, Decoded(g)
  PROVE  DisplayInv'
<1> USE GensAssumption DEF Gens, Working, Pending, Closed
<1>1. DisplayType'
  <2>1. mediaGeneration' \in 0..MaxGen
    BY DEF DisplayInv, DisplayType, Decoded
  <2>7. loaded' \in BOOLEAN
    BY DEF DisplayInv, DisplayType, Decoded
  <2>2. view' \in View
    BY DEF DisplayInv, DisplayType, ImageInv, View, Decoded, Stale, Outdated
  <2>3. image' \in [src: 0..MaxGen, hidden: BOOLEAN]
    BY DEF DisplayInv, DisplayType, Decoded, Stale, Outdated
  <2>4. original' \in Original
    BY OriginalTypes DEF DisplayInv, DisplayType, Decoded
  <2>5. load' \in [Gens -> Pending \cup {"none", "done"}]
    BY DEF DisplayInv, DisplayType, Decoded, Stale, Outdated
  <2>6. shown' \in [Gens -> Assets \cup {None}] /\ details' \subseteq Gens /\ video' \subseteq Gens
    BY DEF DisplayInv, DisplayType, Decoded, Stale, Outdated
  <2> QED BY <2>1, <2>2, <2>3, <2>4, <2>5, <2>6, <2>7 DEF DisplayType
<1>2. OriginalInv'
  BY DEF DisplayInv, Decoded, Stale, Outdated, OriginalInv, ImageInv, BegunInv, DisplayType, View
<1>3. ImageInv'
  BY DEF DisplayInv, Decoded, Stale, Outdated, ImageInv, BegunInv, OriginalInv, DisplayType, View
<1>4. BegunInv'
  BY DEF DisplayInv, Decoded, Stale, Outdated, BegunInv, DisplayType
<1>5. SpinnerInv'
  BY DEF DisplayInv, Decoded, Stale, Outdated, SpinnerInv, Photo, ImageInv, BegunInv, OriginalInv, DisplayType, View
<1> QED BY <1>1, <1>2, <1>3, <1>4, <1>5 DEF DisplayInv

\* It fails, or finds itself stale.
LEMMA LoadFailsKeeps ==
  ASSUME DisplayInv, NEW g \in Gens, LoadFails(g)
  PROVE  DisplayInv'
<1> USE GensAssumption DEF Gens, Working, Pending, Closed
<1>1. DisplayType'
  <2>1. mediaGeneration' \in 0..MaxGen
    BY DEF DisplayInv, DisplayType, LoadFails
  <2>7. loaded' \in BOOLEAN
    BY DEF DisplayInv, DisplayType, LoadFails
  <2>2. view' \in View
    BY DEF DisplayInv, DisplayType, ImageInv, View, LoadFails, Released, Stale, Outdated
  <2>3. image' \in [src: 0..MaxGen, hidden: BOOLEAN]
    BY DEF DisplayInv, DisplayType, LoadFails, Released, Stale, Outdated
  <2>4. original' \in Original
    BY OriginalTypes DEF DisplayInv, DisplayType, LoadFails
  <2>5. load' \in [Gens -> Pending \cup {"none", "done"}]
    BY DEF DisplayInv, DisplayType, LoadFails, Released, Stale, Outdated
  <2>6. shown' \in [Gens -> Assets \cup {None}] /\ details' \subseteq Gens /\ video' \subseteq Gens
    BY DEF DisplayInv, DisplayType, LoadFails, Released, Stale, Outdated
  <2> QED BY <2>1, <2>2, <2>3, <2>4, <2>5, <2>6, <2>7 DEF DisplayType
<1>2. OriginalInv'
  BY DEF DisplayInv, LoadFails, Released, Stale, Outdated, OriginalInv, ImageInv, BegunInv, DisplayType, View
<1>3. ImageInv'
  <2>1. view'.open = view.open /\ view'.asset = view.asset /\ view'.index = view.index
        /\ view'.meta = view.meta
    BY DEF DisplayInv, DisplayType, View, LoadFails
  <2>2. image' = image /\ shown' = shown /\ mediaGeneration' = mediaGeneration
        /\ load' = [load EXCEPT ![g] = "done"] /\ load[g] \in Working
        /\ original'.url = IF original.url = g THEN 0 ELSE original.url
    BY DEF LoadFails, Released, DisplayInv, DisplayType
  <2>3. ~image.hidden => image.src # g
    BY <2>2 DEF DisplayInv, ImageInv, SpinnerInv, Photo
  <2>4. view.open /\ load'[mediaGeneration] = "paint" => mediaGeneration # g /\ original'.url = original.url
    BY <2>2 DEF DisplayInv, ImageInv, OriginalInv, DisplayType
  <2> QED BY <2>1, <2>2, <2>3, <2>4 DEF DisplayInv, ImageInv, DisplayType
<1>4. BegunInv'
  BY DEF DisplayInv, LoadFails, Released, Stale, Outdated, BegunInv, DisplayType
<1>5. SpinnerInv'
  BY DEF DisplayInv, LoadFails, Released, Stale, Outdated, SpinnerInv, Photo, ImageInv, BegunInv, OriginalInv, DisplayType, View
<1> QED BY <1>1, <1>2, <1>3, <1>4, <1>5 DEF DisplayInv

\* It is revealed.
LEMMA PaintedKeeps ==
  ASSUME DisplayInv, NEW g \in Gens, Painted(g)
  PROVE  DisplayInv'
<1> USE GensAssumption DEF Gens, Working, Pending, Closed
<1>1. DisplayType'
  BY DEF DisplayInv, Painted, Outdated, DisplayType, View
<1>2. OriginalInv'
  BY DEF DisplayInv, Painted, Outdated, OriginalInv, ImageInv, BegunInv, DisplayType, View
<1>3. ImageInv'
  BY DEF DisplayInv, Painted, Outdated, ImageInv, BegunInv, OriginalInv, DisplayType, View
<1>4. BegunInv'
  BY DEF DisplayInv, Painted, Outdated, BegunInv, DisplayType
<1>5. SpinnerInv'
  BY DEF DisplayInv, Painted, Outdated, SpinnerInv, Photo, ImageInv, BegunInv, OriginalInv, DisplayType, View
<1> QED BY <1>1, <1>2, <1>3, <1>4, <1>5 DEF DisplayInv

\* It cannot be painted.
LEMMA PaintFailsKeeps ==
  ASSUME DisplayInv, NEW g \in Gens, PaintFails(g)
  PROVE  DisplayInv'
<1> USE GensAssumption DEF Gens, Working, Pending, Closed
<1>1. DisplayType'
  <2>1. mediaGeneration' \in 0..MaxGen
    BY DEF DisplayInv, DisplayType, PaintFails
  <2>7. loaded' \in BOOLEAN
    BY DEF DisplayInv, DisplayType, PaintFails
  <2>2. view' \in View
    BY DEF DisplayInv, DisplayType, ImageInv, View, PaintFails, Clear, Outdated
  <2>3. image' \in [src: 0..MaxGen, hidden: BOOLEAN]
    <3>1. CASE image' = image
      BY <3>1 DEF DisplayInv, DisplayType
    <3>2. CASE image' = [src |-> 0, hidden |-> TRUE]
      BY <3>2
    <3> QED BY <3>1, <3>2 DEF PaintFails
  <2>4. original' \in Original
    BY OriginalTypes DEF DisplayInv, DisplayType, PaintFails
  <2>5. load' \in [Gens -> Pending \cup {"none", "done"}]
    BY DEF DisplayInv, DisplayType, PaintFails, Clear, Outdated
  <2>6. shown' \in [Gens -> Assets \cup {None}] /\ details' \subseteq Gens /\ video' \subseteq Gens
    BY DEF DisplayInv, DisplayType, PaintFails, Clear, Outdated
  <2> QED BY <2>1, <2>2, <2>3, <2>4, <2>5, <2>6, <2>7 DEF DisplayType
<1>2. OriginalInv'
  BY DEF DisplayInv, PaintFails, Clear, Outdated, OriginalInv, ImageInv, BegunInv, DisplayType, View
<1>3. ImageInv'
  <2>1. CASE Outdated(g)
    BY <2>1 DEF DisplayInv, PaintFails, Outdated, ImageInv, BegunInv, OriginalInv, DisplayType, View
  <2>2. CASE ~Outdated(g)
    <3>1. /\ g = mediaGeneration /\ image'.hidden /\ image'.src = 0 /\ original'.url = 0
          /\ shown' = shown /\ mediaGeneration' = mediaGeneration /\ load'[g] = "done"
      BY <2>2 DEF DisplayInv, PaintFails, Outdated, Clear, DisplayType
    <3>2. view'.open = view.open /\ view'.asset = view.asset /\ view'.index = view.index
          /\ view'.meta = view.meta
      BY <2>2 DEF DisplayInv, DisplayType, View, PaintFails
    <3> QED BY <3>1, <3>2 DEF DisplayInv, ImageInv
  <2> QED BY <2>1, <2>2
<1>4. BegunInv'
  <2>1. /\ load' = [load EXCEPT ![g] = "done"] /\ load[g] = "paint" /\ details' = details
        /\ video' = video /\ shown' = shown /\ mediaGeneration' = mediaGeneration
    BY DEF PaintFails
  <2>2. view'.open = view.open
    BY DEF DisplayInv, DisplayType, View, PaintFails
  <2> QED BY <2>1, <2>2 DEF DisplayInv, BegunInv, DisplayType
<1>5. SpinnerInv'
  <2>1. CASE Outdated(g)
    BY <2>1 DEF DisplayInv, PaintFails, Outdated, SpinnerInv, Photo, ImageInv, BegunInv, DisplayType, View
  <2>2. CASE ~Outdated(g)
    <3>1. /\ g = mediaGeneration /\ image'.hidden
          /\ shown' = shown /\ mediaGeneration' = mediaGeneration
          /\ load' = [load EXCEPT ![g] = "done"] /\ load[g] = "paint"
      BY <2>2 DEF DisplayInv, PaintFails, Outdated
    <3>2. view'.open = view.open /\ view'.asset = view.asset /\ view'.error /\ ~view'.loading
      <4>1. view' = [view EXCEPT !.loading = FALSE, !.error = TRUE]
        BY <2>2 DEF PaintFails
      <4> QED BY <4>1 DEF DisplayInv, DisplayType, View
    <3>3. load'[mediaGeneration'] = "done"
      BY <3>1 DEF DisplayInv, DisplayType
    <3>4. ~(view.open /\ view.asset \in Videos)
      BY <3>1 DEF DisplayInv, SpinnerInv
    <3> QED BY <3>1, <3>2, <3>3, <3>4 DEF SpinnerInv, Photo
  <2> QED BY <2>1, <2>2
<1> QED BY <1>1, <1>2, <1>3, <1>4, <1>5 DEF DisplayInv

\* Details arrive.
LEMMA DetailsArriveKeeps ==
  ASSUME DisplayInv, NEW g \in Gens, DetailsArrive(g)
  PROVE  DisplayInv'
<1> USE GensAssumption DEF Gens, Working, Pending, Closed
<1>1. DisplayType'
  BY DEF DisplayInv, DetailsArrive, Outdated, DisplayType, View
<1>2. OriginalInv'
  BY DEF DisplayInv, DetailsArrive, Outdated, OriginalInv, ImageInv, BegunInv, DisplayType, View
<1>3. ImageInv'
  BY DEF DisplayInv, DetailsArrive, Outdated, ImageInv, BegunInv, OriginalInv, DisplayType, View
<1>4. BegunInv'
  BY DEF DisplayInv, DetailsArrive, Outdated, BegunInv, DisplayType
<1>5. SpinnerInv'
  BY DEF DisplayInv, DetailsArrive, Outdated, SpinnerInv, Photo, ImageInv, BegunInv, OriginalInv, DisplayType, View
<1> QED BY <1>1, <1>2, <1>3, <1>4, <1>5 DEF DisplayInv

\* Details fail.
LEMMA DetailsFailKeeps ==
  ASSUME DisplayInv, NEW g \in Gens, DetailsFail(g)
  PROVE  DisplayInv'
<1> USE GensAssumption DEF Gens, Working, Pending, Closed
<1>1. DisplayType'
  BY DEF DisplayInv, DetailsFail, DisplayType, View
<1>2. OriginalInv'
  BY DEF DisplayInv, DetailsFail, OriginalInv, ImageInv, BegunInv, DisplayType, View
<1>3. ImageInv'
  BY DEF DisplayInv, DetailsFail, ImageInv, BegunInv, OriginalInv, DisplayType, View
<1>4. BegunInv'
  BY DEF DisplayInv, DetailsFail, BegunInv, DisplayType
<1>5. SpinnerInv'
  BY DEF DisplayInv, DetailsFail, SpinnerInv, Photo, ImageInv, BegunInv, OriginalInv, DisplayType, View
<1> QED BY <1>1, <1>2, <1>3, <1>4, <1>5 DEF DisplayInv

\* A video's play() settles.
LEMMA VideoSettlesKeeps ==
  ASSUME DisplayInv, NEW g \in Gens, VideoSettles(g)
  PROVE  DisplayInv'
<1> USE GensAssumption DEF Gens, Working, Pending, Closed
<1>1. DisplayType'
  BY DEF DisplayInv, VideoSettles, DisplayType, View
<1>2. OriginalInv'
  BY DEF DisplayInv, VideoSettles, OriginalInv, ImageInv, BegunInv, DisplayType, View
<1>3. ImageInv'
  BY DEF DisplayInv, VideoSettles, ImageInv, BegunInv, OriginalInv, DisplayType, View
<1>4. BegunInv'
  BY DEF DisplayInv, VideoSettles, BegunInv, DisplayType
<1>5. SpinnerInv'
  BY DEF DisplayInv, VideoSettles, SpinnerInv, Photo, ImageInv, BegunInv, OriginalInv, DisplayType, View
<1> QED BY <1>1, <1>2, <1>3, <1>4, <1>5 DEF DisplayInv

\* A video is started.
LEMMA PlayClickKeeps ==
  ASSUME DisplayInv, PlayClick
  PROVE  DisplayInv'
<1> USE GensAssumption DEF Gens, Working, Pending, Closed
<1>1. DisplayType'
  <2>1. mediaGeneration' \in 0..MaxGen
    BY DEF DisplayInv, DisplayType, PlayClick
  <2>7. loaded' \in BOOLEAN
    BY DEF DisplayInv, DisplayType, PlayClick
  <2>2. view' \in View
    BY DEF DisplayInv, DisplayType, ImageInv, View, PlayClick
  <2>3. image' \in [src: 0..MaxGen, hidden: BOOLEAN]
    BY DEF DisplayInv, DisplayType, PlayClick
  <2>4. original' \in Original
    BY OriginalTypes DEF DisplayInv, DisplayType, PlayClick
  <2>5. load' \in [Gens -> Pending \cup {"none", "done"}]
    BY DEF DisplayInv, DisplayType, PlayClick
  <2>6. shown' \in [Gens -> Assets \cup {None}] /\ details' \subseteq Gens /\ video' \subseteq Gens
    BY DEF DisplayInv, DisplayType, ImageInv, PlayClick
  <2> QED BY <2>1, <2>2, <2>3, <2>4, <2>5, <2>6, <2>7 DEF DisplayType
<1>2. OriginalInv'
  BY DEF DisplayInv, PlayClick, OriginalInv, ImageInv, BegunInv, DisplayType, View
<1>3. ImageInv'
  BY DEF DisplayInv, PlayClick, ImageInv, BegunInv, OriginalInv, DisplayType, View
<1>4. BegunInv'
  <2>1. /\ load' = load /\ details' = details /\ shown' = shown
        /\ mediaGeneration' = mediaGeneration /\ mediaGeneration \in Nat
        /\ video' = video \cup {mediaGeneration}
    BY DEF PlayClick, DisplayInv, DisplayType
  <2>2. view'.open = view.open
    BY DEF DisplayInv, DisplayType, View, PlayClick
  <2>3. shown[mediaGeneration] \in Videos
    BY DEF PlayClick, DisplayInv, ImageInv
  <2> QED BY <2>1, <2>2, <2>3 DEF DisplayInv, BegunInv
<1>5. SpinnerInv'
  BY DEF DisplayInv, PlayClick, SpinnerInv, Photo, ImageInv, BegunInv, OriginalInv, DisplayType, View
<1> QED BY <1>1, <1>2, <1>3, <1>4, <1>5 DEF DisplayInv

\* A video waits or goes on.
LEMMA VideoStallsKeeps ==
  ASSUME DisplayInv, NEW stalled \in BOOLEAN, VideoStalls(stalled)
  PROVE  DisplayInv'
<1> USE GensAssumption DEF Gens, Working, Pending, Closed
<1>1. DisplayType'
  BY DEF DisplayInv, VideoStalls, DisplayType, View
<1>2. OriginalInv'
  BY DEF DisplayInv, VideoStalls, OriginalInv, ImageInv, BegunInv, DisplayType, View
<1>3. ImageInv'
  BY DEF DisplayInv, VideoStalls, ImageInv, BegunInv, OriginalInv, DisplayType, View
<1>4. BegunInv'
  BY DEF DisplayInv, VideoStalls, BegunInv, DisplayType
<1>5. SpinnerInv'
  BY DEF DisplayInv, VideoStalls, SpinnerInv, Photo, ImageInv, BegunInv, OriginalInv, DisplayType, View
<1> QED BY <1>1, <1>2, <1>3, <1>4, <1>5 DEF DisplayInv

\* Steps of the list and the drawer leave the viewer alone.
LEMMA DisplayUnchanged ==
  ASSUME DisplayInv, UNCHANGED display
  PROVE  DisplayInv'
BY DEF display, DisplayInv, DisplayType, OriginalInv, ImageInv, BegunInv, SpinnerInv, Photo, Closed

\* The tiles of a page show its assets at their places in the list.
LEMMA TilesInList ==
  ASSUME NEW page \in Seq(Assets), NEW n \in Nat, n + Len(page) <= MaxLength
  PROVE  Tiles(page, n) \subseteq Assets \X (1..MaxLength)
<1> SUFFICES ASSUME NEW i \in DOMAIN page
             PROVE  <<page[i], n + i>> \in Assets \X (1..MaxLength)
  BY DEF Tiles
<1>1. page[i] \in Assets /\ i \in 1..Len(page)
  OBVIOUS
<1>2. n + i \in 1..MaxLength
  BY <1>1, GensAssumption
<1> QED BY <1>1, <1>2

\* The list stays a list of assets of bounded length.
LEMMA ListKept ==
  ASSUME ViewerInv, [Next]_vars
  PROVE  ListType'
<1> USE DEF ViewerInv
<1>1. CASE UNCHANGED vars
  BY <1>1 DEF vars, ListType
<1>2. CASE UNCHANGED <<list, asked>>
  BY <1>2 DEF list, ListType
<1>3. CASE PersonClick
  BY <1>3, GensAssumption DEF PersonClick, ListType
<1>4. CASE NextAsksForMore \/ ScrollsForMore \/ MoreFails
  BY <1>4 DEF NextAsksForMore, ScrollsForMore, MoreFails, ListType
<1>5. ASSUME NEW page \in Pages, NEW more \in BOOLEAN, MoreArrives(page, more)
      PROVE  ListType'
  <2>1. page \in Seq(Assets) /\ assets \in Seq(Assets)
    BY LightboxAssumption DEF ListType
  <2>2. assets' \in Seq(Assets) /\ Len(assets') <= MaxLength
        /\ Len(assets) + Len(page) <= MaxLength
    BY <1>5, <2>1 DEF MoreArrives
  <2>3. hasMore' \in BOOLEAN
    BY <1>5 DEF MoreArrives
  <2>4. tiles' \subseteq Assets \X (1..MaxLength)
    <3>1. Tiles(page, Len(assets)) \subseteq Assets \X (1..MaxLength)
      BY <2>1, <2>2, TilesInList, GensAssumption
    <3> QED BY <1>5, <3>1 DEF MoreArrives, ListType
  <2> QED BY <1>5, <2>2, <2>3, <2>4 DEF MoreArrives, ListType
<1>6. ASSUME NEW new \in Lists, NEW more \in BOOLEAN, ListReplaced(new, more)
      PROVE  ListType'
  <2>1. new \in Seq(Assets) /\ Len(new) <= MaxLength
    BY LightboxAssumption
  <2>2. tiles' \subseteq Assets \X (1..MaxLength)
    BY <1>6, <2>1, TilesInList, GensAssumption DEF ListReplaced
  <2> QED BY <1>6, <2>1, <2>2 DEF ListReplaced, ListType
<1>7. ASSUME NEW a \in Assets, ActivityAsks(a) \/ ActivityArrives(a) \/ ActivityFails(a)
      PROVE  ListType'
  BY <1>7 DEF ActivityAsks, ActivityArrives, ActivityFails, list, ListType
<1>8. ASSUME NEW more \in {hasMore, TRUE}, FilterSet(more)
      PROVE  ListType'
  <2>1. more \in BOOLEAN
    BY DEF ListType
  <2> QED BY <1>8, <2>1, GensAssumption DEF FilterSet, ListType
<1> QED BY <1>1, <1>2, <1>3, <1>4, <1>5, <1>6, <1>7, <1>8
        DEF Next, Click, Previous, NextPhoto, CloseClick, VideoEvent, ImageStep, OtherStep,
            ActivityOpens

\* Every step keeps the viewer's invariant.
LEMMA DisplayKept ==
  ASSUME ViewerInv, ListType', [Next]_vars
  PROVE  DisplayInv'
<1> USE DEF ViewerInv
<1>0. MaxLength \in Nat /\ assets \in Seq(Assets) /\ Len(assets) <= MaxLength
      /\ assets' \in Seq(Assets) /\ Len(assets') <= MaxLength
  BY GensAssumption DEF ListType
<1>1. CASE UNCHANGED display
  BY <1>1, DisplayUnchanged
<1>2. ASSUME NEW t \in tiles, Click(t)
      PROVE  DisplayInv'
  <2>1. t[1] \in Assets /\ t[2] \in 0..MaxLength
    BY GensAssumption DEF ListType
  <2> QED BY <1>2, <2>1, OpenKeeps DEF Click
<1>3. view.index \in 0..MaxLength
  BY DEF DisplayInv, DisplayType, View
<1>4. CASE Previous
  BY <1>0, <1>3, <1>4, OpenKeeps DEF Previous
<1>5. CASE NextPhoto
  BY <1>0, <1>3, <1>5, OpenKeeps DEF NextPhoto
<1>6. CASE Close
  BY <1>6, CloseKeeps
<1>7. ASSUME NEW g \in Gens, ImageStep(g) \/ OtherStep(g)
      PROVE  DisplayInv'
  BY <1>7, FetchedKeeps, GotBlobKeeps, DecodedKeeps, LoadFailsKeeps, PaintedKeeps,
     PaintFailsKeeps, DetailsArriveKeeps, DetailsFailKeeps, VideoSettlesKeeps
  DEF ImageStep, OtherStep
<1>8. CASE VideoEvent
  BY <1>8, PlayClickKeeps, VideoStallsKeeps DEF VideoEvent
<1>9. CASE NextResumes
  <2>1. CASE nextWaits /\ view.index + 1 \in DOMAIN assets'
    <3>1. view.index + 1 \in 0..MaxLength /\ assets'[view.index + 1] \in Assets
      BY <1>0, <1>3, <2>1
    <3> QED BY <1>9, <2>1, <3>1, OpenKeeps DEF NextResumes
  <2>2. CASE ~(nextWaits /\ view.index + 1 \in DOMAIN assets')
    BY <1>1, <1>9, <2>2 DEF NextResumes
  <2> QED BY <2>1, <2>2
<1>10. ASSUME NEW a \in Assets, ActivityArrives(a)
       PROVE  DisplayInv'
  BY <1>0, <1>10, OpenKeeps DEF ActivityArrives
<1>11. ASSUME NEW i \in 1..MaxLength, ActivityOpens(i)
       PROVE  DisplayInv'
  BY <1>0, <1>11, OpenKeeps DEF ActivityOpens
<1>12. CASE UNCHANGED vars
  BY <1>1, <1>12 DEF vars, display
<1> QED BY <1>1, <1>2, <1>4, <1>5, <1>6, <1>7, <1>8, <1>9, <1>10, <1>11, <1>12
        DEF Next, NextAsksForMore, CloseClick, PersonClick, ScrollsForMore, MoreFails,
            MoreArrives, FilterSet, ListReplaced, ActivityAsks, ActivityFails

\* The inductive invariant: OriginalImage works for the photo that is open, or for
\* none; whatever else was begun is aborted or outdated.
THEOREM ViewerInvariant == Spec => []ViewerInv
<1>1. Init => ViewerInv
  <2> SUFFICES ASSUME Init PROVE ViewerInv
    OBVIOUS
  <2>1. ListType
    <3>1. assets \in Seq(Assets) /\ 0 + Len(assets) <= MaxLength
      BY LightboxAssumption DEF Init
    <3>2. tiles \subseteq Assets \X (1..MaxLength)
      BY <3>1, TilesInList DEF Init
    <3>3. hasMore \in BOOLEAN /\ isLoadingMore \in BOOLEAN /\ nextWaits \in BOOLEAN
      BY DEF Init
    <3> QED BY <3>1, <3>2, <3>3 DEF Init, ListType
  <2>2. DisplayType
    <3>1. view \in View /\ image \in [src: 0..MaxGen, hidden: BOOLEAN] /\ original \in Original
      BY GensAssumption DEF Init, View, Original
    <3>2. load \in [Gens -> Pending \cup {"none", "done"}] /\ shown \in [Gens -> Assets \cup {None}]
      BY DEF Init
    <3>3. loaded \in BOOLEAN /\ details \subseteq Gens /\ video \subseteq Gens
      BY DEF Init
    <3>4. mediaGeneration \in 0..MaxGen
      BY GensAssumption DEF Init
    <3> QED BY <3>1, <3>2, <3>3, <3>4 DEF DisplayType
  <2>3. OriginalInv /\ ImageInv /\ BegunInv /\ SpinnerInv
    BY GensAssumption DEF Init, OriginalInv, ImageInv, BegunInv, SpinnerInv, Closed, Photo, Working, Gens
  <2> QED BY <2>1, <2>2, <2>3 DEF ViewerInv, DisplayInv
<1>2. ViewerInv /\ [Next]_vars => ViewerInv'
  BY ListKept, DisplayKept DEF ViewerInv
<1> QED BY <1>1, <1>2, PTL DEF Spec

\* The types, and that a closed viewer holds no asset, pixels or index.
THEOREM TypeCorrect == Spec => []TypeOK
<1>1. ViewerInv => TypeOK
  BY DEF ViewerInv, DisplayInv, ImageInv, TypeOK
<1> QED BY <1>1, ViewerInvariant, PTL

\* Visible pixels are those of the photo the viewer is on, from a live URL.
THEOREM PixelsAreShown == Spec => []ShownPixels
<1>1. ViewerInv => ShownPixels
  BY GensAssumption DEF ViewerInv, DisplayInv, DisplayType, Original, ImageInv, OriginalInv, ShownPixels, Gens
<1> QED BY <1>1, ViewerInvariant, PTL

\* At most one object URL is alive, and it is the open photo's.
THEOREM UrlsAreOwned == Spec => []UrlsOwned
<1>1. ViewerInv => UrlsOwned
  BY DEF ViewerInv, DisplayInv, OriginalInv, UrlsOwned
<1> QED BY <1>1, ViewerInvariant, PTL

\* Only the open photo's original is being fetched.
THEOREM ObsoleteLoadsAborted == Spec => []ObsoleteAborted
<1>1. ViewerInv => ObsoleteAborted
  <2> SUFFICES ASSUME ViewerInv, NEW g \in Gens, load[g] \in {"fetch", "blob"},
                      g \notin original.aborted
               PROVE  view.open /\ g = mediaGeneration
    BY DEF ObsoleteAborted
  <2>1. g = original.controller /\ g # 0
    BY GensAssumption DEF ViewerInv, DisplayInv, OriginalInv, Working, Gens
  <2> QED BY <2>1 DEF ViewerInv, DisplayInv, OriginalInv
<1> QED BY <1>1, ViewerInvariant, PTL

\* A photo's spinner turns exactly while its own load is under way.
THEOREM SpinnerIsTruthful == Spec => []SpinnerTruthful
<1>1. ViewerInv => SpinnerTruthful
  BY DEF ViewerInv, DisplayInv, SpinnerInv, SpinnerTruthful
<1> QED BY <1>1, ViewerInvariant, PTL

\* The asset, its metadata and its pixels are of one photo.
THEOREM DetailsAreCurrent == Spec => []DetailsCurrent
<1>1. ViewerInv => DetailsCurrent
  BY DEF ViewerInv, DisplayInv, ImageInv, DetailsCurrent
<1> QED BY <1>1, ViewerInvariant, PTL

-----------------------------------------------------------------------------
(* The viewer implements Screen.                                           *)

ScreenIs ==
  /\ ~view.open => OnScreen = S!Blank
  /\ view.open /\ view.asset \in Videos => OnScreen = S!Showing("video", view.asset)
  /\ Photo /\ view.loading => OnScreen = S!Showing("waiting", view.asset)
  /\ Photo /\ ~view.loading /\ ~image.hidden => OnScreen = S!Showing("shown", view.asset)
  /\ Photo /\ ~view.loading /\ image.hidden => OnScreen = S!Showing("failed", view.asset)

\* What is on the screen follows from the viewer's state.
LEMMA ScreenOf == DisplayInv => ScreenIs
<1> SUFFICES ASSUME DisplayInv PROVE ScreenIs
  OBVIOUS
<1> USE DEF DisplayInv, S!Showing
<1>1. ~view.open => OnScreen = S!Blank
  BY DEF OnScreen, S!Blank, ImageInv, Closed
<1>2. view.open => view.meta = view.asset
  BY DEF ImageInv
<1>3. view.open /\ view.asset \in Videos => OnScreen = S!Showing("video", view.asset)
  BY <1>2 DEF OnScreen, Pictured, Phase
<1>4. Photo => /\ view.loading => image.hidden /\ ~view.error
               /\ ~view.loading => (view.error <=> image.hidden)
  BY DEF SpinnerInv
<1>5. Photo /\ view.loading => OnScreen = S!Showing("waiting", view.asset)
  BY <1>2, <1>4 DEF OnScreen, Pictured, Phase, Photo
<1>6. Photo /\ ~view.loading /\ ~image.hidden => shown[image.src] = view.asset
  BY DEF ImageInv, Photo
<1>7. Photo /\ ~view.loading /\ ~image.hidden => OnScreen = S!Showing("shown", view.asset)
  BY <1>2, <1>4, <1>6 DEF OnScreen, Pictured, Phase, Photo
<1>8. Photo /\ ~view.loading /\ image.hidden => OnScreen = S!Showing("failed", view.asset)
  BY <1>2, <1>4 DEF OnScreen, Pictured, Phase, Photo
<1> QED BY <1>1, <1>3, <1>5, <1>7, <1>8 DEF ScreenIs

\* The same after a step.
LEMMA ScreenOfNext == DisplayInv' => ScreenIs'
BY ScreenOf, PTL

\* Nothing else has reached the screen: the viewer is on the display it was on,
\* and once its photo's load is over, neither load nor pixels change.
Undisturbed ==
  /\ mediaGeneration' = mediaGeneration /\ shown' = shown /\ view'.open = view.open
  /\ view.open /\ load[mediaGeneration] \notin Pending =>
       load'[mediaGeneration] \notin Pending /\ image'.hidden = image.hidden

\* An undisturbed screen stays, or its wait ends.
LEMMA UndisturbedStays ==
  ASSUME DisplayInv, DisplayInv', Undisturbed
  PROVE  [S!Next]_OnScreen
<1>1. CASE ~view.open
  BY <1>1, ScreenOf, ScreenOfNext DEF ScreenIs, Undisturbed
<1>2. CASE view.open
  <2>1. view'.open /\ view'.asset = view.asset
    BY <1>2 DEF DisplayInv, ImageInv, Undisturbed
  <2>2. CASE view.asset \in Videos
    BY <1>2, <2>1, <2>2, ScreenOf, ScreenOfNext DEF ScreenIs
  <2>3. CASE Photo /\ view.loading
    BY <2>1, <2>3, ScreenOf, ScreenOfNext DEF ScreenIs, Photo, S!Next, S!Resolve, S!Showing
  <2>4. CASE Photo /\ ~view.loading
    <3>1. load[mediaGeneration] \notin Pending
      BY <2>4 DEF DisplayInv, SpinnerInv
    <3>2. Photo' /\ ~view'.loading /\ image'.hidden = image.hidden
      BY <1>2, <2>1, <2>4, <3>1 DEF DisplayInv, SpinnerInv, Photo, Undisturbed
    <3> QED BY <2>1, <2>4, <3>2, ScreenOf, ScreenOfNext DEF ScreenIs
  <2> QED BY <1>2, <2>2, <2>3, <2>4 DEF Photo
<1> QED BY <1>1, <1>2

\* Opening is Open, closing is Close.
LEMMA OpenIsOpen ==
  ASSUME DisplayInv', NEW a \in Assets, NEW i \in 0..MaxLength, Open(a, i)
  PROVE  [S!Next]_OnScreen
<1>1. view'.open /\ view'.asset = a /\ (view'.loading <=> a \notin Videos)
  BY DEF Open
<1>2. OnScreen' = S!Showing(IF a \in Videos THEN "video" ELSE "waiting", a)
  BY <1>1, ScreenOf, ScreenOfNext DEF ScreenIs, Photo
<1> QED BY <1>2 DEF S!Next, S!Open

LEMMA CloseIsClose ==
  ASSUME DisplayInv', Close
  PROVE  [S!Next]_OnScreen
<1>1. ~view'.open
  BY DEF Close, DisplayInv, DisplayType, View
<1> QED BY <1>1, ScreenOf, ScreenOfNext DEF ScreenIs, S!Next, S!Close
\* What a promise does to the screen: it ends the wait for its own photo, at most.
LEMMA PromisesUndisturbed ==
  ASSUME ViewerInv, NEW g \in Gens, ImageStep(g) \/ OtherStep(g)
  PROVE  Undisturbed
<1> USE GensAssumption DEF ViewerInv, DisplayInv, DisplayType, View, Undisturbed, Pending, Gens
<1>1. CASE Fetched(g)
  BY <1>1 DEF Fetched
<1>2. CASE GotBlob(g)
  BY <1>2 DEF GotBlob
<1>3. CASE Decoded(g)
  BY <1>3 DEF Decoded
<1>4. CASE LoadFails(g)
  BY <1>4 DEF LoadFails
<1>5. CASE Painted(g)
  <2>1. CASE Outdated(g)
    BY <1>5, <2>1 DEF Painted
  <2>2. CASE ~Outdated(g)
    BY <1>5, <2>2 DEF Painted, Outdated
  <2> QED BY <2>1, <2>2
<1>6. CASE PaintFails(g)
  <2>1. CASE Outdated(g)
    BY <1>6, <2>1 DEF PaintFails
  <2>2. CASE ~Outdated(g)
    BY <1>6, <2>2 DEF PaintFails, Outdated
  <2> QED BY <2>1, <2>2
<1>7. CASE DetailsArrive(g) \/ DetailsFail(g) \/ VideoSettles(g)
  BY <1>7 DEF DetailsArrive, DetailsFail, VideoSettles
<1> QED BY <1>1, <1>2, <1>3, <1>4, <1>5, <1>6, <1>7 DEF ImageStep, OtherStep

\* Every step of the viewer and its surroundings is a step of Screen or invisible.
LEMMA StepOnScreen ==
  ASSUME ViewerInv, ViewerInv', [Next]_vars
  PROVE  [S!Next]_OnScreen
<1> USE DEF ViewerInv
<1>0. /\ MaxLength \in Nat /\ assets \in Seq(Assets) /\ Len(assets) <= MaxLength
      /\ assets' \in Seq(Assets) /\ Len(assets') <= MaxLength
      /\ view.index \in 0..MaxLength
  BY GensAssumption DEF ListType, DisplayInv, DisplayType, View
<1>1. CASE UNCHANGED display
  BY <1>1, UndisturbedStays DEF display, Undisturbed
<1>2. ASSUME NEW t \in tiles, Click(t)
      PROVE  [S!Next]_OnScreen
  <2>1. t[1] \in Assets /\ t[2] \in 0..MaxLength
    BY GensAssumption DEF ListType
  <2> QED BY <1>2, <2>1, OpenIsOpen DEF Click
<1>3. CASE Previous
  BY <1>0, <1>3, OpenIsOpen DEF Previous
<1>4. CASE NextPhoto
  BY <1>0, <1>4, OpenIsOpen DEF NextPhoto
<1>5. CASE Close
  BY <1>5, CloseIsClose
<1>6. ASSUME NEW g \in Gens, ImageStep(g) \/ OtherStep(g)
      PROVE  [S!Next]_OnScreen
  BY <1>6, PromisesUndisturbed, UndisturbedStays
<1>7. CASE VideoEvent
  <2>1. Undisturbed
    BY <1>7 DEF VideoEvent, PlayClick, VideoStalls, Undisturbed, DisplayInv, DisplayType, View
  <2> QED BY <2>1, UndisturbedStays
<1>8. CASE NextResumes
  <2>1. CASE nextWaits /\ view.index + 1 \in DOMAIN assets'
    <3>1. view.index + 1 \in 0..MaxLength /\ assets'[view.index + 1] \in Assets
      BY <1>0, <2>1
    <3> QED BY <1>8, <2>1, <3>1, OpenIsOpen DEF NextResumes
  <2>2. CASE ~(nextWaits /\ view.index + 1 \in DOMAIN assets')
    BY <1>1, <1>8, <2>2 DEF NextResumes
  <2> QED BY <2>1, <2>2
<1>9. ASSUME NEW a \in Assets, ActivityArrives(a)
      PROVE  [S!Next]_OnScreen
  BY <1>0, <1>9, OpenIsOpen DEF ActivityArrives
<1>10. ASSUME NEW i \in 1..MaxLength, ActivityOpens(i)
       PROVE  [S!Next]_OnScreen
  BY <1>0, <1>10, OpenIsOpen DEF ActivityOpens
<1>11. CASE UNCHANGED vars
  BY <1>1, <1>11 DEF vars, display
<1> QED BY <1>1, <1>2, <1>3, <1>4, <1>5, <1>6, <1>7, <1>8, <1>9, <1>10, <1>11
        DEF Next, NextAsksForMore, CloseClick, PersonClick, ScrollsForMore, MoreFails,
            MoreArrives, FilterSet, ListReplaced, ActivityAsks, ActivityFails

\* The viewer implements Screen: one photo at a time, its own pixels or an error
\* at the end of the wait, and another photo by opening only.
THEOREM ImplementsScreen == Spec => RefinesScreen
<1>1. Init => S!Init
  BY DEF Init, S!Init, S!Blank, OnScreen
<1>2. ViewerInv /\ ViewerInv' /\ [Next]_vars => [S!Next]_OnScreen
  BY StepOnScreen
<1> QED BY <1>1, <1>2, ViewerInvariant, PTL DEF Spec, RefinesScreen, S!Spec

\* Whatever happens to the list under the viewer, it is AssetList that does it: a
\* page that next() or the grid asked for is appended once, to the list of then.
THEOREM ImplementsList == Spec => RefinesList
<1>1. Init => L!Init
  BY DEF Init, L!Init
<1>2. [Next]_vars => [L!Next]_(L!vars)
  <2> SUFFICES ASSUME [Next]_vars
               PROVE  [L!Next]_(L!vars)
    OBVIOUS
  <2>1. CASE UNCHANGED list \/ UNCHANGED vars
    BY <2>1 DEF list, vars, L!vars
  <2>2. CASE NextAsksForMore \/ ScrollsForMore
    BY <2>2 DEF NextAsksForMore, ScrollsForMore, L!Ask, L!Next
  <2>3. CASE PersonClick
    BY <2>3 DEF PersonClick, L!Forget, L!Next
  <2>4. ASSUME NEW more \in {hasMore, TRUE}, FilterSet(more)
        PROVE  L!Forget
    BY <2>4 DEF FilterSet, L!Forget
  <2>5. ASSUME NEW new \in Lists, NEW more \in BOOLEAN, ListReplaced(new, more)
        PROVE  L!Replace
    BY <2>5 DEF ListReplaced, L!Replace
  <2>6. ASSUME NEW page \in Pages, NEW more \in BOOLEAN, MoreArrives(page, more)
        PROVE  L!Arrive(page)
    BY <2>6 DEF MoreArrives, L!Arrive
  <2>7. CASE MoreFails
    BY <2>7 DEF MoreFails, L!Fail, L!Next
  <2> QED BY <2>1, <2>2, <2>3, <2>4, <2>5, <2>6, <2>7
          DEF Next, Click, Previous, NextPhoto, CloseClick, VideoEvent, ImageStep, OtherStep,
              ActivityOpens, ActivityAsks, ActivityArrives, ActivityFails, L!Next
<1> QED BY <1>1, <1>2, PTL DEF Spec, RefinesList, L!Spec

-----------------------------------------------------------------------------
(* What makes the viewer reopen by itself.                                 *)

\* While next() waits the viewer is open.
NextIsOpen == nextWaits => view.open

\* The user does not close the viewer while its next() waits for a page.
ClosedPatiently == view.open /\ ~view'.open => ~nextWaits

\* Only next() begins to wait, on a photo of the list, so in an open viewer.
LEMMA NextIsOpenKept ==
  ASSUME ViewerInv, NextIsOpen, [Next]_vars, [ClosedPatiently]_vars
  PROVE  NextIsOpen'
<1>0. nextWaits \in BOOLEAN /\ (~view.open => view.index = 0)
  BY DEF ViewerInv, ListType, DisplayInv, ImageInv, Closed
<1>1. CASE NextAsksForMore
  BY <1>0, <1>1 DEF NextAsksForMore, display, NextIsOpen
<1>2. CASE nextWaits' = nextWaits
  BY <1>2 DEF NextIsOpen, ClosedPatiently, vars
<1>3. CASE ~nextWaits'
  BY <1>3 DEF NextIsOpen
<1> QED BY <1>1, <1>2, <1>3
        DEF Next, Click, Previous, NextPhoto, CloseClick, PersonClick, VideoEvent, ScrollsForMore,
            MoreArrives, MoreFails, FilterSet, ListReplaced, ImageStep, OtherStep,
            ActivityOpens, ActivityAsks, ActivityArrives, ActivityFails, list, vars

\* A closed viewer that no next() waits for opens at a click or for the activity
\* drawer: no promise and no page opens it.
LEMMA WhatOpens ==
  ASSUME ViewerInv, NextIsOpen, [Next]_vars, ~view.open, view'.open
  PROVE  \/ \E t \in tiles : Click(t)
         \/ \E i \in DOMAIN assets : ActivityOpens(i)
         \/ \E a \in asked : ActivityArrives(a)
<1>1. view.index = 0 /\ view.asset = None /\ ~nextWaits
  BY DEF ViewerInv, DisplayInv, ImageInv, Closed, NextIsOpen
<1>2. view' # view
  OBVIOUS
<1>3. ASSUME NEW g \in Gens, ImageStep(g) \/ OtherStep(g)
      PROVE  view'.open = view.open
  BY <1>3 DEF ImageStep, OtherStep, Fetched, GotBlob, Decoded, LoadFails, Painted, PaintFails,
              DetailsArrive, DetailsFail, VideoSettles, ViewerInv, DisplayInv, DisplayType, View
<1>4. ~Previous /\ ~NextPhoto
  BY <1>1 DEF Previous, NextPhoto
<1>5. ~CloseClick /\ ~PersonClick /\ ~VideoEvent
  BY DEF CloseClick, PersonClick, Close, VideoEvent, PlayClick, VideoStalls
<1>6. UNCHANGED display => view' = view
  BY DEF display
<1>7. NextResumes => UNCHANGED display
  BY <1>1 DEF NextResumes
<1>8. \A i \in 1..MaxLength : ActivityOpens(i) => i \in DOMAIN assets
  BY DEF ActivityOpens
<1>9. \A a \in Assets : ActivityArrives(a) => a \in asked
  BY DEF ActivityArrives
<1> QED BY <1>2, <1>3, <1>4, <1>5, <1>6, <1>7, <1>8, <1>9
        DEF Next, NextAsksForMore, ScrollsForMore, MoreArrives, MoreFails, FilterSet,
            ListReplaced, ActivityAsks, ActivityFails, vars

\* "A stale load ... or close must never display another photo" fails only after a
\* close during the wait of a next(): whoever does not close then is safe.
THEOREM PatientlyClosedStaysClosed ==
  Spec /\ [][ClosedPatiently]_vars => ClosedStaysClosed
<1>1. Init => NextIsOpen
  BY DEF Init, NextIsOpen
<1>2. ViewerInv /\ NextIsOpen /\ [Next]_vars /\ [ClosedPatiently]_vars => NextIsOpen'
  BY NextIsOpenKept
<1>3. ViewerInv /\ NextIsOpen /\ [Next]_vars
      => [~view.open /\ view'.open => \/ \E t \in tiles : Click(t)
                                      \/ \E i \in DOMAIN assets : ActivityOpens(i)
                                      \/ \E a \in asked : ActivityArrives(a)]_vars
  BY WhatOpens
<1> QED BY <1>1, <1>2, <1>3, ViewerInvariant, PTL DEF Spec, ClosedStaysClosed
=============================================================================
