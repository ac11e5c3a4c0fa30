--------------------------- MODULE ContentAdapters ---------------------------
(***************************************************************************)
(* What is checked of a document a model has written before anybody reads   *)
(* it (domain/content_adapters.py): the ids of its blocks, the structure of  *)
(* a screenplay or short drama, and where the blocks of a conversion come   *)
(* from.  A finding is a code and the block it is about.                    *)
(***************************************************************************)
EXTENDS Naturals, Sequences, FiniteSets, FiniteSetsExt

CONSTANTS
  Names,   \* ids that blocks, characters and sources are given
  None,    \* nothing given
  Odd      \* what is given is not of the kind it should be

\* Ids are given, or made of a document's and a place in it.
Ids == Names \cup (Names \X Nat)
\* Of a block: its id and type, the character it declares or lets speak, the scene a
\* dialogue is in, the numbers of a scene (of episode 0: of none) and of an episode
\* (with a duration of 0: with none), its sources and their version.
Block ==
  [id : Ids \cup {None, Odd}, type : {"scene", "character", "dialogue", "text"},
   character : Names \cup {None}, place : Ids \cup {None, Odd},
   scene : [number : Nat \ {0}, episode : Nat, duration : Nat] \cup {None, Odd},
   episode : [number : Nat \ {0}, duration : Nat] \cup {None, Odd},
   sources : Seq(Ids) \cup {Odd}, version : Names \cup {None, Odd}]
\* A document is [name, version, blocks].
IsDocument(d) == d.blocks \in Seq(Block) /\ \A i \in DOMAIN d.blocks : <<d.name, i>> # Odd
AdapterAssumption == {None, Odd} \cap Names = {} /\ None # Odd

Blocks(d) == DOMAIN d.blocks
Flagged(code, blocks) == {<<code, i>> : i \in blocks}
OfType(d, type) == {i \in Blocks(d) : d.blocks[i].type = type}

-----------------------------------------------------------------------------
(* with_block_ids.                                                         *)

\* A block without an id gets one that is made of the document and its place.
Id(d, i) == IF d.blocks[i].id = None THEN <<d.name, i>> ELSE d.blocks[i].id
Known(d) == {Id(d, i) : i \in Blocks(d)} \ {Odd}

IdFindings(d) ==
  Flagged("invalid_block_id", {i \in Blocks(d) : Id(d, i) = Odd})
    \cup Flagged("duplicate_block_id",
           {i \in Blocks(d) : Id(d, i) # Odd /\ \E j \in 1 .. i - 1 : Id(d, j) = Id(d, i)})

-----------------------------------------------------------------------------
(* _structure_findings.                                                    *)

Character(d, i) == d.blocks[i].character
Declared(d) == {Character(d, i) : i \in OfType(d, "character")} \ {None}
CharacterFindings(d) ==
  Flagged("invalid_character_id", {i \in OfType(d, "character") : Character(d, i) = None})
    \cup Flagged("duplicate_character_id",
           {i \in OfType(d, "character") : Character(d, i) # None
              /\ \E j \in OfType(d, "character") : j < i /\ Character(d, j) = Character(d, i)})

DialogueFindings(d) ==
  Flagged("missing_character_reference", {i \in OfType(d, "dialogue") : Character(d, i) = None})
    \cup Flagged("unknown_character_reference",
           {i \in OfType(d, "dialogue") : Character(d, i) \notin Declared(d) \cup {None}})
    \cup Flagged("unknown_scene_reference",
           {i \in OfType(d, "dialogue") :
              d.blocks[i].place \notin ({Id(d, k) : k \in OfType(d, "scene")} \ {Odd}) \cup {None}})

\* Numbered are the blocks with the metadata, of whatever type.
Scene(d, i) == d.blocks[i].scene
Episode(d, i) == d.blocks[i].episode
Numbered(d) == {i \in Blocks(d) : Scene(d, i) \notin {None, Odd}}
ScenesOf(d, e) == {i \in Numbered(d) : Scene(d, i).episode = e}
Episodes(d) == {i \in Blocks(d) : Episode(d, i) \notin {None, Odd}}
Rank(i, S) == Cardinality({j \in S : j =< i})

NumberFindings(d) ==
  Flagged("invalid_scene_metadata", {i \in Blocks(d) : Scene(d, i) = Odd})
    \cup Flagged("invalid_episode_metadata", {i \in Blocks(d) : Episode(d, i) = Odd})
    \cup Flagged("invalid_scene_numbering",
           {i \in Numbered(d) : Scene(d, i).number # Rank(i, ScenesOf(d, Scene(d, i).episode))})
    \cup Flagged("invalid_episode_numbering",
           {i \in Episodes(d) : Episode(d, i).number # Rank(i, Episodes(d))})
    \cup Flagged("unknown_episode_reference",
           {i \in Numbered(d) : Scene(d, i).episode \notin {0} \cup {Episode(d, k).number : k \in Episodes(d)}})

Lasting(d, e) == MapThenSumSet(LAMBDA i : Scene(d, i).duration, ScenesOf(d, e))
DurationFindings(d) ==
  Flagged("episode_duration_exceeded",
    {i \in Episodes(d) : Episode(d, i).duration # 0 /\ Lasting(d, Episode(d, i).number) > Episode(d, i).duration})

StructureFindings(d) ==
  CharacterFindings(d) \cup DialogueFindings(d) \cup NumberFindings(d) \cup DurationFindings(d)

-----------------------------------------------------------------------------
(* _conversion_findings: source is None or a document.                      *)

Sources(d, i) == d.blocks[i].sources
Listed(d, i) == {Sources(d, i)[k] : k \in DOMAIN Sources(d, i)}
Referring(d) == {i \in Blocks(d) : Sources(d, i) \notin {Odd, <<>>}}
KnownOf(source) == IF source = None THEN {} ELSE Known(source)

SourceFindings(source) ==
  IF source = None THEN {<<"missing_source_document", 0>>, <<"missing_source_version", 0>>}
  ELSE Flagged("source", IdFindings(source))
         \cup (IF source.blocks = <<>> THEN {<<"empty_source_document", 0>>} ELSE {})
ReferenceFindings(d, source) ==
  Flagged("missing_source_references", {i \in Blocks(d) : Sources(d, i) = <<>>})
    \cup Flagged("invalid_source_references", {i \in Blocks(d) : Sources(d, i) = Odd})
    \cup Flagged("duplicate_source_reference",
           {i \in Referring(d) : Cardinality(Listed(d, i)) # Len(Sources(d, i))})
    \cup Flagged("unknown_source_reference", {i \in Referring(d) : ~ Listed(d, i) \subseteq KnownOf(source)})
    \cup Flagged("source_version_mismatch",
           {i \in Blocks(d) : d.blocks[i].version # None
              /\ (source = None \/ d.blocks[i].version # source.version)})
    \cup IF KnownOf(source) \subseteq UNION {Listed(d, i) : i \in Referring(d)}
         THEN {} ELSE {<<"omitted_source_blocks", 0>>}

ConversionFindings(d, source) == SourceFindings(source) \cup ReferenceFindings(d, source)

\* adapt_document.
Findings(d, source, structured, adapting) ==
  IdFindings(d) \cup (IF structured THEN StructureFindings(d) ELSE {})
    \cup (IF adapting THEN ConversionFindings(d, source) ELSE {})

-----------------------------------------------------------------------------
(* What a document without findings can be relied on for.                   *)

Exactly(S) == \E x \in S : S = {x}
\* Each block goes by an id of its own.
Identified(d) == \A i, j \in Blocks(d) : Id(d, i) = Id(d, j) => i = j
\* Whoever speaks is declared once, and where is one scene.
Cast(d) ==
  \A i \in OfType(d, "dialogue") :
    /\ Exactly({k \in OfType(d, "character") : Character(d, k) = Character(d, i)})
    /\ d.blocks[i].place # None =>
         Exactly({k \in Blocks(d) : Id(d, k) = d.blocks[i].place} \cap OfType(d, "scene"))
\* The scenes of an episode are numbered upwards as they come, as are episodes, and
\* the episode of a scene is one.
InOrder(d) ==
  /\ \A i, j \in Numbered(d) :
       Scene(d, i).episode = Scene(d, j).episode /\ i < j => Scene(d, i).number < Scene(d, j).number
  /\ \A i, j \in Episodes(d) : i < j => Episode(d, i).number < Episode(d, j).number
  /\ \A i \in Numbered(d) : Scene(d, i).episode # 0 =>
       Exactly({k \in Episodes(d) : Episode(d, k).number = Scene(d, i).episode})
\* A conversion leaves nothing out: each block is made of blocks of the source,
\* each known by its id, and each block of the source is in one.
Converted(d, source) ==
  /\ source # None /\ source.blocks # <<>>
  /\ \A i \in Blocks(d) :
       /\ Sources(d, i) # <<>>
       /\ \A k \in DOMAIN Sources(d, i) : Exactly({b \in Blocks(source) : Id(source, b) = Sources(d, i)[k]})
  /\ \A b \in Blocks(source) : \E i \in Blocks(d) : Id(source, b) \in Listed(d, i)
Sound(d, source, structured, adapting) ==
  /\ Identified(d)
  /\ structured => Cast(d) /\ InOrder(d)
  /\ adapting => Converted(d, source)
=============================================================================
