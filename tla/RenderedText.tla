---------------------------- MODULE RenderedText ----------------------------
(***************************************************************************)
(* Rendered Markdown as the validator of the renderer reads it: headed     *)
(* blocks of lines, each line a complete [member][partition][source]       *)
(* anchor with or without a status tag.  The lines of a block are not      *)
(* ordered: nothing reads their order.                                     *)
(***************************************************************************)
EXTENDS DecisionPack

CONSTANTS
    Slot,           \* tells equal lines of a text apart; a view names its own
    Source, unknown,    \* source graphs; what a view without one prints
    NoTag,
    SourceOf(_),    \* the first source graph of a view
    TagOf(_)        \* the status tag its claim holds, NoTag when it is Confirmed

Tag == {TagOf(v) : v \in View}

\* Views are lines, and print a known source or `unknown`.
ASSUME TextAssumption ==
    /\ View \subseteq Slot
    /\ \A v \in View : SourceOf(v) \in Source \cup {unknown}

Anchor == [id : Member, partition : Partition, source : Source \cup {unknown}]
Line == [slot : Slot, anchor : Anchor, tag : Tag \cup {NoTag}]

\* Text before the first heading is in a block titled "preamble".
Block == [title : Section \cup {"preamble"}, lines : SUBSET Line]

\* alien: what the text holds and the deterministic text does not.
Text == [blocks : Seq(Block), length : Nat, alien : SUBSET {"number", "uri"}]

AnchorOf(v) == [id |-> v.id, partition |-> v.partition, source |-> SourceOf(v)]
LineOf(v) == [slot |-> v, anchor |-> AnchorOf(v), tag |-> TagOf(v)]

SectionAt(i) == CHOOSE s \in Section : SectionPlace[s] = i

SectionBlock(p, B, i) ==
    [title |-> SectionAt(i), lines |-> {LineOf(v) : v \in InSection(p, B, SectionAt(i))}]

\* Faulty variant: sections without a line are left out.
DeterministicFilled(p, B) ==
    [blocks |-> SelectSeq([i \in 1..8 |-> SectionBlock(p, B, i)], LAMBDA b : b.lines # {}),
     length |-> Length(p, B, Units(p) \ B), alien |-> {}]

\* assemble_sectioned_markdown: every section in order, the empty ones too.
Deterministic(p, B) ==
    [blocks |-> [i \in 1..8 |-> SectionBlock(p, B, i)],
     length |-> Length(p, B, Units(p) \ B), alien |-> {}]

-----------------------------------------------------------------------------
Title(t, i) == t.blocks[i].title
Heads(t) == DOMAIN t.blocks

\* The lines of a text, each with the place of its block.
Spots(t) == UNION {{<<i, l>> : l \in t.blocks[i].lines} : i \in Heads(t)}
Found(t) == {spot[2].anchor : spot \in Spots(t)}

\* _split_sections: a dict, so the body under the last heading of a title is the
\* section, and the preamble is in none.
Mentions(t, section, member) ==
    \E i \in Heads(t) :
        /\ Title(t, i) = section
        /\ \A j \in Heads(t) : j > i => Title(t, j) # section
        /\ \E l \in t.blocks[i].lines : l.anchor.id = member

(* _validate_llm_output_sections, check by check.                           *)

\* The keys of the dict, in the order of first insertion, are SECTION_ORDER.
SectionsInOrder(t) ==
    /\ \A s \in Section : \E i \in Heads(t) : Title(t, i) = s
    /\ \A s, u \in Section : SectionPlace[s] < SectionPlace[u] =>
          \E i \in Heads(t) : Title(t, i) = s /\ \A j \in Heads(t) : Title(t, j) = u => i < j

NoPhantom(t, B) == Found(t) \subseteq {AnchorOf(v) : v \in B}

\* missing and duplicate view keys.
EachOnce(t, B) ==
    \A v \in B :
        /\ \E spot \in Spots(t) : spot[2].anchor = AnchorOf(v)
        /\ \A x, y \in Spots(t) :
              x[2].anchor = AnchorOf(v) /\ y[2].anchor = AnchorOf(v) => x = y

\* swapped partition, swapped source.
NotSwapped(t, B) ==
    LET Wanted == {AnchorOf(v) : v \in B}
        Parts(A, a)   == {b.partition : b \in {c \in A : c.id = a.id /\ c.source = a.source}}
        Sources(A, a) == {b.source : b \in {c \in A : c.id = a.id /\ c.partition = a.partition}}
    IN  \A a \in Wanted :
          /\ Parts(Found(t), a) \in {{}, Parts(Wanted, a)}
          /\ Sources(Found(t), a) \in {{}, Sources(Wanted, a)}

\* Faulty variant: the section of some view is good for every view.
InSomePlace(t, p, B) ==
    \A v \in B, s \in Section :
        Mentions(t, s, v.id) => \E w \in B : s = SectionOf(p, w)

\* The first section that mentions a member is the one its views belong to; a
\* member no section mentions passes.
InPlace(t, p, B) ==
    \A v \in B, s \in Section :
        /\ Mentions(t, s, v.id)
        /\ \A u \in Section : SectionPlace[u] < SectionPlace[s] => ~ Mentions(t, u, v.id)
        => s = SectionOf(p, v)

\* A tag is looked for in the whole text.
TagsKept(t, B) ==
    \A v \in B : TagOf(v) # NoTag => \E spot \in Spots(t) : spot[2].tag = TagOf(v)

\* The sources of the text are sources of the views; `unknown` is nobody's.
NoForgedSource(t, B) ==
    {a.source : a \in Found(t)} \subseteq {SourceOf(v) : v \in B} \ {unknown}

Valid(t, p, B) ==
    /\ SectionsInOrder(t)
    /\ NoPhantom(t, B) /\ EachOnce(t, B) /\ NotSwapped(t, B)
    /\ InPlace(t, p, B) /\ TagsKept(t, B)
    /\ t.alien = {} /\ NoForgedSource(t, B)
=============================================================================
