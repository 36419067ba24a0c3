----------------------------- MODULE MCRenderer -----------------------------
(***************************************************************************)
(* Instance of Renderer: packs with a root in one or two partitions, a     *)
(* goal and two risks of equal status, budgets below the floor, near it    *)
(* and beyond, and a polisher that makes one edit of a text, or a moved    *)
(* line and a repeated heading at once.                                    *)
(***************************************************************************)
EXTENDS Renderer, TLC

CONSTANTS root, goal, risk, delay, confirmed, candidate,
          gConfirmed, gCandidate, extra, tCandidate

On(m, part) == [id |-> m, partition |-> part]

MCSlot == View \cup {extra}
MCTagOf(v) == IF v.partition = candidate THEN tCandidate ELSE NoTag

\* The risk known as a candidate has no source graph.
MCSourceOf(v) ==
    IF v = On(risk, candidate) THEN unknown
    ELSE IF v.partition = confirmed THEN gConfirmed ELSE gCandidate

MCPacks ==
    {[views |-> r \o o, linked |-> {}, gaps |-> {}, root |-> root, base |-> 430,
      role |-> (root :> "issue") @@ (goal :> "outcome") @@ (risk :> "risk") @@ (delay :> "risk"),
      cost |-> [v \in View |-> 70]] :
        r \in {<<>>, <<On(root, confirmed)>>, <<On(root, confirmed), On(root, candidate)>>},
        o \in {<<On(goal, confirmed), On(risk, confirmed)>>,
               <<On(goal, candidate), On(delay, candidate)>>,
               <<On(goal, confirmed), On(risk, candidate)>>}}

MCRoleText == [role \in Role |-> 12]

-----------------------------------------------------------------------------
(* The edits of a polisher.                                                 *)
WithBlocks(t, b) == [t EXCEPT !.blocks = b]

Removed(t, spot) == [t EXCEPT !.blocks[spot[1]].lines = @ \ {spot[2]}]
Added(t, j, line) == [t EXCEPT !.blocks[j].lines = @ \cup {[line EXCEPT !.slot = extra]}]
Moved(t, spot, j) == Added(Removed(t, spot), j, spot[2])

Swapped(t, j) == WithBlocks(t, [t.blocks EXCEPT ![j] = t.blocks[j + 1], ![j + 1] = t.blocks[j]])
Repeated(t, section) == WithBlocks(t, Append(t.blocks, [title |-> section, lines |-> {}]))
Preface(t) == WithBlocks(t, <<[title |-> "preamble", lines |-> {}]>> \o t.blocks)

LineEdits(line) ==
    {[line EXCEPT !.tag = NoTag], [line EXCEPT !.anchor.partition = candidate],
     [line EXCEPT !.anchor.source = gCandidate], [line EXCEPT !.anchor.id = delay]}

MCRewrites(t) ==
    {t, EmptyText, [t EXCEPT !.length = @ + 500], [t EXCEPT !.alien = {"number"}],
     [t EXCEPT !.alien = {"uri"}]}
      \cup {Swapped(t, j) : j \in {i \in Heads(t) : i = 3 /\ i + 1 \in Heads(t)}}
      \cup UNION {{Added(t, j, spot[2]) : j \in Heads(t) \cap {3}} : spot \in Spots(t)}
      \cup UNION {{Removed(t, spot),
                   Repeated(t, Title(t, spot[1])),
                   Moved(Repeated(t, Title(t, spot[1])), spot, Len(t.blocks) + 1),
                   Moved(Preface(t), <<spot[1] + 1, spot[2]>>, 1)} : spot \in Spots(t)}
      \cup UNION {{Moved(t, spot, j) : j \in Heads(t) \ {spot[1]}} : spot \in Spots(t)}
      \cup UNION {{Added(Removed(t, spot), spot[1], l) : l \in LineEdits(spot[2])} : spot \in Spots(t)}
=============================================================================
