-------------------------- MODULE MCKnowledgeIndex --------------------------
(* An API and a worker process.  The first version has two documents with  *)
(* one doc_id; the second changes the first piece of "a", adds another to  *)
(* it and drops "b".                                                       *)
EXTENDS HybridSearch, Splitter

file(doc, body) == [doc |-> doc, body |-> body]
Files == << <<file("a", <<"x">>), file("b", <<"x">>), file("b", <<"y">>)>>,
            <<file("a", <<"y", " ", "x">>)>> >>

(* Load: a piece is stored at the point its document and place stand for.  *)
PointOf(doc) == [a |-> <<1, 3>>, b |-> <<2>>][doc]
Load(files) ==
    FlattenSeq([k \in DOMAIN files |->
        LET pieces == Split(files[k].body, 2)
        IN  [n \in DOMAIN pieces |-> [id |-> PointOf(files[k].doc)[n], text |-> pieces[n]]]])

c(i, t) == [id |-> i, text |-> <<t>>]
TwoVersions == << <<c(1, "x"), c(2, "x"), c(2, "y")>>, <<c(1, "y"), c(3, "x")>> >>
Texts == {<<"x">>, <<"y">>}

ASSUME VersionsAssumption == TwoVersions = <<Load(Files[1]), Load(Files[2])>>

(* Every document of up to three of these rows: empty and blank ones, a    *)
(* long word, sentences, headings of two levels and fences.                *)
Rows == {<< >>, <<" ">>, <<"a", "b", TAB, "c", CR>>, <<"a", "b", "c", "d", "e">>,
         <<"a", ".", " ", "b", ".", "c">>, <<"a", "ideographic stop", "b">>,
         <<"#", " ", "h">>, <<"#", "#">>, <<TAB, "#">>, <<"tick", "tick", "tick">>,
         <<" ", "~", "~", "~", "~">>}
Joined(rows) ==
    FlattenSeq([k \in DOMAIN rows |-> IF k < Len(rows) THEN Append(rows[k], NL) ELSE rows[k]])
SmallDocuments == {Joined(rows) : rows \in UNION {[1 .. n -> Rows] : n \in 1 .. 3}}

(* The chunks of the documents with this doc_id, in order.                 *)
Of(doc, v) == SelectSeq(Versions[v], LAMBDA chunk : chunk.id \in ToSet(PointOf(doc)))

Own(doc, v) == Cardinality({k \in DOMAIN Files[v] : Files[v][k].doc = doc}) = 1

(* What is indexed is the text.  Whatever its headings, fences, sentences  *)
(* and lengths, cutting a document loses, doubles and reorders nothing;    *)
(* and once all processes serve one version and Qdrant has applied what it *)
(* acknowledged, the points of a document that has its doc_id to itself    *)
(* hold its words in order, whatever other versions and unfinished starts  *)
(* wrote to them (splitter.go Split, loader.go Load, retriever.go Index).  *)
PiecesAreTheText ==
    /\ SplitsSound
    /\ \A v \in DOMAIN Files :
          (\A r \in Replica : image[r] = v /\ at[r] = "up") /\ ~late /\ queue = << >> =>
             \A f \in {g \in ToSet(Files[v]) : Own(g.doc, v)} :
                LET chunks == Of(f.doc, v)
                IN  AllWords([n \in DOMAIN chunks |-> points[chunks[n].id]]) = Words(f.body)
=============================================================================
