--------------------------- MODULE MCPayloadCodec ---------------------------
EXTENDS PayloadCodec, TLC

\* "word" stays in its manifest, "page" does not; an attachment may have the
\* content of a page.  "dump" is a page of JSON that quotes another archive.
MCLength == "word" :> 2 @@ "page" :> 9 @@ "dump" :> 9 @@ "events" :> 9
MCQuoted == "dump" :> [ref |-> [bytes |-> "elsewhere"], encoding |-> "utf8", media |-> "text/plain"]

Text(b) == [text |-> b]
URL(b, params) == [url |-> b, media |-> "image", params |-> params]
Pair(v, w) == [node |-> "x" :> v @@ "y" :> w]
Noisy(v) == [node |-> "x" :> v @@ "encrypted_content" :> Text("page")]

Leaves == {[num |-> 1], [num |-> 9], Text("word"), Text("page"), URL("page", TRUE)}
Pairs == {Pair(v, w) : v, w \in Leaves} \cup {Noisy(Text("word"))}
Trees == {Pair(p, w) : p \in Pairs, w \in {Text("word"), Text("dump")}}
Deep == {Pair(Noisy(t), t) : t \in Trees}

JSON(v, more) == [first |-> v, more |-> more]
MCInputs ==
    {JSON(v, FALSE) : v \in Leaves \cup Pairs \cup Trees \cup Deep}
        \cup {JSON(Pair(Text("word"), Text("page")), TRUE),
              [stream |-> "events", last |-> Pair(Text("word"), Text("page"))],
              [other |-> "page"], [other |-> "events"]}
=============================================================================
