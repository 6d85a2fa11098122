--------------------------- MODULE MCSimplifyDOM ----------------------------
(* Instances of SimplifyDOM for TLC: articles of depth three. *)
EXTENDS SimplifyDOM

MCTags == {"text", "img", "p", "div", "span", "figure", "h2"}

Leaves(m) == {Node("text", {}, <<>>, m), Node("img", {"label"}, <<>>, m),
              Node("img", {"class"}, <<>>, m)}

Wrappers == {<<"p", {}>>, <<"div", {}>>, <<"div", {"class"}>>,
             <<"span", {"data"}>>, <<"figure", {}>>, <<"h2", {}>>}

Wrap(forests) == {Node(w[1], w[2], kids, 0) : w \in Wrappers, kids \in forests}

Inner == Wrap({<<l>> : l \in Leaves(1)} \cup {<<>>})
Pairs == {<<a, b>> : a \in Inner, b \in Inner \cup Leaves(2)}
Deep == Wrap({<<n>> : n \in Wrap({<<n>> : n \in Inner})})

MCArticles == {<<n>> : n \in Wrap(Pairs) \cup Deep} \cup Pairs

=============================================================================
