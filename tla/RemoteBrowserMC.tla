-------------------------- MODULE RemoteBrowserMC --------------------------
(* Browsing a server with two levels of directories.                       *)
EXTENDS RemoteBrowser

CONSTANTS a, b

\* Directories a and b can hold a b each.
PathMC == {<<>>, <<a>>, <<b>>, <<a, b>>, <<b, b>>}

\* Texts step up at most once, out of the root or a directory in it, and from
\* there to b.
TextMC == PathMC \cup {p \o up : p \in {<<>>, <<a>>, <<b>>}, up \in {<<"above">>, <<"above", b>>}}

LeadsMC[x \in TextMC] ==
    IF x = <<>> THEN <<>>
    ELSE LET base == LeadsMC[Front(x)]
         IN  IF Last(x) # "above" THEN Append(base, Last(x))
             ELSE IF base = <<>> THEN <<>> ELSE Front(base)

\* The login directory is below the root, so that the two can be told apart.
HomeMC == <<a>>

\* As an absolute path outside the login directory, or relative to the session.
TypedMC == {<<b>>, <<"above">>}

\* "b/", "../b", "/" and what is refused.
NamedMC == {<<b, "nothing">>, <<"above", b>>, <<"nothing", "nothing">>,
            <<"nothing">>, <<"here">>, <<"above">>}
=============================================================================
