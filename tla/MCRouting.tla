----------------------------- MODULE MCRouting -----------------------------
(* A small instance of Routing for TLC: a site with a CGI directory in it, *)
(* another tree of the same shape beside it, a link, and a second name for *)
(* a directory.                                                            *)
EXTENDS Routing

MCDirs == {<<>>, <<"site">>, <<"site", "bin">>, <<"other">>, <<"other", "bin">>}
MCFiles ==
  {<<"site", "page">>, <<"site", Index>>, <<"site", ".env">>, <<"site", "bin", "page">>,
   <<"other", "page">>, <<"other", "bin", "page">>}

Named(at, on) == [at |-> at, on |-> on]
To(at, to) == [at |-> at, to |-> to]

(* Names that are folded are siblings; a directory that is mounted a       *)
(* second time is as deep here as the first time.                          *)
MCAliases ==
  {Named(<<>>, <<>>), Named(<<"SITE">>, <<"site">>), Named(<<"site", "BIN">>, <<"site", "bin">>),
   Named(<<"other", "bin">>, <<"site", "bin">>)}

(* No link, a link to the release that is current, and a link within the   *)
(* site to something outside or to the CGI directory.                      *)
MCLinks ==
  {To(<<"none">>, <<"nowhere">>),
   To(<<"current">>, <<"site">>), To(<<"current">>, <<"other">>),
   To(<<"site", "link">>, <<"site", "bin">>), To(<<"site", "link">>, <<"other", "page">>)}

MCSettings ==
  {s \in [static : {NoDir, <<"site">>, <<"current">>, <<"SITE">>, <<"other">>},
          cgi : {NoDir, <<"site", "bin">>, <<"current", "bin">>, <<"SITE", "bin">>, <<"site">>},
          script : {NoDir, <<"site", "bin">>, <<"other">>}] :
     s # [static |-> NoDir, cgi |-> NoDir, script |-> NoDir]}

MCURLs ==
  {<<>>, <<"page">>, <<"bin">>, <<"bin", "page">>, <<"BIN", "page">>, <<"link">>,
   <<"link", "page">>, <<"bin", "..", "page">>, <<Index>>, <<".env">>}
=============================================================================
