------------------------------ MODULE MCConfig ------------------------------
EXTENDS Config

K(s) == {<<w, 0>> : w \in s}

\* Keywords of each kind, with values small enough to meet, wrap and be refused.
MCWords ==
    K({"listen", "workers", "health", "check", "database", "backend", "default",
       "weight", "{", "}", ";", "abbrev", "addr1", "junk", "unclosed"})
        \union {<<"bare", 1>>, <<"bare", 2>>, <<"int", 2>>, <<"int", 200>>,
                <<"minutes", 3>>, <<"dec", 150>>, <<"rounded", 33>>}

Start == <<<<"listen", 0>>, <<"bare", 1>>, <<"monitor", 0>>, <<"addr", 1>>,
           <<"authdb", 0>>, <<"quoted", 1>>>>

\* Nothing more, or stanzas the words go on with.
MCPreambles ==
    {Start,
     Start \o <<<<"tls", 0>>, <<"{", 0>>, <<"cert", 0>>>>,
     Start \o <<<<"workers", 0>>, <<"int", 3>>, <<"health", 0>>, <<"{", 0>>,
                <<"timeout", 0>>, <<"time", 3>>, <<"database", 0>>, <<"bare", 1>>>>,
     Start \o <<<<"backend", 0>>, <<"bare", 1>>, <<"{", 0>>, <<"weight", 0>>, <<"int", 2>>,
                <<"}", 0>>, <<"backend", 0>>, <<"default", 0>>, <<"{", 0>>>>,
     Start \o <<<<"backend", 0>>, <<"default", 0>>, <<"{", 0>>, <<"weight", 0>>, <<"int", 3>>,
                <<";", 0>>, <<"}", 0>>, <<"backend", 0>>, <<"bare", 1>>, <<"{", 0>>>>}
=============================================================================
