------------------------------ MODULE MCEnvFile ------------------------------
(* Texts of every shape for one secret, one of each kind for the database, and *)
(* hand-written lines the wizard would not write.                              *)
EXTENDS EnvFile

TextsUpTo(max) == UNION {[1..n -> {"a", "#", "\"", " "}] : n \in 0..max}

MCTyped == [JWT_SECRET |-> TextsUpTo(2), LOG_DIR |-> {<<>>},
            DB_USER |-> {<<":">>, <<"@", "/">>},
            DB_PASSWORD |-> {<<":", "@">>, <<"#", "'">>}]
MCEdited == [JWT_SECRET |-> {<<q, c, q>> : q \in {"\"", "'"}, c \in {"a", "#", " "}},
             SWAGGER_ENABLED |-> {<<"no">>},
             MAX_DEVICES_PER_USER |-> {<<"a">>},
             DB_HOST |-> {<<"a">>},
             DATABASE_URL |-> {<<"mysql://", "a", "@", "a", ":", "3", "/", "a">>,
                               <<"\"", "mysql://", "a", ":", "%40", "@", "a", ":", "3",
                                 "/", "a", "\"">>}]

MCRuns == STRING

MCFiller == <<"1">>
=============================================================================
