-------------------------- MODULE MCNativeExecutor --------------------------
EXTENDS NativeExecutor, TLC
CONSTANTS p1, p2, f1
\* One process of each backend beside a file operation, with everything a client can do;
\* two processes one of which waits for the lock; the terminal variants by themselves.
Alone(k, file) == [kind |-> p1 :> k @@ p2 :> Unused, files |-> file, calm |-> FALSE]
Pair(k, l) == [kind |-> p1 :> k @@ p2 :> l, files |-> Unused, calm |-> TRUE]

MCScenarios == {
    Alone("static", "managed"), Alone("managed", "bootstrap"), Alone("host", "host"),
    Alone("direct", "direct"), Pair("managed", "direct"), Pair("hostpty", Unused), Pair("tty", Unused)}
=============================================================================
