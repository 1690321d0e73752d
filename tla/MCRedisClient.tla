--------------------------- MODULE MCRedisClient ---------------------------
(* An instance of RedisClient for TLC.  As long as the client is unused,   *)
(* parse_value is tried by itself on every body of at most MaxLen cells,   *)
(* far more than the server of the instance sends.                         *)
EXTENDS RedisClient, SequencesExt

CONSTANTS
    MaxLen,    \* bound: cells of a body
    MaxCell    \* bound: values of a cell; above Arr there is no tag

VARIABLES buf, result

\* "job next", and a command with an argument.
MCRequests == {<<<<7>>>>, <<<<7>>, <<8, 9>>>>}

\* nil, a string, an array of two, a truncated string, an empty body.
MCBodies == {<<Nil>>, <<Str, 1, 9>>, <<Arr, 2, Nil, Nil>>, <<Str, 5>>, <<>>}

MCInit == Init /\ buf = <<>> /\ result = parse_value(<<>>, 0)

\* The body grows cell by cell, and each prefix is parsed as a body.
Grow ==
    /\ connects = 0 /\ sent = <<>>
    /\ Len(buf) < MaxLen
    /\ \E c \in 0..MaxCell : buf' = Append(buf, c)
    /\ result' = parse_value(buf', 0)
    /\ UNCHANGED vars

Use == buf = <<>> /\ Next /\ UNCHANGED <<buf, result>>

MCSpec ==
    /\ MCInit
    /\ [][Grow \/ Use]_<<vars, buf, result>>
    /\ WF_vars(Transfer) /\ WF_vars(Serve)

\* The reference: how a server that follows the same format writes a value.
RECURSIVE Encode(_)
Encode(v) ==
    CASE v.tag = Nil -> <<Nil>>
      [] v.tag = Error -> <<Error, v.err_code, Len(v.err_msg)>> \o v.err_msg
      [] v.tag = Str -> <<Str, Len(v.str)>> \o v.str
      [] v.tag \in {Int64, Dbl} -> <<v.tag>> \o v.number
      [] v.tag = Arr -> <<Arr, Len(v.arr)>>
                           \o FlattenSeq([i \in 1..Len(v.arr) |-> Encode(v.arr[i])])

\* Scalars of every tag, and arrays of up to two values, one level deep.
Strings == {<<>>, <<0>>, <<Arr, 1>>}
Scalars == {[tag |-> Nil]}
           \cup [tag : {Error}, err_code : {0}, err_msg : Strings]
           \cup [tag : {Str}, str : Strings]
           \cup [tag : {Int64, Dbl}, number : {<<0, 0>>, <<Str, 1>>}]
Flat == [tag : {Arr}, arr : BoundedSeq(Scalars, 2)]
SmallValues == Scalars \cup Flat \cup [tag : {Arr}, arr : {<<f>> : f \in Flat}]

\* What parse_value accepts is the encoding of the value it returns, cell by
\* cell: it reads nothing outside the body, skips nothing and takes nothing
\* twice, in nested arrays too; and every value a server can send is parsed as
\* that value, whatever follows it in the body (redis_client.cpp:149-223).
ParseCorrect ==
    /\ result.ok => /\ result.pos <= Len(buf)
                    /\ Encode(result.value) = SubSeq(buf, 1, result.pos)
    /\ sent = <<>> =>
          \A v \in SmallValues :
              parse_value(Encode(v) \o buf, 0) = Ok(v, Len(Encode(v)))
=============================================================================
