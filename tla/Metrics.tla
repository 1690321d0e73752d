------------------------------ MODULE Metrics ------------------------------
(***************************************************************************)
(* MetricsExporter and MetricsServer (src/sandbox/src/metrics.cpp).  Each  *)
(* operation of the exporter holds mutex_ and is one step.  The server     *)
(* opens a listening socket; no code accepts a connection from it.         *)
(***************************************************************************)
EXTENDS Integers, Sequences, SequencesExt, FiniteSetsExt

VARIABLES
    metrics,    \* metrics_
    server_fd,  \* server_fd_: is it a descriptor, or -1?
    sockets     \* descriptors of the server that are open

exporterVars == <<metrics>>
serverVars == <<server_fd, sockets>>

MetricsInit == metrics = <<>> /\ server_fd = FALSE /\ sockets = 0

Sample(name, type, value, labels) ==
    [name |-> name, type |-> type, value |-> value, labels |-> labels]

\* Faulty variant: a sample replaces the one with the same name and labels.
MergedSamples(s) ==
    Append(SelectSeq(metrics, LAMBDA m : m.name # s.name \/ m.labels # s.labels), s)

\* push_back: samples are neither merged nor dropped.
WithSample(s) == Append(metrics, s)

counter(name, value, labels) ==
    metrics' = WithSample(Sample(name, "counter", value, labels))

gauge(name, value, labels) ==
    metrics' = WithSample(Sample(name, "gauge", value, labels))

histogram(name, value, labels) ==
    metrics' = WithSample(Sample(name, "histogram", value, labels))

\* The samples of a name, by their places in metrics_.
Samples(name) == {i \in DOMAIN metrics : metrics[i].name = name}

\* One block per name: the type of the first sample, then all of them.
render_prometheus ==
    [name \in {metrics[i].name : i \in DOMAIN metrics} |->
        [type |-> metrics[Min(Samples(name))].type, samples |-> Samples(name)]]

\* The lines of name with one of these labels that render_prometheus prints, one
\* for each call: a series whose counter was called twice has two lines.
LinesPrinted(name, labels) == {i \in Samples(name) : metrics[i].labels \in labels}

-----------------------------------------------------------------------------
(* MetricsServer.                                                          *)

\* Faulty variant: a failed bind or listen leaves the socket open.
SocketsLeft(ok) == sockets + 1

\* The socket() succeeded; bind and listen, or the close() after either.
SocketsAfter(ok) == IF ok THEN sockets + 1 ELSE sockets

\* socket(), bind() and listen(), each of which may fail.
start ==
    \/ server_fd' = FALSE /\ UNCHANGED sockets
    \/ \E ok \in BOOLEAN : server_fd' = ok /\ sockets' = SocketsAfter(ok)

stop ==
    /\ server_fd' = FALSE
    /\ sockets' = IF server_fd THEN sockets - 1 ELSE sockets
=============================================================================
