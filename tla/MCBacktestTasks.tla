--------------------------- MODULE MCBacktestTasks ---------------------------
(* Instances of BacktestTasks for TLC. *)
EXTENDS BacktestTasks

CONSTANTS First, Second   \* the tasks that are not of the guest

\* The kinds that are put beside each other, in the order of their creation: every
\* kind, two that clean up each other's reports, and iterations over two kinds of parent.
Pairs == {<<"backtest", "composite">>, <<"backtest", "iteration">>, <<"by_id", "backtest">>,
          <<"submit", "by_id">>, <<"batch", "iteration">>}

\* Two instances in one: tasks that race one another without streams, and streams
\* that follow a task of the guest.  They meet in the status a stream reads, and one
\* task shows it every value.
Bound ==
    LET created == {t \in Tasks : status[t] # "none"} IN
    \/ created \subseteq Guests
    \/ /\ created \cap Guests = {} /\ \A s \in Streams : stream[s] = NoStream
       /\ kind[First] \in {pair[1] : pair \in Pairs}
       /\ Second \in created => <<kind[First], kind[Second]>> \in Pairs

MCSpec == Init /\ [][Next /\ Bound']_vars /\ Fairness
=============================================================================
