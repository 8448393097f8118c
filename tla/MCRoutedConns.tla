---------------------------- MODULE MCRoutedConns ----------------------------
EXTENDS RoutedConns

CONSTANTS s1, p1, site

StrategyOf == [c \in Conns |-> {"A"}]
TasksOfAll == UNION {{c} \X StrategyOf[c] : c \in Conns}
SiteQuestions == {site} \X {"A"}
AsksSite == [t \in TasksOfAll |-> <<site, t[2]>>]
RemoteDuplex == [c \in Conns |-> IF c = s1 THEN {"remote"} ELSE {}]
ByName == [c \in Conns |-> site]
=============================================================================
