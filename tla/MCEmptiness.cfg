SPECIFICATION FairSpec
CONSTANTS
    b1 = b1  b2 = b2  b3 = b3  b4 = b4
    Bdds <- FourBdds
    Systems <- Mutual
INVARIANTS AnswerCorrect MemoSound MemoStackComplete
PROPERTY QuestionsAnswered
