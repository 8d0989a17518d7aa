--------------------------- MODULE MCConversation ---------------------------
EXTENDS Conversation

Chat(a, b, c, d) == [client |-> FALSE, kind |-> <<a, b, c, d>>]
Client(a, b, c, d) == [client |-> TRUE, kind |-> <<a, b, c, d>>]
SomeScripts ==
  {Chat("text", "text", b, "text") : b \in {"finish", "clear", "stop"}}
    \cup {Chat("text", "finish", "new", "text"), Chat("text", "stop", "clear", "text"),
          Client("text", "text", "cardFinish", "text"), Client("text", "cardStop", "text", "text"),
          Client("text", "cardAnswer", "text", "text")}
=============================================================================
