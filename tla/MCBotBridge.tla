---------------------------- MODULE MCBotBridge -----------------------------
EXTENDS BotBridge
CONSTANTS q1, q2, q3
\* One chat: chats matter to the caps only, and so all calls are alike.
MCChatOf == (q1 :> 1) @@ (q2 :> 1) @@ (q3 :> 1)
\* The bot may die and be started again.
MCMaxStarts == [bot |-> 2, agent |-> 1]
\* cli/main.py passes a slug, bot/main.py the path of config.py.
MCProjectOf == [bot |-> "path", agent |-> "slug"]
Alike == Permutations(Call)
=============================================================================
