SPECIFICATION CountSpec
CONSTANTS
  Animes = {1, 2}
  Files = {1, 2, 3}
  Readers = {r1}
  Parsed <- MCParsed
  FoundAids = {1}
  Lists <- MCLists
  AirDate <- MCAirDate
  Starts <- MCStarts
  TTL = 2
  MaxChanges = 2
INVARIANTS AnswersRight DropHolds ViewsAgree EpisodesSettle
