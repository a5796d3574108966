\* KAFKA_TOPIC is what .env.example sets it to: no other topic is created
CONSTANTS
  RandomCount = 2
  FileCount = 3
  Unreadable = {2}
  Topic = "wbl0_orders"
  Creatable = {"gorders_topic"}
  MaxFaults = 0
SPECIFICATION FairSpec
PROPERTY ExitsWhenDone
